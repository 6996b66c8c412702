--------------------------- MODULE Baskets_proofs ---------------------------
(***************************************************************************)
(* Basket returns for any constituents, prices, windows and forward fill:  *)
(* the walk over the calendar, the windows, and what is left out.          *)
(***************************************************************************)
EXTENDS Baskets, Sums, SequenceTheorems

-----------------------------------------------------------------------------
(***************************************************************************)
(* Types, and the order of the calendar.                                   *)
(***************************************************************************)

LEMMA InitTypes == Init => TypeOK
<1> SUFFICES ASSUME Init PROVE TypeOK
  OBVIOUS
<1>1. day = 0 /\ 1..day = {} /\ day \in 0..LastDay
  <2>1. day = 0 /\ LastDay \in Nat
    BY BasketsAssumption DEF Init
  <2> QED BY <2>1
<1>2. \A t \in Symbol : closes[t] \in [1..day -> Prices[t] \cup {NoClose}]
  BY <1>1 DEF Init
<1>3. calendar \in Seq(1..day) /\ DOMAIN calendar = {}
  BY DEF Init
<1> QED BY <1>1, <1>2, <1>3 DEF TypeOK

\* A day more of trading.
LEMMA TradeTypes ==
  ASSUME TypeOK, NEW traded,
         \A t \in Symbol : traded[t] \in Prices[t] \cup {NoClose}, Trade(traded)
  PROVE  TypeOK'
<1>1. day' = day + 1 /\ day \in Nat /\ day' \in 0..LastDay
  BY BasketsAssumption DEF TypeOK, Trade
<1>2. ASSUME NEW t \in Symbol
      PROVE  /\ closes'[t] \in [1..day' -> Prices[t] \cup {NoClose}]
             /\ \A d \in 1..day : closes'[t][d] = closes[t][d]
             /\ closes'[t][day'] = traded[t]
  <2> DEFINE X == Prices[t] \cup {NoClose}
  <2>1. closes[t] \in Seq(X) /\ Len(closes[t]) = day
    BY <1>1 DEF TypeOK
  <2>2. closes'[t] = Append(closes[t], traded[t]) /\ traded[t] \in X
    BY DEF Trade
  <2> HIDE DEF X
  <2>3. /\ closes'[t] \in Seq(X) /\ Len(closes'[t]) = day + 1
        /\ \A d \in 1..day : closes'[t][d] = closes[t][d]
        /\ closes'[t][day + 1] = traded[t]
    BY <2>1, <2>2, AppendProperties
  <2>4. closes'[t] \in [1..(day + 1) -> X]
    BY <2>3, LenProperties
  <2> QED BY <1>1, <2>3, <2>4 DEF X
<1>3. calendar \in Seq(1..day') /\ 1..day \subseteq 1..day'
  <2>1. 1..day \subseteq 1..day'
    BY <1>1
  <2> QED BY <2>1, SeqMonotonic DEF TypeOK
<1>4. Benchmark \in Symbol
  BY DEF Symbol
<1>5. \A n \in DOMAIN calendar :
        /\ calendar[n] \in 1..day
        /\ closes'[Benchmark][calendar[n]] # NoClose
        /\ n > 1 => calendar[n - 1] < calendar[n]
  <2>1. \A n \in DOMAIN calendar : calendar[n] \in 1..day
    BY DEF TypeOK
  <2> QED BY <1>2, <1>4, <2>1 DEF TypeOK
<1>6. CASE calendar' = calendar
  BY <1>1, <1>2, <1>3, <1>5, <1>6 DEF TypeOK
<1>7. CASE traded[Benchmark] # NoClose /\ calendar' = Append(calendar, day + 1)
  <2>1. day + 1 \in 1..day'
    BY <1>1
  <2>2. /\ calendar' \in Seq(1..day') /\ Len(calendar') = Len(calendar) + 1
        /\ \A n \in 1..Len(calendar) : calendar'[n] = calendar[n]
        /\ calendar'[Len(calendar) + 1] = day + 1
    BY <1>3, <1>7, <2>1, AppendProperties
  <2>3. DOMAIN calendar = 1..Len(calendar) /\ DOMAIN calendar' = 1..(Len(calendar) + 1)
        /\ Len(calendar) \in Nat
    BY <1>3, <2>2, LenProperties
  <2>4. ASSUME NEW n \in DOMAIN calendar'
        PROVE  /\ closes'[Benchmark][calendar'[n]] # NoClose
               /\ n > 1 => calendar'[n - 1] < calendar'[n]
    <3>1. CASE n \in 1..Len(calendar)
      <4>1. n > 1 => n - 1 \in 1..Len(calendar)
        BY <2>3, <3>1
      <4> QED BY <1>5, <2>2, <2>3, <3>1, <4>1
    <3>2. CASE n = Len(calendar) + 1
      <4>1. closes'[Benchmark][calendar'[n]] = traded[Benchmark]
        BY <1>1, <1>2, <1>4, <2>2, <3>2
      <4>2. n > 1 => n - 1 \in 1..Len(calendar)
        BY <2>3, <3>2
      <4>3. n > 1 => calendar[n - 1] \in 1..day
        BY <1>5, <2>3, <4>2
      <4> QED BY <1>1, <1>7, <2>2, <3>2, <4>1, <4>2, <4>3
    <3> QED BY <2>3, <3>1, <3>2
  <2> QED BY <1>1, <1>2, <2>2, <2>4 DEF TypeOK
<1> QED BY <1>6, <1>7 DEF Trade

\* Days and prices keep their domains, and the calendar holds, in their order,
\* only days on which the benchmark closed.
THEOREM TypeCorrect == Spec => []TypeOK
<1>1. TypeOK /\ [Next]_vars => TypeOK'
  BY TradeTypes DEF Next, vars, TypeOK
<1> QED BY <1>1, InitTypes, PTL DEF Spec

Increasing(s) == \A i, j \in 1..Len(s) : i < j => s[i] < s[j]

\* The days of the calendar, and not only neighbours, are in their order.
LEMMA CalendarIncreasing ==
  ASSUME TypeOK
  PROVE  calendar \in Seq(Nat) /\ Increasing(calendar)
<1> DEFINE N == Len(calendar)
           sorted == {j \in Nat : j \in 1..N => \A i \in 1..N : i < j => calendar[i] < calendar[j]}
<1>1. calendar \in Seq(Nat)
  <2>1. 1..day \subseteq Nat
    BY DEF TypeOK
  <2> QED BY <2>1, SeqMonotonic DEF TypeOK
<1>2. N \in Nat /\ \A i \in 1..N : calendar[i] \in Nat
  BY <1>1, ElementOfSeq
<1>3. \A n \in 1..N : n > 1 => calendar[n - 1] < calendar[n]
  BY <1>1, LenProperties DEF TypeOK
<1>4. 0 \in sorted
  BY <1>2
<1>5. ASSUME NEW n \in 0..(N - 1), n \in sorted PROVE n + 1 \in sorted
  <2> SUFFICES ASSUME NEW i \in 1..N, i < n + 1 PROVE calendar[i] < calendar[n + 1]
    BY <1>2
  <2>1. n \in 1..N /\ n + 1 \in 1..N /\ calendar[n] < calendar[n + 1]
    BY <1>2, <1>3
  <2>2. i = n \/ calendar[i] < calendar[n]
    BY <1>2, <1>5, <2>1
  <2> QED BY <1>2, <2>1, <2>2
<1>6. 0..N \subseteq sorted
  <2> HIDE DEF N, sorted
  <2> QED BY <1>2, <1>4, <1>5, UpwardInduction
<1> QED BY <1>1, <1>6 DEF Increasing

-----------------------------------------------------------------------------
(***************************************************************************)
(* Places in a calendar.                                                   *)
(***************************************************************************)

LEMMA LastPlaceFacts ==
  ASSUME NEW N \in Nat, NEW P \in SUBSET (1..N)
  PROVE  /\ LastPlace(P) \in 0..N
         /\ P = {} <=> LastPlace(P) = 0
         /\ P # {} => LastPlace(P) \in P
         /\ \A n \in P : n <= LastPlace(P)
<1>1. CASE P = {}
  BY <1>1 DEF LastPlace
<1>2. CASE P # {}
  <2>1. \E m \in P : \A k \in P : k <= m
    <3>1. P \in SUBSET Int /\ N \in Int /\ \A n \in P : n <= N
      OBVIOUS
    <3> QED BY <1>2, <3>1, GreatestBelow
  <2>2. \E m \in P : \A k \in P : m >= k
    BY <2>1
  <2>3. Max(P) \in P /\ \A k \in P : Max(P) >= k
    BY <2>2 DEF Max
  <2>4. LastPlace(P) = Max(P)
    BY <1>2 DEF LastPlace
  <2> HIDE DEF Max
  <2>5. Max(P) \in 1..N /\ \A k \in P : k <= Max(P)
    BY <2>3
  <2> QED BY <1>2, <2>3, <2>4, <2>5
<1> QED BY <1>1, <1>2

\* The sessions up to a day are the first ones.
LEMMA UpToFacts ==
  ASSUME NEW s \in Seq(Nat), Increasing(s), NEW d \in Int
  PROVE  /\ UpTo(s, d) \in 0..Len(s)
         /\ \A i \in 1..Len(s) : i <= UpTo(s, d) <=> s[i] <= d
         /\ Cardinality(PlacesUpTo(s, d)) = UpTo(s, d)
<1> DEFINE N == Len(s)
           P == PlacesUpTo(s, d)
           u == UpTo(s, d)
<1>1. N \in Nat /\ DOMAIN s = 1..N /\ \A i \in 1..N : s[i] \in Nat
  BY LenProperties, ElementOfSeq
<1>2. P = {i \in 1..N : s[i] <= d} /\ u = LastPlace(P)
  BY <1>1 DEF PlacesUpTo, UpTo
<1>3. P \in SUBSET (1..N)
  BY <1>2
<1>4. u \in 0..N /\ (P = {} <=> u = 0) /\ (P # {} => u \in P) /\ \A n \in P : n <= u
  <2> HIDE DEF N, P, u
  <2> QED BY <1>1, <1>2, <1>3, LastPlaceFacts
<1>5. ASSUME NEW i \in 1..N PROVE i <= u <=> s[i] <= d
  <2>1. s[i] <= d => i <= u
    BY <1>2, <1>4
  <2>2. i < u => s[i] < s[u]
    BY <1>4 DEF Increasing
  <2>3. i <= u => u \in P /\ s[u] <= d /\ u \in 1..N
    BY <1>2, <1>4
  <2>4. i <= u => s[i] <= d
    <3>1. CASE i = u
      BY <2>3, <3>1
    <3>2. CASE i < u
      BY <1>1, <2>2, <2>3, <3>2
    <3> QED BY <1>4, <3>1, <3>2
  <2> QED BY <2>1, <2>4
<1>6. P = 1..u
  <2>1. \A i \in P : i \in 1..u
    BY <1>1, <1>2, <1>4
  <2>2. \A i \in 1..u : i \in 1..N
    BY <1>1, <1>4
  <2>3. \A i \in 1..u : i \in P
    BY <1>2, <1>4, <1>5, <2>2
  <2> QED BY <2>1, <2>3
<1>7. Cardinality(1..u) = u
  <2>1. u \in Nat /\ 1..u = 1..u /\ u - 1 + 1 = u
    BY <1>4
  <2> QED BY <2>1, FS_Interval
<1> QED BY <1>4, <1>5, <1>6, <1>7

\* There is one such place.
LEMMA UpToIs ==
  ASSUME NEW s \in Seq(Nat), Increasing(s), NEW d \in Int, NEW u \in 0..Len(s),
         \A i \in 1..Len(s) : i <= u <=> s[i] <= d
  PROVE  UpTo(s, d) = u
<1>1. /\ UpTo(s, d) \in 0..Len(s) /\ Len(s) \in Nat
      /\ \A i \in 1..Len(s) : i <= UpTo(s, d) <=> s[i] <= d
  BY UpToFacts, LenProperties
<1> HIDE DEF UpTo
<1>2. CASE u < UpTo(s, d)
  <2>1. UpTo(s, d) \in 1..Len(s)
    BY <1>1, <1>2
  <2> QED BY <1>1, <1>2, <2>1
<1>3. CASE UpTo(s, d) < u
  <2>1. u \in 1..Len(s)
    BY <1>1, <1>3
  <2> QED BY <1>1, <1>3, <2>1
<1> QED BY <1>1, <1>2, <1>3

-----------------------------------------------------------------------------
(***************************************************************************)
(* The walk of align_to_calendar.                                          *)
(***************************************************************************)

Nothing == [last |-> NoClose, filled |-> 0]

\* What a session with this price, or NoClose, makes of the entry before it.
Walked(price, before) ==
  IF price # NoClose THEN [last |-> price, filled |-> 0]
  ELSE IF before.last = NoClose THEN before
  ELSE [before EXCEPT !.filled = @ + 1]

\* The recursive function is the walk: each entry is made from the one before.
LEMMA CarriedIs ==
  ASSUME NEW t, NEW s, Len(s) \in Nat
  PROVE  /\ Carried(t, s)[0] = Nothing
         /\ \A n \in 1..Len(s) :
              Carried(t, s)[n] = Walked(closes[t][s[n]], Carried(t, s)[n - 1])
<1> DEFINE N == Len(s)
           body(g, n) == IF n = 0 THEN Nothing ELSE Walked(closes[t][s[n]], g[n - 1])
           built == {k \in Nat : \E g : g = [n \in 0..k |-> body(g, n)]}
<1>1. 0 \in built
  <2> DEFINE g == [n \in 0..0 |-> Nothing]
  <2>1. g = [n \in 0..0 |-> body(g, n)]
    OBVIOUS
  <2> HIDE DEF g
  <2> QED BY <2>1
<1>2. ASSUME NEW k \in 0..(N - 1), k \in built PROVE k + 1 \in built
  <2>1. PICK g : g = [n \in 0..k |-> body(g, n)]
    BY <1>2
  <2> DEFINE h == [n \in 0..(k + 1) |-> body(g, n)]
  <2>2. ASSUME NEW n \in 0..(k + 1) PROVE body(g, n) = body(h, n)
    <3>1. CASE n = 0
      BY <3>1
    <3>2. CASE n # 0
      <4>1. n - 1 \in 0..k /\ n - 1 \in 0..(k + 1)
        BY <3>2
      <4>2. h[n - 1] = body(g, n - 1)
        BY <4>1
      <4>3. g[n - 1] = body(g, n - 1)
        <5> HIDE DEF body
        <5> QED BY <2>1, <4>1
      <4> QED BY <3>2, <4>2, <4>3
    <3> QED BY <3>1, <3>2
  <2>3. h = [n \in 0..(k + 1) |-> body(h, n)]
    <3> HIDE DEF body
    <3> QED BY <2>2
  <2> HIDE DEF h
  <2> QED BY <1>2, <2>3
<1>3. N \in built
  <2> HIDE DEF N, built
  <2>1. 0..N \subseteq built
    BY <1>1, <1>2, UpwardInduction DEF N
  <2> QED BY <2>1 DEF N
<1> DEFINE c == CHOOSE g : g = [n \in 0..N |-> body(g, n)]
<1>4. Carried(t, s) = c
  BY DEF Carried, Walked, Nothing
<1>5. c = [n \in 0..N |-> body(c, n)]
  BY <1>3
<1> HIDE DEF c
<1>6. \A n \in 0..N : c[n] = body(c, n)
  <2> HIDE DEF body
  <2> QED BY <1>5
<1>7. c[0] = body(c, 0) /\ \A n \in 1..N : c[n] = body(c, n)
  BY <1>6
<1> QED BY <1>4, <1>7

\* What the walk carries: the newest close so far, and how many sessions ago.
LEMMA CarriedFrom ==
  ASSUME NEW t, NEW s, Len(s) \in Nat, NEW k \in 0..Len(s)
  PROVE  \/ /\ Carried(t, s)[k] = Nothing
            /\ \A i \in 1..k : closes[t][s[i]] = NoClose
         \/ \E m \in 1..k :
              /\ closes[t][s[m]] # NoClose
              /\ \A i \in (m + 1)..k : closes[t][s[i]] = NoClose
              /\ Carried(t, s)[k] = [last |-> closes[t][s[m]], filled |-> k - m]
<1> DEFINE N == Len(s)
           c == Carried(t, s)
           close(i) == closes[t][s[i]]
           none(n) == c[n] = Nothing /\ \A i \in 1..n : close(i) = NoClose
           from(n, m) == /\ close(m) # NoClose
                         /\ \A i \in (m + 1)..n : close(i) = NoClose
                         /\ c[n] = [last |-> close(m), filled |-> n - m]
           known == {n \in Nat : none(n) \/ \E m \in 1..n : from(n, m)}
<1>1. /\ c[0] = Nothing
      /\ \A n \in 1..N : c[n] = Walked(close(n), c[n - 1])
  BY CarriedIs
<1> HIDE DEF c, close
<1>2. 0 \in known
  BY <1>1
<1>3. ASSUME NEW n \in 0..(N - 1), n \in known PROVE n + 1 \in known
  <2>1. /\ n + 1 \in 1..N /\ n \in Nat /\ c[n + 1] = Walked(close(n + 1), c[n])
    BY <1>1
  <2>2. CASE close(n + 1) # NoClose
    <3>1. c[n + 1] = [last |-> close(n + 1), filled |-> 0]
      BY <2>1, <2>2 DEF Walked
    <3>2. from(n + 1, n + 1) /\ n + 1 \in 1..(n + 1)
      BY <2>1, <2>2, <3>1
    <3> QED BY <2>1, <3>2
  <2>3. CASE close(n + 1) = NoClose /\ none(n)
    <3>1. c[n + 1] = Nothing
      BY <2>1, <2>3 DEF Walked, Nothing
    <3>2. none(n + 1)
      BY <2>1, <2>3, <3>1
    <3> QED BY <2>1, <3>2
  <2>4. ASSUME close(n + 1) = NoClose, NEW m \in 1..n, from(n, m) PROVE n + 1 \in known
    <3>1. c[n + 1] = [c[n] EXCEPT !.filled = @ + 1]
      BY <2>1, <2>4 DEF Walked
    <3>2. c[n + 1] = [last |-> close(m), filled |-> (n + 1) - m]
      BY <2>1, <2>4, <3>1
    <3>3. from(n + 1, m) /\ m \in 1..(n + 1)
      BY <2>1, <2>4, <3>2
    <3> QED BY <2>1, <3>3
  <2> QED BY <1>3, <2>2, <2>3, <2>4
<1>4. k \in known
  <2> HIDE DEF known
  <2>1. 0..N \subseteq known
    BY <1>2, <1>3, UpwardInduction
  <2> QED BY <2>1
<1> QED BY <1>4 DEF c, close

\* The first sessions of a calendar.
LEMMA Prefix ==
  ASSUME NEW s \in Seq(Nat), Increasing(s), NEW n \in 1..Len(s)
  PROVE  /\ SubSeq(s, 1, n) \in Seq(Nat) /\ Len(SubSeq(s, 1, n)) = n
         /\ \A i \in 1..n : SubSeq(s, 1, n)[i] = s[i]
         /\ Increasing(SubSeq(s, 1, n))
         /\ Len(s) \in Nat
<1>1. Len(s) \in Nat /\ \A i \in 1..n : s[i] \in Nat
  BY LenProperties, ElementOfSeq
<1>2. /\ SubSeq(s, 1, n) \in Seq(Nat)
      /\ Len(SubSeq(s, 1, n)) = IF 1 <= n THEN n - 1 + 1 ELSE 0
      /\ \A i \in 1..(n - 1 + 1) : SubSeq(s, 1, n)[i] = s[1 + i - 1]
  <2>1. 1 \in Int /\ n \in Int
    BY <1>1
  <2> QED BY <1>1, <2>1, SubSeqProperties
<1>3. n - 1 + 1 = n /\ 1 <= n /\ \A i \in 1..n : 1 + i - 1 = i
  BY <1>1
<1>4. Len(SubSeq(s, 1, n)) = n /\ \A i \in 1..n : SubSeq(s, 1, n)[i] = s[i]
  BY <1>2, <1>3
<1>5. \A i \in 1..n : i \in 1..Len(s)
  BY <1>1
<1> QED BY <1>1, <1>2, <1>4, <1>5 DEF Increasing

\* The walk has not looked ahead.
LEMMA CarriedPrefix ==
  ASSUME NEW t, NEW s \in Seq(Nat), Increasing(s), NEW n \in 1..Len(s), NEW k \in 0..n
  PROVE  Carried(t, SubSeq(s, 1, n))[k] = Carried(t, s)[k]
<1> DEFINE p == SubSeq(s, 1, n)
           same == {i \in Nat : Carried(t, p)[i] = Carried(t, s)[i]}
<1>1. Len(p) = n /\ Len(s) \in Nat /\ n \in Nat /\ \A i \in 1..n : p[i] = s[i]
  BY Prefix
<1>2. /\ Carried(t, p)[0] = Nothing /\ Carried(t, s)[0] = Nothing
      /\ \A i \in 1..n : Carried(t, p)[i] = Walked(closes[t][s[i]], Carried(t, p)[i - 1])
      /\ \A i \in 1..n : Carried(t, s)[i] = Walked(closes[t][s[i]], Carried(t, s)[i - 1])
  <2> HIDE DEF p
  <2> QED BY <1>1, CarriedIs
<1>3. 0 \in same
  BY <1>2
<1>4. ASSUME NEW i \in 0..(n - 1), i \in same PROVE i + 1 \in same
  <2>1. i + 1 \in 1..n /\ (i + 1) - 1 = i
    BY <1>1
  <2> QED BY <1>2, <1>4, <2>1
<1>5. 0..n \subseteq same
  <2> HIDE DEF same
  <2> QED BY <1>1, <1>3, <1>4, UpwardInduction
<1> QED BY <1>5

\* A set of numbers has one greatest element.
LEMMA MaxIs ==
  ASSUME NEW S \in SUBSET Int, NEW m \in S, \A k \in S : k <= m
  PROVE  Max(S) = m
<1>1. \A k \in S : m >= k
  OBVIOUS
<1>2. Max(S) \in S /\ \A k \in S : Max(S) >= k
  BY <1>1 DEF Max
<1> HIDE DEF Max
<1>3. Max(S) <= m /\ Max(S) >= m /\ Max(S) \in Int /\ m \in Int
  BY <1>2
<1> QED BY <1>3

\* The days of the calendar by their place.
LEMMA CalendarFacts ==
  ASSUME TypeOK
  PROVE  /\ Len(calendar) \in Nat /\ DOMAIN calendar = 1..Len(calendar)
         /\ \A i \in 1..Len(calendar) : calendar[i] \in Nat \ {0}
         /\ \A i, j \in 1..Len(calendar) : i < j <=> calendar[i] < calendar[j]
         /\ \A i, j \in 1..Len(calendar) : calendar[i] = calendar[j] => i = j
         /\ Sessions = {calendar[i] : i \in 1..Len(calendar)}
<1>1. calendar \in Seq(Nat) /\ Increasing(calendar)
  BY CalendarIncreasing
<1>2. Len(calendar) \in Nat /\ DOMAIN calendar = 1..Len(calendar)
  BY <1>1, LenProperties
<1>3. \A i \in 1..Len(calendar) : calendar[i] \in 1..day
  BY <1>2 DEF TypeOK
<1>4. \A i \in 1..Len(calendar) : calendar[i] \in Nat \ {0}
  BY <1>3 DEF TypeOK
<1>5. \A i, j \in 1..Len(calendar) : i < j <=> calendar[i] < calendar[j]
  <2> SUFFICES ASSUME NEW i \in 1..Len(calendar), NEW j \in 1..Len(calendar)
               PROVE  i < j <=> calendar[i] < calendar[j]
    OBVIOUS
  <2>1. (i < j => calendar[i] < calendar[j]) /\ (j < i => calendar[j] < calendar[i])
    BY <1>1 DEF Increasing
  <2> QED BY <1>2, <1>4, <2>1
<1>6. \A i, j \in 1..Len(calendar) : calendar[i] = calendar[j] => i = j
  BY <1>2, <1>4, <1>5
<1> QED BY <1>2, <1>4, <1>5, <1>6 DEF Sessions, ToSet

\* The sessions after the m-th and up to the n-th.
Stretch(m, n) == {calendar[i] : i \in (m + 1)..n}

\* The first n sessions are those up to day x.
OverBy(n, x) == \A i \in 1..Len(calendar) : i <= n <=> calendar[i] <= x

\* How many sessions there are from one place to another.
LEMMA PlacesCounted ==
  ASSUME TypeOK, NEW n \in 0..Len(calendar), NEW m \in 0..n
  PROVE  Cardinality(Stretch(m, n)) = n - m
<1> DEFINE N == Len(calendar)
           B == {calendar[i] : i \in (m + 1)..n}
           f == [i \in (m + 1)..n |-> calendar[i]]
<1>1. /\ N \in Nat /\ n \in Nat /\ m \in Nat /\ m <= n
      /\ \A i, j \in 1..N : calendar[i] = calendar[j] => i = j
  BY CalendarFacts
<1>2. \A i \in (m + 1)..n : i \in 1..N
  BY <1>1
<1>3. f \in Bijection((m + 1)..n, B)
  <2>1. f \in [(m + 1)..n -> B] /\ \A i \in (m + 1)..n : f[i] = calendar[i]
    OBVIOUS
  <2>2. \A i, j \in (m + 1)..n : f[i] = f[j] => i = j
    BY <1>1, <1>2, <2>1
  <2>3. \A e \in B : \E i \in (m + 1)..n : f[i] = e
    BY <2>1
  <2> HIDE DEF f, B
  <2> QED BY <2>1, <2>2, <2>3 DEF Bijection, Injection, Surjection, IsInjective
<1>4. IsFiniteSet((m + 1)..n) /\ Cardinality((m + 1)..n) = n - m
  <2>1. m + 1 \in Int /\ n \in Int
    BY <1>1
  <2>2. /\ IsFiniteSet((m + 1)..n)
        /\ Cardinality((m + 1)..n) = IF m + 1 > n THEN 0 ELSE n - (m + 1) + 1
    BY <2>1, FS_Interval
  <2> HIDE DEF N
  <2> QED BY <1>1, <2>2
<1> HIDE DEF B, f
<1>5. ExistsBijection((m + 1)..n, B)
  BY <1>3 DEF ExistsBijection
<1>6. Cardinality(B) = Cardinality((m + 1)..n)
  BY <1>4, <1>5, FS_Bijection
<1> QED BY <1>4, <1>6 DEF B, Stretch

\* The sessions after day c and up to day x, by their places.
LEMMA BetweenIs ==
  ASSUME TypeOK, NEW x \in Int, NEW c \in Int, NEW m \in 0..Len(calendar),
         NEW n \in 0..Len(calendar), OverBy(m, c), OverBy(n, x)
  PROVE  SessionsBetween(c, x) = Stretch(m, n)
<1> DEFINE N == Len(calendar)
<1>1. /\ N \in Nat /\ n \in Nat /\ m \in Nat /\ n <= N
      /\ \A i \in 1..N : calendar[i] \in Nat
      /\ Sessions = {calendar[i] : i \in 1..N}
  BY CalendarFacts
<1>2. \A i \in (m + 1)..n : i \in 1..N
  BY <1>1
<1>3. \A i \in 1..N : c < calendar[i] /\ calendar[i] <= x <=> i \in (m + 1)..n
  BY <1>1 DEF OverBy
<1>4. ASSUME NEW e \in SessionsBetween(c, x) PROVE \E i \in (m + 1)..n : e = calendar[i]
  BY <1>1, <1>3 DEF SessionsBetween
<1>5. ASSUME NEW i \in (m + 1)..n PROVE calendar[i] \in SessionsBetween(c, x)
  BY <1>1, <1>2, <1>3 DEF SessionsBetween
<1> QED BY <1>4, <1>5 DEF Stretch

\* A place, and the days up to its session.
LEMMA PlaceOrder ==
  ASSUME TypeOK, NEW k \in 1..Len(calendar)
  PROVE  OverBy(k, calendar[k])
<1> SUFFICES ASSUME NEW i \in 1..Len(calendar) PROVE i <= k <=> calendar[i] <= calendar[k]
  BY DEF OverBy
<1>1. /\ Len(calendar) \in Nat /\ calendar[i] \in Nat /\ calendar[k] \in Nat
      /\ k < i <=> calendar[k] < calendar[i]
  BY CalendarFacts
<1> QED BY <1>1

\* How many sessions lie between two places.
LEMMA SessionsCounted ==
  ASSUME TypeOK, NEW n \in 1..Len(calendar), NEW m \in 1..n
  PROVE  Cardinality(SessionsBetween(calendar[m], calendar[n])) = n - m
<1>1. /\ Len(calendar) \in Nat /\ m \in 1..Len(calendar)
      /\ m \in 0..Len(calendar) /\ n \in 0..Len(calendar) /\ m \in 0..n
  BY CalendarFacts
<1>2. calendar[m] \in Int /\ calendar[n] \in Int
  BY <1>1, CalendarFacts
<1>3. SessionsBetween(calendar[m], calendar[n]) = Stretch(m, n)
  BY <1>1, <1>2, PlaceOrder, BetweenIs
<1> QED BY <1>1, <1>3, PlacesCounted

\* What the walk carries to the n-th session, by the closes seen up to it.
LEMMA CarriedSeen ==
  ASSUME TypeOK, NEW t, NEW n \in 1..Len(calendar)
  PROVE  \/ Seen(t, calendar[n]) = {} /\ Carried(t, calendar)[n] = Nothing
         \/ \E m \in 1..n :
              /\ calendar[m] \in Seen(t, calendar[n]) /\ Max(Seen(t, calendar[n])) = calendar[m]
              /\ closes[t][calendar[m]] # NoClose
              /\ Carried(t, calendar)[n] = [last |-> closes[t][calendar[m]], filled |-> n - m]
<1> DEFINE N == Len(calendar)
           S == Seen(t, calendar[n])
<1>1. /\ N \in Nat /\ n \in Nat
      /\ \A i \in 1..N : calendar[i] \in Nat
      /\ \A i, j \in 1..N : i < j <=> calendar[i] < calendar[j]
      /\ Sessions = {calendar[i] : i \in 1..N}
  BY CalendarFacts
<1>2. \A i \in 1..N : calendar[i] <= calendar[n] <=> i \in 1..n
  <2> SUFFICES ASSUME NEW i \in 1..N PROVE calendar[i] <= calendar[n] <=> i \in 1..n
    OBVIOUS
  <2>1. /\ n < i <=> calendar[n] < calendar[i]
        /\ calendar[i] \in Nat /\ calendar[n] \in Nat /\ i \in Nat /\ i >= 1
    BY <1>1
  <2> QED BY <1>1, <2>1
<1>3. \A i \in 1..n : i \in 1..N
  BY <1>1
<1>4. S = {calendar[i] : i \in {j \in 1..n : closes[t][calendar[j]] # NoClose}}
  BY <1>1, <1>2, <1>3 DEF Seen
<1>5. CASE /\ Carried(t, calendar)[n] = Nothing
           /\ \A i \in 1..n : closes[t][calendar[i]] = NoClose
  BY <1>4, <1>5
<1>6. ASSUME NEW m \in 1..n, closes[t][calendar[m]] # NoClose,
             \A i \in (m + 1)..n : closes[t][calendar[i]] = NoClose,
             Carried(t, calendar)[n] = [last |-> closes[t][calendar[m]], filled |-> n - m]
      PROVE  calendar[m] \in S /\ Max(S) = calendar[m]
  <2>1. calendar[m] \in S
    BY <1>4, <1>6
  <2>2. \A i \in 1..n : closes[t][calendar[i]] # NoClose => i <= m
    BY <1>1, <1>6
  <2>3. \A i \in 1..n : i <= m => calendar[i] <= calendar[m]
    <3> SUFFICES ASSUME NEW i \in 1..n, i <= m PROVE calendar[i] <= calendar[m]
      OBVIOUS
    <3>1. ~(m < i) /\ i \in 1..N /\ m \in 1..N
      BY <1>1
    <3>2. ~(calendar[m] < calendar[i])
      BY <1>1, <3>1
    <3> QED BY <1>1, <3>1, <3>2
  <2>4. \A e \in S : e <= calendar[m]
    BY <1>4, <2>2, <2>3
  <2>5. S \in SUBSET Int
    BY <1>1, <1>3, <1>4
  <2> HIDE DEF S
  <2> QED BY <2>1, <2>4, <2>5, MaxIs
<1>7. n \in 0..Len(calendar) /\ Len(calendar) \in Nat
  BY <1>1
<1> HIDE DEF S, N
<1>8. \/ /\ Carried(t, calendar)[n] = Nothing
         /\ \A i \in 1..n : closes[t][calendar[i]] = NoClose
      \/ \E m \in 1..n :
           /\ closes[t][calendar[m]] # NoClose
           /\ \A i \in (m + 1)..n : closes[t][calendar[i]] = NoClose
           /\ Carried(t, calendar)[n] = [last |-> closes[t][calendar[m]], filled |-> n - m]
  BY <1>7, CarriedFrom
<1> QED BY <1>5, <1>6, <1>8 DEF S

\* A session has a price while the newest close is fresh, and is stale when
\* there was a close that no longer is.
LEMMA Freshness == TypeOK => FreshOnly
<1> SUFFICES ASSUME TypeOK, NEW t \in Ticker, NEW n \in DOMAIN calendar
             PROVE  LET carry == Carried(t, calendar)
                        d == calendar[n]
                    IN  /\ Aligned(carry, n) = IF Fresh(t, d) THEN NewestSeen(t, d) ELSE NoClose
                        /\ Stale(carry, n) <=> Seen(t, d) # {} /\ ~Fresh(t, d)
  BY DEF FreshOnly
<1>1. n \in 1..Len(calendar) /\ Len(calendar) \in Nat /\ MaxFill \in Nat
  BY CalendarFacts, BasketsAssumption
<1>2. CASE Seen(t, calendar[n]) = {} /\ Carried(t, calendar)[n] = Nothing
  BY <1>2 DEF Aligned, Stale, Nothing, Fresh
<1>3. ASSUME NEW m \in 1..n,
             calendar[m] \in Seen(t, calendar[n]), Max(Seen(t, calendar[n])) = calendar[m],
             closes[t][calendar[m]] # NoClose,
             Carried(t, calendar)[n] = [last |-> closes[t][calendar[m]], filled |-> n - m]
      PROVE  LET carry == Carried(t, calendar)
                 d == calendar[n]
             IN  /\ Aligned(carry, n) = IF Fresh(t, d) THEN NewestSeen(t, d) ELSE NoClose
                 /\ Stale(carry, n) <=> Seen(t, d) # {} /\ ~Fresh(t, d)
  <2>1. Cardinality(SessionsBetween(calendar[m], calendar[n])) = n - m
    BY <1>1, SessionsCounted
  <2>2. Stale(Carried(t, calendar), n) <=> n - m > MaxFill
    BY <1>3 DEF Stale
  <2>3. Carried(t, calendar)[n].last = closes[t][calendar[m]]
    BY <1>3
  <2>4. n - m > MaxFill <=> ~(n - m <= MaxFill)
    BY <1>1
  <2>5. Fresh(t, calendar[n]) <=> n - m <= MaxFill
    BY <1>3, <2>1 DEF Fresh
  <2>6. NewestSeen(t, calendar[n]) = closes[t][calendar[m]]
    BY <1>3 DEF NewestSeen
  <2> QED BY <1>3, <2>2, <2>3, <2>4, <2>5, <2>6 DEF Aligned
<1> QED BY <1>1, <1>2, <1>3, CarriedSeen

\* No price older than max_forward_fill sessions enters a return, and stale is
\* told from never priced (align_to_calendar).
THEOREM FreshPrices == Spec => []FreshOnly
BY Freshness, TypeCorrect, PTL

-----------------------------------------------------------------------------
(***************************************************************************)
(* The windows.                                                            *)
(***************************************************************************)

\* The place where a window starts, for any day: u sessions are over by then.
LEMMA StartPlace ==
  ASSUME TypeOK, NEW d \in 1..day, NEW w \in Window
  PROVE  LET u == UpTo(calendar, d)
             s == WindowStart(w, d, calendar)
         IN  /\ u \in 0..Len(calendar) /\ s \in 0..u
             /\ u < 2 => s = 0
             /\ u >= 2 /\ w = "1d" => s = u - 1
             /\ u >= 2 /\ w \in Reaching => s = UpTo(calendar, BackTo(w, d))
             /\ w \in Reaching => BackTo(w, d) \in Int
<1> DEFINE N == Len(calendar)
           back(x) == UpTo(calendar, x)
           u == UpTo(calendar, d)
<1>1. calendar \in Seq(Nat) /\ Increasing(calendar)
  BY CalendarIncreasing
<1>2. /\ N \in Nat /\ d \in Nat \ {0}
      /\ \A i \in 1..N : calendar[i] \in Nat \ {0}
  BY CalendarFacts DEF TypeOK
<1>3. ASSUME NEW x \in Int
      PROVE  back(x) \in 0..N /\ \A i \in 1..N : i <= back(x) <=> calendar[i] <= x
  <2> HIDE DEF UpTo
  <2> QED BY <1>1, UpToFacts
<1>4. u \in 0..N /\ u \in Nat /\ \A i \in 1..N : i <= u <=> calendar[i] <= d
  <2>1. d \in Int
    BY <1>2
  <2> HIDE DEF UpTo
  <2> QED BY <1>2, <1>3, <2>1
<1>5. ASSUME NEW x \in Int, x <= d PROVE back(x) \in 0..u
  <2>1. CASE back(x) = 0
    BY <1>4, <2>1
  <2>2. CASE back(x) # 0
    <3>1. back(x) \in 1..N
      BY <1>2, <1>3, <2>2
    <3> HIDE DEF back, u
    <3>2. calendar[back(x)] <= x
      <4>1. \A i \in 1..N : i <= back(x) <=> calendar[i] <= x
        BY <1>3
      <4>2. back(x) <= back(x)
        BY <1>2, <3>1
      <4> QED BY <3>1, <4>1, <4>2
    <3>3. calendar[back(x)] <= d
      BY <1>2, <1>5, <3>1, <3>2
    <3> QED BY <1>2, <1>4, <3>1, <3>3
  <2> QED BY <2>1, <2>2
<1>6. Cardinality(PlacesUpTo(calendar, d)) = u
  <2>1. d \in Int
    BY <1>2
  <2> HIDE DEF UpTo, PlacesUpTo
  <2> QED BY <1>1, <2>1, UpToFacts
<1>7. /\ d - Week \in Int /\ d - Week <= d
      /\ d - Month \in Int /\ d - Month <= d
      /\ NewYear - 1 \in Int /\ (~(d < NewYear) => NewYear - 1 <= d)
      /\ 0 \in Int
  BY <1>2, BasketsAssumption
<1>8. back(0) = 0
  <2>1. back(0) \in 0..N /\ \A i \in 1..N : ~(i <= back(0))
    <3>1. back(0) \in 0..N /\ \A i \in 1..N : i <= back(0) <=> calendar[i] <= 0
      BY <1>3, <1>7
    <3> HIDE DEF back
    <3> QED BY <1>2, <3>1
  <2> HIDE DEF back
  <2> QED BY <1>2, <2>1
<1>9. WindowStart(w, d, calendar) =
         IF u < 2 THEN 0
         ELSE CASE w = "1d"  -> u - 1
                [] w = "7d"  -> back(d - Week)
                [] w = "30d" -> back(d - Month)
                [] w = "ytd" -> IF d < NewYear THEN 0 ELSE back(NewYear - 1)
  BY <1>6 DEF WindowStart
<1>10. w = "1d" \/ w = "7d" \/ w = "30d" \/ w = "ytd"
  BY DEF Window
<1>11. /\ back(d - Week) \in 0..u /\ back(d - Month) \in 0..u /\ 0 \in 0..u
       /\ ~(d < NewYear) => back(NewYear - 1) \in 0..u
  BY <1>4, <1>5, <1>7
<1>12. w \in Reaching =>
         /\ BackTo(w, d) \in Int
         /\ w = "7d" => BackTo(w, d) = d - Week
         /\ w = "30d" => BackTo(w, d) = d - Month
         /\ w = "ytd" => BackTo(w, d) = IF d < NewYear THEN 0 ELSE NewYear - 1
  BY <1>7 DEF Reaching, BackTo
<1>13. ~("1d" \in Reaching)
  BY DEF Reaching
<1> HIDE DEF N, back, u
<1>14. CASE u < 2
  BY <1>4, <1>9, <1>11, <1>12, <1>14 DEF u, N
<1>15. CASE ~(u < 2) /\ w = "1d"
  <2>1. u - 1 \in 0..u /\ u >= 2
    BY <1>4, <1>15
  <2> QED BY <1>4, <1>9, <1>13, <1>15, <2>1 DEF u, N
<1>16. CASE ~(u < 2) /\ w = "7d"
  BY <1>4, <1>9, <1>11, <1>12, <1>16 DEF u, N, back
<1>17. CASE ~(u < 2) /\ w = "30d"
  BY <1>4, <1>9, <1>11, <1>12, <1>17 DEF u, N, back
<1>18. CASE ~(u < 2) /\ w = "ytd"
  BY <1>4, <1>8, <1>9, <1>11, <1>12, <1>18 DEF u, N, back
<1> QED BY <1>10, <1>14, <1>15, <1>16, <1>17, <1>18

\* The day before which a window must start.
LEMMA StartFacts ==
  ASSUME TypeOK, NEW k \in 1..Len(calendar), NEW w \in Window
  PROVE  LET d == calendar[k]
             s == WindowStart(w, d, calendar)
         IN  /\ s \in 0..(k - 1)
             /\ k < 2 => s = 0
             /\ k >= 2 /\ w = "1d" => s = k - 1
             /\ k >= 2 /\ w = "7d" => s = UpTo(calendar, d - Week)
             /\ k >= 2 /\ w = "30d" => s = UpTo(calendar, d - Month)
             /\ w = "ytd" /\ s # 0 => NewYear <= d /\ s = UpTo(calendar, NewYear - 1)
<1> DEFINE d == calendar[k]
           N == Len(calendar)
           back(x) == UpTo(calendar, x)
<1>1. calendar \in Seq(Nat) /\ Increasing(calendar)
  BY CalendarIncreasing
<1>2. /\ N \in Nat /\ k \in 1..N /\ k \in Nat /\ d \in Nat
      /\ \A i \in 1..N : calendar[i] \in Nat
      /\ \A i, j \in 1..N : i < j <=> calendar[i] < calendar[j]
  BY CalendarFacts
<1>3. ASSUME NEW x \in Int
      PROVE  back(x) \in 0..N /\ \A i \in 1..N : i <= back(x) <=> calendar[i] <= x
  <2> HIDE DEF UpTo
  <2> QED BY <1>1, UpToFacts
<1>4. ASSUME NEW x \in Int, x < d PROVE back(x) \in 0..(k - 1)
  <2>1. ~(k <= back(x))
    <3>1. k <= back(x) <=> d <= x
      BY <1>2, <1>3
    <3> HIDE DEF d, back
    <3> QED BY <1>2, <1>4, <3>1
  <2>2. back(x) \in 0..N
    BY <1>3
  <2> HIDE DEF back, N
  <2> QED BY <1>2, <2>1, <2>2
<1>5. UpTo(calendar, d) = k
  <2>1. \A i \in 1..N : i <= k <=> calendar[i] <= d
    <3> SUFFICES ASSUME NEW i \in 1..N PROVE i <= k <=> calendar[i] <= d
      OBVIOUS
    <3>1. (k < i <=> d < calendar[i]) /\ calendar[i] \in Nat /\ i \in Nat
      BY <1>2
    <3> QED BY <1>2, <3>1
  <2>2. k \in 0..N /\ d \in Int
    BY <1>2
  <2> HIDE DEF d
  <2> QED BY <1>1, <2>1, <2>2, UpToIs
<1>6. Cardinality(PlacesUpTo(calendar, d)) = k
  <2>1. d \in Int
    BY <1>2
  <2> HIDE DEF d, UpTo, PlacesUpTo
  <2> QED BY <1>1, <1>5, <2>1, UpToFacts
<1>7. /\ d - Week \in Int /\ d - Week < d
      /\ d - Month \in Int /\ d - Month < d
      /\ NewYear - 1 \in Int /\ (~(d < NewYear) => NewYear - 1 < d /\ NewYear <= d)
  BY <1>2, BasketsAssumption
<1>8. /\ back(d - Week) \in 0..(k - 1) /\ back(d - Month) \in 0..(k - 1)
      /\ ~(d < NewYear) => back(NewYear - 1) \in 0..(k - 1)
  BY <1>4, <1>7
<1>9. k - 1 \in 0..(k - 1) /\ 0 \in 0..(k - 1) /\ (k >= 2 <=> ~(k < 2))
  BY <1>2
<1>10. WindowStart(w, d, calendar) =
         IF k < 2 THEN 0
         ELSE CASE w = "1d"  -> k - 1
                [] w = "7d"  -> back(d - Week)
                [] w = "30d" -> back(d - Month)
                [] w = "ytd" -> IF d < NewYear THEN 0 ELSE back(NewYear - 1)
  BY <1>6 DEF WindowStart
<1>11. w = "1d" \/ w = "7d" \/ w = "30d" \/ w = "ytd"
  BY DEF Window
<1> HIDE DEF d, N, back
<1>12. CASE k < 2
  BY <1>7, <1>9, <1>10, <1>12 DEF d, back
<1>13. CASE ~(k < 2) /\ w = "1d"
  BY <1>7, <1>9, <1>10, <1>13 DEF d, back
<1>14. CASE ~(k < 2) /\ w = "7d"
  BY <1>7, <1>8, <1>9, <1>10, <1>14 DEF d, back
<1>15. CASE ~(k < 2) /\ w = "30d"
  BY <1>7, <1>8, <1>9, <1>10, <1>15 DEF d, back
<1>16. CASE ~(k < 2) /\ w = "ytd"
  BY <1>7, <1>8, <1>9, <1>10, <1>16 DEF d, back
<1> QED BY <1>11, <1>12, <1>13, <1>14, <1>15, <1>16

\* The session that a result starts at, and the place of the one it is as of.
LEMMA ResultStart ==
  ASSUME NEW w, NEW d, NEW s
  PROVE  BasketReturn(w, d, s).start =
           IF WindowStart(w, d, s) = 0 THEN 0 ELSE s[WindowStart(w, d, s)]
BY DEF BasketReturn

LEMMA AsOfPlace ==
  ASSUME NEW s \in Seq(Nat), Increasing(s), NEW k \in 1..Len(s)
  PROVE  LastPlace({i \in DOMAIN s : s[i] = s[k]}) = k
<1>1. Len(s) \in Nat /\ DOMAIN s = 1..Len(s) /\ \A i \in 1..Len(s) : s[i] \in Nat
  BY LenProperties, ElementOfSeq
<1>2. \A i \in 1..Len(s) : s[i] = s[k] => i = k
  <2> SUFFICES ASSUME NEW i \in 1..Len(s), s[i] = s[k], i # k PROVE FALSE
    OBVIOUS
  <2>1. CASE i < k
    BY <1>1, <2>1 DEF Increasing
  <2>2. CASE k < i
    BY <1>1, <2>2 DEF Increasing
  <2> QED BY <1>1, <2>1, <2>2
<1>3. {i \in DOMAIN s : s[i] = s[k]} = {k}
  BY <1>1, <1>2
<1>4. Max({k}) = k
  <2>1. {k} \in SUBSET Int /\ k \in {k} /\ \A i \in {k} : i <= k
    BY <1>1
  <2> QED BY <2>1, MaxIs
<1> QED BY <1>3, <1>4 DEF LastPlace

\* The days where two windows start, by the places of their sessions.
LEMMA StartOrder ==
  ASSUME TypeOK, NEW i \in 0..Len(calendar), NEW j \in 0..Len(calendar), i <= j
  PROVE  (IF i = 0 THEN 0 ELSE calendar[i]) <= (IF j = 0 THEN 0 ELSE calendar[j])
<1>1. /\ Len(calendar) \in Nat /\ \A k \in 1..Len(calendar) : calendar[k] \in Nat
      /\ \A k, l \in 1..Len(calendar) : k < l <=> calendar[k] < calendar[l]
  BY CalendarFacts
<1>2. CASE i = 0
  BY <1>1, <1>2
<1>3. CASE i # 0
  <2>1. i \in 1..Len(calendar) /\ j \in 1..Len(calendar) /\ j # 0
    BY <1>1, <1>3
  <2>2. ~(calendar[j] < calendar[i])
    BY <1>1, <2>1
  <2> QED BY <1>1, <1>3, <2>1, <2>2
<1> QED BY <1>2, <1>3

LEMMA Nested == TypeOK => WindowsNested
<1> SUFFICES ASSUME TypeOK, NEW d \in 1..day
             PROVE  LET from == [w \in Window |-> BasketReturn(w, d, calendar).start]
                        few == Cardinality(SessionsBetween(0, d)) < 2
                    IN  /\ \A w \in Reaching :
                             IF few \/ SessionsBetween(0, BackTo(w, d)) = {} THEN from[w] = 0
                             ELSE /\ from[w] \in Sessions /\ from[w] <= BackTo(w, d)
                                  /\ SessionsBetween(from[w], BackTo(w, d)) = {}
                        /\ IF few THEN from["1d"] = 0
                           ELSE /\ from["1d"] \in Sessions
                                /\ Cardinality(SessionsBetween(from["1d"], d)) = 1
                        /\ d \in Sessions => from["30d"] <= from["7d"] /\ from["7d"] <= from["1d"]
  BY DEF WindowsNested
<1> DEFINE N == Len(calendar)
           u == UpTo(calendar, d)
           start(w) == WindowStart(w, d, calendar)
           from == [w \in Window |-> BasketReturn(w, d, calendar).start]
           few == Cardinality(SessionsBetween(0, d)) < 2
<1>1. /\ N \in Nat /\ \A i \in 1..N : calendar[i] \in Nat \ {0}
      /\ Sessions = {calendar[i] : i \in 1..N}
      /\ d \in Int /\ d \in Nat
  BY CalendarFacts DEF TypeOK
<1>2. Reaching \subseteq Window /\ "1d" \in Window /\ "7d" \in Reaching /\ "30d" \in Reaching
  BY DEF Window, Reaching
<1>3. ASSUME NEW x \in Int
      PROVE  UpTo(calendar, x) \in 0..N /\ \A i \in 1..N : i <= UpTo(calendar, x) <=> calendar[i] <= x
  <2>1. calendar \in Seq(Nat) /\ Increasing(calendar)
    BY CalendarIncreasing
  <2> HIDE DEF UpTo
  <2> QED BY <2>1, UpToFacts
<1>4. /\ u \in 0..N
      /\ \A w \in Window : start(w) \in 0..u /\ (u < 2 => start(w) = 0)
      /\ u >= 2 => start("1d") = u - 1
      /\ \A w \in Reaching : /\ BackTo(w, d) \in Int
                             /\ u >= 2 => start(w) = UpTo(calendar, BackTo(w, d))
  <2> HIDE DEF N, UpTo, WindowStart
  <2> QED BY <1>2, StartPlace DEF N
<1>5. \A w \in Window : from[w] = IF start(w) = 0 THEN 0 ELSE calendar[start(w)]
  BY ResultStart
<1>6. ASSUME NEW x \in Int
      PROVE  SessionsBetween(0, x) = Stretch(0, UpTo(calendar, x))
  <2>1. OverBy(0, 0) /\ OverBy(UpTo(calendar, x), x)
    <3>1. \A i \in 1..N : i <= 0 <=> calendar[i] <= 0
      BY <1>1
    <3>2. \A i \in 1..N : i <= UpTo(calendar, x) <=> calendar[i] <= x
      BY <1>3
    <3> HIDE DEF UpTo
    <3> QED BY <3>1, <3>2 DEF OverBy, N
  <2>2. 0 \in Int /\ 0 \in 0..N
    BY <1>1
  <2> HIDE DEF UpTo
  <2> QED BY <1>3, <2>1, <2>2, BetweenIs
<1>7. few <=> u < 2
  <2>1. Cardinality(Stretch(0, u)) = u - 0
    <3>1. u \in 0..N /\ 0 \in 0..u
      BY <1>1, <1>4
    <3> HIDE DEF u
    <3> QED BY <3>1, PlacesCounted
  <2>2. u - 0 = u
    BY <1>4
  <2>3. SessionsBetween(0, d) = Stretch(0, u)
    BY <1>1, <1>6
  <2> HIDE DEF u
  <2> QED BY <2>1, <2>2, <2>3
<1> HIDE DEF start, from, u, few, N
<1>8. ASSUME NEW w \in Reaching
      PROVE  IF few \/ SessionsBetween(0, BackTo(w, d)) = {} THEN from[w] = 0
             ELSE /\ from[w] \in Sessions /\ from[w] <= BackTo(w, d)
                  /\ SessionsBetween(from[w], BackTo(w, d)) = {}
  <2> DEFINE x == BackTo(w, d)
             b == UpTo(calendar, x)
  <2>1. x \in Int /\ w \in Window
    BY <1>2, <1>4
  <2>2. b \in 0..N /\ \A i \in 1..N : i <= b <=> calendar[i] <= x
    <3> HIDE DEF UpTo, x
    <3> QED BY <1>3, <2>1
  <2>3. SessionsBetween(0, x) = Stretch(0, b)
    <3> HIDE DEF UpTo, x
    <3> QED BY <1>6, <2>1
  <2>4. ~few => start(w) = b
    BY <1>1, <1>4, <1>7
  <2> HIDE DEF b, x
  <2>5. CASE few
    BY <1>4, <1>5, <1>7, <2>1, <2>5
  <2>6. CASE ~few /\ b = 0
    <3>1. SessionsBetween(0, x) = {}
      BY <2>3, <2>6 DEF Stretch
    <3> QED BY <1>5, <2>1, <2>4, <2>6, <3>1 DEF x
  <2>7. CASE ~few /\ b # 0
    <3>1. b \in 1..N /\ b \in 1..b
      BY <1>1, <2>2, <2>7
    <3>2. from[w] = calendar[b] /\ calendar[b] \in Sessions /\ calendar[b] <= x
      BY <1>1, <1>5, <2>1, <2>2, <2>4, <2>7, <3>1
    <3>3. SessionsBetween(0, x) # {}
      BY <2>3, <3>1 DEF Stretch
    <3>4. SessionsBetween(calendar[b], x) = Stretch(b, b)
      <4>1. calendar[b] \in Int
        BY <1>1, <3>1
      <4>2. OverBy(b, calendar[b]) /\ OverBy(b, x)
        BY <2>2, <3>1, PlaceOrder DEF N, OverBy
      <4> QED BY <2>1, <2>2, <4>1, <4>2, BetweenIs DEF N
    <3>5. (b + 1)..b = {}
      BY <1>1, <3>1
    <3>6. SessionsBetween(from[w], x) = {}
      BY <3>2, <3>4, <3>5 DEF Stretch
    <3> QED BY <2>7, <3>2, <3>3, <3>6 DEF x
  <2> QED BY <2>5, <2>6, <2>7
<1>9. IF few THEN from["1d"] = 0
      ELSE from["1d"] \in Sessions /\ Cardinality(SessionsBetween(from["1d"], d)) = 1
  <2>1. CASE few
    BY <1>2, <1>4, <1>5, <1>7, <2>1
  <2>2. CASE ~few
    <3>1. u \in 2..N /\ u - 1 \in 1..N /\ u - 1 # 0 /\ start("1d") = u - 1
      BY <1>1, <1>4, <1>7, <2>2
    <3>2. from["1d"] = calendar[u - 1] /\ calendar[u - 1] \in Sessions
      BY <1>1, <1>2, <1>5, <3>1
    <3>3. SessionsBetween(calendar[u - 1], d) = Stretch(u - 1, u)
      <4>1. calendar[u - 1] \in Int /\ u - 1 \in 0..N
        BY <1>1, <3>1
      <4>2. OverBy(u - 1, calendar[u - 1])
        BY <3>1, PlaceOrder DEF N
      <4>3. u \in 0..N /\ OverBy(u, d)
        BY <1>1, <1>3 DEF u, OverBy, N
      <4> QED BY <1>1, <4>1, <4>2, <4>3, BetweenIs DEF N
    <3>4. Cardinality(Stretch(u - 1, u)) = u - (u - 1)
      <4>1. u \in 0..Len(calendar) /\ u - 1 \in 0..u
        BY <1>1, <3>1 DEF N
      <4> QED BY <4>1, PlacesCounted
    <3>5. u - (u - 1) = 1
      BY <3>1
    <3> QED BY <2>2, <3>2, <3>3, <3>4, <3>5
  <2> QED BY <2>1, <2>2
<1>10. ASSUME d \in Sessions PROVE from["30d"] <= from["7d"] /\ from["7d"] <= from["1d"]
  <2>1. PICK k \in 1..N : d = calendar[k]
    BY <1>1, <1>10
  <2>2. /\ start("1d") \in 0..(k - 1) /\ start("7d") \in 0..(k - 1) /\ start("30d") \in 0..(k - 1)
        /\ k < 2 => start("1d") = 0 /\ start("7d") = 0 /\ start("30d") = 0
        /\ k >= 2 => /\ start("1d") = k - 1
                     /\ start("7d") = UpTo(calendar, d - Week)
                     /\ start("30d") = UpTo(calendar, d - Month)
    <3> HIDE DEF UpTo
    <3>1. "1d" \in Window /\ "7d" \in Window /\ "30d" \in Window
      BY DEF Window
    <3> QED BY <2>1, <3>1, StartFacts DEF start, N
  <2>3. /\ d - Week \in Int /\ d - Month \in Int /\ d - Month <= d - Week
    BY <1>1, BasketsAssumption
  <2>4. start("30d") <= start("7d")
    <3>1. CASE start("30d") = 0
      BY <2>1, <2>2, <3>1
    <3>2. CASE start("30d") # 0
      <4>1. start("30d") \in 1..N /\ k >= 2
        BY <1>1, <2>1, <2>2, <3>2
      <4>2. calendar[start("30d")] <= d - Month
        <5> HIDE DEF UpTo
        <5> QED BY <1>1, <1>3, <2>2, <2>3, <4>1
      <4>3. calendar[start("30d")] <= d - Week
        BY <1>1, <2>3, <4>1, <4>2
      <4> HIDE DEF UpTo
      <4> QED BY <1>3, <2>2, <2>3, <4>1, <4>3
    <3> QED BY <3>1, <3>2
  <2>5. start("7d") <= start("1d")
    BY <1>1, <2>1, <2>2
  <2>6. start("1d") \in 0..N /\ start("7d") \in 0..N /\ start("30d") \in 0..N
    BY <1>1, <2>1, <2>2
  <2>7. "1d" \in Window /\ "7d" \in Window /\ "30d" \in Window
    BY DEF Window
  <2> QED BY <1>5, <2>4, <2>5, <2>6, <2>7, StartOrder DEF N
<1> QED BY <1>8, <1>9, <1>10 DEF from, few

\* Each window starts at the newest session that is far enough back, or nowhere
\* when there is none; and as of a session a longer window never starts after a
\* shorter one (resolve_window_start).
THEOREM StartsNested == Spec => []WindowsNested
BY Nested, TypeCorrect, PTL

-----------------------------------------------------------------------------
(***************************************************************************)
(* A result is of its own day.                                             *)
(***************************************************************************)

\* A result is made from two entries of each walk, and from two closes of the
\* benchmark.
LEMMA SameResult ==
  ASSUME NEW w, NEW d, NEW p, NEW q,
         WindowStart(w, d, p) = WindowStart(w, d, q),
         LastPlace({i \in DOMAIN p : p[i] = d}) = LastPlace({i \in DOMAIN q : q[i] = d}),
         WindowStart(w, d, q) # 0 => p[WindowStart(w, d, q)] = q[WindowStart(w, d, q)],
         \A t \in Ticker :
           \A i \in {WindowStart(w, d, q), LastPlace({j \in DOMAIN q : q[j] = d})} :
             Carried(t, p)[i] = Carried(t, q)[i]
  PROVE  BasketReturn(w, d, p) = BasketReturn(w, d, q)
<1> DEFINE s == WindowStart(w, d, q)
           n == LastPlace({j \in DOMAIN q : q[j] = d})
           carry(x) == [t \in Ticker |-> Carried(t, x)]
           priced(x) == {t \in Ticker : Priced(carry(x)[t], s, n)}
           stale(x) == {t \in Ticker : FoundStale(carry(x)[t], s, n)}
           returns(x) == {[ticker |-> t, value |-> ReturnOf(carry(x)[t], s, n)] : t \in priced(x)}
           benchmark(x) == BenchmarkReturn(x[s], d)
           whole(x) ==
             IF s = 0
               THEN [start |-> 0, returns |-> {}, stale |-> {}, unpriced |-> Ticker,
                     summary |-> NoReturn, benchmark |-> None]
               ELSE [start |-> x[s], returns |-> returns(x), stale |-> stale(x),
                     unpriced |-> Ticker \ (priced(x) \cup stale(x)),
                     summary |-> IF returns(x) = {} THEN NoReturn
                                 ELSE Summary(returns(x), benchmark(x)),
                     benchmark |-> benchmark(x)]
<1>1. BasketReturn(w, d, p) = whole(p) /\ BasketReturn(w, d, q) = whole(q)
  BY DEF BasketReturn
<1>2. ASSUME NEW t \in Ticker
      PROVE  /\ Priced(carry(p)[t], s, n) <=> Priced(carry(q)[t], s, n)
             /\ FoundStale(carry(p)[t], s, n) <=> FoundStale(carry(q)[t], s, n)
             /\ ReturnOf(carry(p)[t], s, n) = ReturnOf(carry(q)[t], s, n)
  <2> HIDE DEF s, n
  <2>1. carry(p)[t][s] = carry(q)[t][s] /\ carry(p)[t][n] = carry(q)[t][n]
    BY DEF s, n
  <2> HIDE DEF carry
  <2>2. /\ Stale(carry(p)[t], s) <=> Stale(carry(q)[t], s)
        /\ Stale(carry(p)[t], n) <=> Stale(carry(q)[t], n)
    BY <2>1 DEF Stale
  <2>3. /\ Aligned(carry(p)[t], s) = Aligned(carry(q)[t], s)
        /\ Aligned(carry(p)[t], n) = Aligned(carry(q)[t], n)
    BY <2>1, <2>2 DEF Aligned
  <2> QED BY <2>2, <2>3 DEF Priced, FoundStale, ReturnOf
<1> HIDE DEF s, n, carry
<1>3. priced(p) = priced(q) /\ stale(p) = stale(q)
  BY <1>2
<1>4. returns(p) = returns(q)
  BY <1>2, <1>3
<1>5. s # 0 => p[s] = q[s]
  BY DEF s
<1>6. whole(p) = whole(q)
  <2> HIDE DEF priced, stale, returns
  <2> QED BY <1>3, <1>4, <1>5
<1> QED BY <1>1, <1>6

\* The sessions up to a day before asOf are the same ones for both.
LEMMA UpToPrefix ==
  ASSUME NEW s \in Seq(Nat), Increasing(s), NEW d \in Int, UpTo(s, d) \in 1..Len(s),
         NEW x \in Int, x <= d
  PROVE  UpTo(SubSeq(s, 1, UpTo(s, d)), x) = UpTo(s, x)
<1> DEFINE n == UpTo(s, d)
           p == SubSeq(s, 1, n)
           u == UpTo(s, x)
<1>1. /\ p \in Seq(Nat) /\ Len(p) = n /\ Increasing(p)
      /\ \A i \in 1..n : p[i] = s[i]
  <2> HIDE DEF n
  <2> QED BY Prefix DEF n
<1>2. /\ Len(s) \in Nat /\ n \in 1..Len(s) /\ \A i \in 1..n : i \in 1..Len(s)
      /\ \A i \in 1..Len(s) : s[i] \in Nat
  BY LenProperties, ElementOfSeq
<1>3. u \in 0..Len(s) /\ \A i \in 1..Len(s) : i <= u <=> s[i] <= x
  <2> HIDE DEF UpTo
  <2> QED BY UpToFacts
<1>4. \A i \in 1..Len(s) : i <= n <=> s[i] <= d
  <2> HIDE DEF UpTo
  <2> QED BY UpToFacts
<1> HIDE DEF p, u, n
<1>5. u <= n
  <2> SUFFICES ASSUME n < u PROVE FALSE
    BY <1>2, <1>3
  <2>1. u \in 1..Len(s) /\ s[u] <= x
    BY <1>2, <1>3
  <2>2. s[u] <= d
    BY <1>2, <2>1
  <2> QED BY <1>2, <1>4, <2>1, <2>2
<1>6. u \in 0..n /\ \A i \in 1..n : i <= u <=> p[i] <= x
  <2>1. u \in 0..n
    BY <1>2, <1>3, <1>5
  <2>2. ASSUME NEW i \in 1..n
        PROVE  i <= u <=> p[i] <= x
    <3>1. i \in 1..Len(s) /\ p[i] = s[i]
      BY <1>1, <1>2
    <3> QED BY <1>3, <3>1
  <2> QED BY <2>1, <2>2
<1>7. UpTo(p, x) = u
  <2> HIDE DEF UpTo
  <2> QED BY <1>1, <1>6, UpToIs
<1> QED BY <1>7 DEF p, u, n

\* Neither has the start of a window looked ahead.
LEMMA StartPrefix ==
  ASSUME NEW s \in Seq(Nat), Increasing(s), NEW d \in Nat, UpTo(s, d) \in 1..Len(s), NEW w
  PROVE  WindowStart(w, d, SubSeq(s, 1, UpTo(s, d))) = WindowStart(w, d, s)
<1> DEFINE p == SubSeq(s, 1, UpTo(s, d))
<1>1. d \in Int /\ p \in Seq(Nat) /\ Increasing(p)
  <2> HIDE DEF UpTo
  <2> QED BY Prefix
<1>2. \A x \in Int : x <= d => UpTo(p, x) = UpTo(s, x)
  BY <1>1, UpToPrefix
<1>3. /\ UpTo(p, d) = UpTo(s, d)
      /\ UpTo(p, d - Week) = UpTo(s, d - Week)
      /\ UpTo(p, d - Month) = UpTo(s, d - Month)
      /\ ~(d < NewYear) => UpTo(p, NewYear - 1) = UpTo(s, NewYear - 1)
  <2>1. /\ d \in Int /\ d <= d
        /\ d - Week \in Int /\ d - Week <= d
        /\ d - Month \in Int /\ d - Month <= d
        /\ NewYear - 1 \in Int /\ (~(d < NewYear) => NewYear - 1 <= d)
    BY <1>1, BasketsAssumption
  <2> HIDE DEF p
  <2> QED BY <1>2, <2>1
<1>4. Cardinality(PlacesUpTo(p, d)) = UpTo(p, d) /\ Cardinality(PlacesUpTo(s, d)) = UpTo(s, d)
  <2> HIDE DEF p, PlacesUpTo, UpTo
  <2> QED BY <1>1, UpToFacts
<1> HIDE DEF p
<1>5. WindowStart(w, d, p) = WindowStart(w, d, s)
  BY <1>3, <1>4 DEF WindowStart
<1> QED BY <1>5 DEF p

\* A day before the first session has no return.
LEMMA NoSessionYet ==
  ASSUME NEW s \in Seq(Nat), Increasing(s), NEW d \in Nat, NEW w, UpTo(s, d) = 0
  PROVE  WindowStart(w, d, s) = 0
<1>1. Cardinality(PlacesUpTo(s, d)) = 0
  <2>1. d \in Int
    OBVIOUS
  <2> HIDE DEF UpTo, PlacesUpTo
  <2> QED BY <2>1, UpToFacts
<1> QED BY <1>1 DEF WindowStart

LEMMA Hindsight == TypeOK => NoForesight
<1> SUFFICES ASSUME TypeOK, NEW d \in 1..day, NEW w \in Window
             PROVE  BasketReturn(w, d, calendar) =
                      BasketReturn(w, d, SubSeq(calendar, 1, UpTo(calendar, d)))
  BY DEF NoForesight
<1> DEFINE n == UpTo(calendar, d)
           p == SubSeq(calendar, 1, n)
           s == WindowStart(w, d, calendar)
           k == LastPlace({i \in DOMAIN calendar : calendar[i] = d})
<1>1. /\ calendar \in Seq(Nat) /\ Increasing(calendar) /\ Len(calendar) \in Nat
      /\ \A i \in 1..Len(calendar) : calendar[i] \in Nat \ {0}
      /\ d \in Nat /\ d \in Int /\ DOMAIN calendar = 1..Len(calendar)
  BY CalendarIncreasing, CalendarFacts DEF TypeOK
<1>2. n \in 0..Len(calendar) /\ \A i \in 1..Len(calendar) : i <= n <=> calendar[i] <= d
  <2> HIDE DEF UpTo
  <2> QED BY <1>1, UpToFacts
<1>3. CASE n = 0
  <2>1. p \in Seq(Nat) /\ p = <<>>
    BY <1>3
  <2>2. Len(p) = 0 /\ Increasing(p)
    <3> HIDE DEF p
    <3>1. Len(p) = 0
      BY <2>1
    <3> QED BY <3>1 DEF Increasing
  <2>3. UpTo(p, d) = 0
    <3>1. 0 \in 0..Len(p) /\ \A i \in 1..Len(p) : i <= 0 <=> p[i] <= d
      <4> HIDE DEF p
      <4> QED BY <2>2
    <3> HIDE DEF UpTo, p
    <3> QED BY <1>1, <2>1, <2>2, <3>1, UpToIs
  <2>4. WindowStart(w, d, p) = 0 /\ WindowStart(w, d, calendar) = 0
    <3> HIDE DEF p, WindowStart
    <3> QED BY <1>1, <1>3, <2>1, <2>2, <2>3, NoSessionYet DEF n
  <2> HIDE DEF p
  <2> QED BY <2>4 DEF BasketReturn, p, n
<1>4. CASE n # 0
  <2>1. n \in 1..Len(calendar)
    BY <1>1, <1>2, <1>4
  <2>2. /\ p \in Seq(Nat) /\ Increasing(p) /\ Len(p) = n
        /\ \A i \in 1..n : p[i] = calendar[i]
        /\ DOMAIN p = 1..n
    <3>1. /\ p \in Seq(Nat) /\ Increasing(p) /\ Len(p) = n
          /\ \A i \in 1..n : p[i] = calendar[i]
      <4> HIDE DEF n
      <4> QED BY <1>1, <2>1, Prefix
    <3> HIDE DEF p, n
    <3> QED BY <3>1, LenProperties
  <2>3. WindowStart(w, d, p) = s
    <3> HIDE DEF WindowStart, UpTo
    <3> QED BY <1>1, <2>1, StartPrefix
  <2>4. s \in 0..n
    <3> HIDE DEF WindowStart, UpTo
    <3> QED BY StartPlace
  <2> HIDE DEF n, p, s
  <2>5. {i \in DOMAIN p : p[i] = d} = {i \in DOMAIN calendar : calendar[i] = d}
    BY <1>1, <1>2, <2>1, <2>2
  <2>6. LastPlace({i \in DOMAIN p : p[i] = d}) = k
    BY <2>5
  <2>7. k \in 0..n
    <3>1. {i \in DOMAIN calendar : calendar[i] = d} \in SUBSET (1..n)
      BY <2>2, <2>5
    <3>2. n \in Nat
      BY <1>1, <2>1
    <3> QED BY <3>1, <3>2, LastPlaceFacts
  <2> HIDE DEF k
  <2>8. s # 0 => p[s] = calendar[s]
    BY <1>1, <2>1, <2>2, <2>4
  <2>9. ASSUME NEW t \in Ticker, NEW i \in {s, k}
        PROVE  Carried(t, p)[i] = Carried(t, calendar)[i]
    <3>1. i \in 0..n
      BY <2>4, <2>7
    <3> QED BY <1>1, <2>1, <3>1, CarriedPrefix DEF p
  <2>10. BasketReturn(w, d, p) = BasketReturn(w, d, calendar)
    BY <2>3, <2>6, <2>8, <2>9, SameResult DEF s, k
  <2> QED BY <2>10 DEF p, n
<1> QED BY <1>3, <1>4

\* A return as of a day is the one that was computed on that day, so a
\* back-test sees nothing of the sessions after it (compute_basket_return).
THEOREM NothingAhead == Spec => []NoForesight
BY Hindsight, TypeCorrect, PTL

-----------------------------------------------------------------------------
(***************************************************************************)
(* What becomes of each constituent.                                       *)
(***************************************************************************)

PricedBetween(s, k) == {t \in Ticker : Priced(Carried(t, calendar), s, k)}
StaleBetween(s, k) == {t \in Ticker : FoundStale(Carried(t, calendar), s, k)}
ReturnsBetween(s, k) ==
  {[ticker |-> t, value |-> ReturnOf(Carried(t, calendar), s, k)] : t \in PricedBetween(s, k)}

\* A result in terms of the places of its two sessions.
LEMMA ResultFacts ==
  ASSUME TypeOK, NEW k \in 1..Len(calendar), NEW w \in Window
  PROVE  LET r == BasketReturn(w, calendar[k], calendar)
             s == WindowStart(w, calendar[k], calendar)
         IN  /\ s = 0 => r.start = 0 /\ r.returns = {} /\ r.stale = {}
             /\ s # 0 => /\ s \in 1..Len(calendar) /\ s < k
                         /\ r.start = calendar[s] /\ r.start # 0
                         /\ r.returns = ReturnsBetween(s, k)
                         /\ r.stale = StaleBetween(s, k)
                         /\ r.unpriced = Ticker \ (PricedBetween(s, k) \cup StaleBetween(s, k))
<1> DEFINE d == calendar[k]
           r == BasketReturn(w, d, calendar)
           s == WindowStart(w, d, calendar)
           n == LastPlace({i \in DOMAIN calendar : calendar[i] = d})
           carry == [t \in Ticker |-> Carried(t, calendar)]
           priced == {t \in Ticker : Priced(carry[t], s, n)}
           stale == {t \in Ticker : FoundStale(carry[t], s, n)}
           returns == {[ticker |-> t, value |-> ReturnOf(carry[t], s, n)] : t \in priced}
<1>1. n = k
  BY CalendarIncreasing, AsOfPlace
<1>2. s \in 0..(k - 1) /\ k \in 1..Len(calendar) /\ Len(calendar) \in Nat
  <2> HIDE DEF WindowStart
  <2> QED BY StartFacts, CalendarFacts
<1>3. /\ s = 0 => r.start = 0 /\ r.returns = {} /\ r.stale = {}
      /\ s # 0 => /\ r.start = calendar[s]
                  /\ r.returns = returns
                  /\ r.stale = stale
                  /\ r.unpriced = Ticker \ (priced \cup stale)
  BY DEF BasketReturn
<1>4. priced = PricedBetween(s, k) /\ stale = StaleBetween(s, k)
  <2> HIDE DEF s, n
  <2> QED BY <1>1 DEF PricedBetween, StaleBetween
<1>5. returns = ReturnsBetween(s, k)
  <2>1. \A t \in priced : ReturnOf(carry[t], s, n) = ReturnOf(Carried(t, calendar), s, k)
    <3> HIDE DEF s, n
    <3> QED BY <1>1
  <2> HIDE DEF s, n, carry, priced
  <2> QED BY <1>4, <2>1 DEF ReturnsBetween
<1>6. s # 0 => s \in 1..Len(calendar) /\ s < k /\ calendar[s] # 0
  <2> HIDE DEF s
  <2>1. s # 0 => s \in 1..Len(calendar) /\ s < k
    BY <1>2
  <2> QED BY <2>1, CalendarFacts
<1> HIDE DEF priced, stale, returns
<1> QED BY <1>3, <1>4, <1>5, <1>6

\* As of a day that is not a session no constituent has a return, and what is
\* stale was stale when the window started.
LEMMA OffSession ==
  ASSUME TypeOK, NEW d \in 1..day, d \notin Sessions, NEW w \in Window
  PROVE  LET r == BasketReturn(w, d, calendar)
             s == WindowStart(w, d, calendar)
         IN  /\ r.returns = {}
             /\ s = 0 => r.stale = {}
             /\ s # 0 => /\ s \in 1..Len(calendar) /\ r.start = calendar[s] /\ calendar[s] <= d
                         /\ \A t \in r.stale : t \in Ticker /\ Stale(Carried(t, calendar), s)
<1> DEFINE r == BasketReturn(w, d, calendar)
           s == WindowStart(w, d, calendar)
           n == LastPlace({i \in DOMAIN calendar : calendar[i] = d})
           carry == [t \in Ticker |-> Carried(t, calendar)]
           priced == {t \in Ticker : Priced(carry[t], s, n)}
           stale == {t \in Ticker : FoundStale(carry[t], s, n)}
           returns == {[ticker |-> t, value |-> ReturnOf(carry[t], s, n)] : t \in priced}
<1>1. /\ calendar \in Seq(Nat) /\ Increasing(calendar) /\ Len(calendar) \in Nat
      /\ DOMAIN calendar = 1..Len(calendar) /\ d \in Int
      /\ Sessions = {calendar[i] : i \in 1..Len(calendar)}
  BY CalendarIncreasing, CalendarFacts DEF TypeOK
<1>2. n = 0
  <2>1. {i \in DOMAIN calendar : calendar[i] = d} = {}
    BY <1>1
  <2> QED BY <2>1 DEF LastPlace
<1>3. /\ s = 0 => r.returns = {} /\ r.stale = {}
      /\ s # 0 => r.start = calendar[s] /\ r.returns = returns /\ r.stale = stale
  BY DEF BasketReturn
<1>4. \A t \in Ticker : Aligned(carry[t], 0) = NoClose /\ ~Stale(carry[t], 0)
  <2>1. \A t \in Ticker : carry[t][0] = Nothing
    BY <1>1, CarriedIs
  <2> HIDE DEF carry
  <2> QED BY <2>1 DEF Aligned, Stale, Nothing
<1>5. s # 0 => s \in 1..Len(calendar) /\ calendar[s] <= d
  <2>1. /\ UpTo(calendar, d) \in 0..Len(calendar) /\ s \in 0..UpTo(calendar, d)
        /\ \A i \in 1..Len(calendar) : i <= UpTo(calendar, d) <=> calendar[i] <= d
    <3> HIDE DEF UpTo, WindowStart
    <3> QED BY <1>1, StartPlace, UpToFacts
  <2> HIDE DEF UpTo, s
  <2> QED BY <1>1, <2>1
<1> HIDE DEF s, n
<1>6. priced = {}
  <2> HIDE DEF carry
  <2> QED BY <1>2, <1>4 DEF Priced
<1>7. \A t \in stale : t \in Ticker /\ Stale(Carried(t, calendar), s)
  <2>1. \A t \in stale : t \in Ticker /\ Stale(carry[t], s)
    <3> HIDE DEF carry
    <3> QED BY <1>2, <1>4 DEF FoundStale
  <2> QED BY <2>1
<1>8. returns = {}
  BY <1>6
<1> HIDE DEF r, returns, stale
<1> QED BY <1>3, <1>5, <1>7, <1>8 DEF r, s

\* What an entry of the walk says of the closes before it.
LEMMA EntrySeen ==
  ASSUME TypeOK, NEW t \in Ticker, NEW n \in 1..Len(calendar)
  PROVE  LET last == Carried(t, calendar)[n].last
         IN  /\ last = NoClose <=> Seen(t, calendar[n]) = {}
             /\ last # NoClose => last = closes[t][Max(Seen(t, calendar[n]))]
<1>1. CASE Seen(t, calendar[n]) = {} /\ Carried(t, calendar)[n] = Nothing
  BY <1>1 DEF Nothing
<1>2. ASSUME NEW m \in 1..n,
             calendar[m] \in Seen(t, calendar[n]), Max(Seen(t, calendar[n])) = calendar[m],
             closes[t][calendar[m]] # NoClose,
             Carried(t, calendar)[n] = [last |-> closes[t][calendar[m]], filled |-> n - m]
      PROVE  LET last == Carried(t, calendar)[n].last
             IN  /\ last = NoClose <=> Seen(t, calendar[n]) = {}
                 /\ last # NoClose => last = closes[t][Max(Seen(t, calendar[n]))]
  <2>1. Carried(t, calendar)[n].last = closes[t][calendar[m]]
    BY <1>2
  <2> QED BY <1>2, <2>1
<1> QED BY <1>1, <1>2, CarriedSeen

\* As many returns as there are constituents with one.
LEMMA ReturnsCounted ==
  ASSUME NEW s, NEW k
  PROVE  /\ IsFiniteSet(PricedBetween(s, k)) /\ IsFiniteSet(ReturnsBetween(s, k))
         /\ Cardinality(ReturnsBetween(s, k)) = Cardinality(PricedBetween(s, k))
<1> DEFINE P == PricedBetween(s, k)
           R == ReturnsBetween(s, k)
           of(t) == ReturnOf(Carried(t, calendar), s, k)
           f == [t \in P |-> [ticker |-> t, value |-> of(t)]]
<1>1. IsFiniteSet(P)
  <2>1. P \in SUBSET Ticker
    BY DEF PricedBetween
  <2> HIDE DEF P
  <2> QED BY <2>1, BasketsAssumption, FS_Subset
<1>2. R = {[ticker |-> t, value |-> of(t)] : t \in P}
  BY DEF ReturnsBetween
<1> HIDE DEF P, R, of
<1>3. f \in Bijection(P, R)
  <2>1. f \in [P -> R] /\ \A t \in P : f[t].ticker = t
    BY <1>2
  <2>2. \A x \in R : \E t \in P : f[t] = x
    BY <1>2
  <2>3. \A t, u \in P : f[t] = f[u] => t = u
    BY <2>1
  <2> HIDE DEF f
  <2> QED BY <2>1, <2>2, <2>3 DEF Bijection, Injection, Surjection, IsInjective
<1>4. ExistsBijection(P, R)
  BY <1>3 DEF ExistsBijection
<1>5. IsFiniteSet(R) /\ Cardinality(R) = Cardinality(P)
  BY <1>1, <1>4, FS_Bijection
<1> QED BY <1>1, <1>5 DEF P, R

\* The sequences of all the elements of a set, in any order.
LEMMA RankingFacts ==
  ASSUME NEW S, IsFiniteSet(S), NEW u \in SetToSeqs(S)
  PROVE  /\ u \in Seq(S) /\ Len(u) \in Nat
         /\ \A x \in S : \E i \in 1..Len(u) : u[i] = x
<1> DEFINE c == Cardinality(S)
           seen == {u[i] : i \in 1..c}
<1>1. c \in Nat /\ IsFiniteSet(1..c) /\ Cardinality(1..c) = c
  <2>1. c \in Nat
    BY FS_CardinalityType
  <2>2. 1 \in Int /\ c \in Int
    BY <2>1
  <2>3. IsFiniteSet(1..c) /\ Cardinality(1..c) = IF 1 > c THEN 0 ELSE c - 1 + 1
    <3> HIDE DEF c
    <3> QED BY <2>2, FS_Interval
  <2> HIDE DEF c
  <2> QED BY <2>1, <2>3
<1>2. u \in [1..c -> S] /\ \A i, j \in 1..c : i # j => u[i] # u[j]
  BY DEF SetToSeqs
<1> HIDE DEF c
<1>3. u \in Seq(S) /\ Len(u) = c
  BY <1>1, <1>2
<1>4. u \in Bijection(1..c, seen)
  <2>1. u \in [1..c -> seen]
    BY <1>2
  <2>2. \A i, j \in 1..c : u[i] = u[j] => i = j
    BY <1>2
  <2>3. \A x \in seen : \E i \in 1..c : u[i] = x
    OBVIOUS
  <2> HIDE DEF seen
  <2> QED BY <2>1, <2>2, <2>3 DEF Bijection, Injection, Surjection, IsInjective
<1>5. Cardinality(seen) = c
  <2>1. ExistsBijection(1..c, seen)
    BY <1>4 DEF ExistsBijection
  <2> HIDE DEF seen
  <2> QED BY <1>1, <2>1, FS_Bijection
<1>6. S = seen
  <2>1. seen \in SUBSET S
    BY <1>2
  <2> HIDE DEF seen
  <2> QED BY <1>5, <2>1, FS_Subset DEF c
<1> QED BY <1>1, <1>3, <1>6

\* Whoever is not named stands behind those who are.
LEMMA LeadersFirst ==
  ASSUME NEW R, IsFiniteSet(R), NEW u \in SetToSeqs(R),
         \A i, j \in DOMAIN u : i < j => ~Greater(Moved(u[j]), Moved(u[i])),
         NEW x \in R \ ToSet(SubSeq(u, 1, Min({Limit, Len(u)}))),
         NEW y \in ToSet(SubSeq(u, 1, Min({Limit, Len(u)})))
  PROVE  ~Greater(Moved(x), Moved(y))
<1> DEFINE L == Min({Limit, Len(u)})
           m == SubSeq(u, 1, L)
<1>1. /\ u \in Seq(R) /\ Len(u) \in Nat /\ DOMAIN u = 1..Len(u)
      /\ \A z \in R : \E i \in 1..Len(u) : u[i] = z
  BY RankingFacts, LenProperties
<1>2. L \in Nat /\ L <= Len(u)
  <2>1. Limit \in Nat
    BY BasketsAssumption
  <2>2. \E a \in {Limit, Len(u)} : \A b \in {Limit, Len(u)} : a =< b
    BY <1>1, <2>1
  <2>3. L \in {Limit, Len(u)} /\ \A b \in {Limit, Len(u)} : L =< b
    BY <2>2 DEF Min
  <2> HIDE DEF L
  <2> QED BY <1>1, <2>1, <2>3
<1> HIDE DEF L
<1>3. ToSet(m) = {u[i] : i \in 1..L}
  <2>1. \A i \in 1..L : u[i] \in R
    BY <1>1, <1>2, ElementOfSeq
  <2>2. 1 \in Int /\ L \in Int /\ \A i \in 1..L : u[i] \in R
    BY <1>2, <2>1
  <2>3. /\ m \in Seq(R)
        /\ Len(m) = IF 1 <= L THEN L - 1 + 1 ELSE 0
        /\ \A i \in 1..(L - 1 + 1) : m[i] = u[1 + i - 1]
    BY <1>1, <2>2, SubSeqProperties
  <2>4. /\ DOMAIN m = 1..L
        /\ \A i \in 1..L : m[i] = u[i]
    <3>1. DOMAIN m = 1..Len(m)
      BY <2>3, LenProperties
    <3>2. L - 1 + 1 = L /\ 1..(IF 1 <= L THEN L - 1 + 1 ELSE 0) = 1..L /\ \A i \in 1..L : 1 + i - 1 = i
      BY <1>2
    <3> HIDE DEF m
    <3> QED BY <2>3, <3>1, <3>2
  <2> HIDE DEF m
  <2> QED BY <2>4 DEF ToSet
<1>4. PICK j \in 1..Len(u) : u[j] = x
  BY <1>1
<1>5. PICK i \in 1..L : u[i] = y
  BY <1>3 DEF L
<1>6. x \notin ToSet(m)
  BY DEF L
<1>7. j \notin 1..L
  BY <1>3, <1>4, <1>6
<1>8. i < j /\ i \in DOMAIN u /\ j \in DOMAIN u
  BY <1>1, <1>2, <1>7
<1> QED BY <1>4, <1>5, <1>8

\* What was seen by a session is seen by any later day.
LEMMA SeenLater ==
  ASSUME TypeOK, NEW t, NEW c \in Nat, NEW d \in Nat, c <= d
  PROVE  Seen(t, c) \subseteq Seen(t, d)
<1> SUFFICES ASSUME NEW e \in Seen(t, c) PROVE e \in Seen(t, d)
  OBVIOUS
<1>1. e \in Nat /\ e <= c
  BY CalendarFacts DEF Seen
<1> QED BY <1>1 DEF Seen

\* An entry of the walk that is stale, or has a price.
LEMMA EntryFresh ==
  ASSUME TypeOK, NEW t \in Ticker, NEW n \in 1..Len(calendar)
  PROVE  /\ Stale(Carried(t, calendar), n) => /\ Seen(t, calendar[n]) # {}
                                              /\ ~Fresh(t, calendar[n])
         /\ Aligned(Carried(t, calendar), n) # NoClose =>
              /\ Fresh(t, calendar[n])
              /\ NewestSeen(t, calendar[n]) = Aligned(Carried(t, calendar), n)
<1>1. n \in DOMAIN calendar
  BY CalendarFacts
<1>2. /\ Aligned(Carried(t, calendar), n) =
           IF Fresh(t, calendar[n]) THEN NewestSeen(t, calendar[n]) ELSE NoClose
      /\ Stale(Carried(t, calendar), n) <=> Seen(t, calendar[n]) # {} /\ ~Fresh(t, calendar[n])
  BY <1>1, Freshness DEF FreshOnly
<1> QED BY <1>2

\* What is missing as of a day without a session.
LEMMA AttributionOff ==
  ASSUME TypeOK, NEW d \in 1..day, d \notin Sessions, NEW w \in Window
  PROVE  LET r == BasketReturn(w, d, calendar)
         IN  /\ r.returns = {} /\ TopMovers(r) = {}
             /\ \A t \in r.stale : Seen(t, d) # {} /\ ~Fresh(t, r.start)
<1> DEFINE r == BasketReturn(w, d, calendar)
           s == WindowStart(w, d, calendar)
<1>1. /\ r.returns = {}
      /\ s = 0 => r.stale = {}
      /\ s # 0 => /\ s \in 1..Len(calendar) /\ r.start = calendar[s] /\ calendar[s] <= d
                  /\ \A t \in r.stale : t \in Ticker /\ Stale(Carried(t, calendar), s)
  <2> HIDE DEF WindowStart
  <2> QED BY OffSession
<1> HIDE DEF r, s
<1>2. TopMovers(r) = {}
  <2>1. Cardinality(r.returns) = 0
    BY <1>1, FS_EmptySet
  <2>2. Cardinality(Ticker) = 0 => Ticker = {}
    BY BasketsAssumption, FS_EmptySet
  <2> QED BY <2>1, <2>2 DEF TopMovers
<1>3. ASSUME NEW t \in r.stale PROVE Seen(t, d) # {} /\ ~Fresh(t, r.start)
  <2>1. /\ s \in 1..Len(calendar) /\ r.start = calendar[s] /\ calendar[s] <= d
        /\ t \in Ticker /\ Stale(Carried(t, calendar), s)
    BY <1>1, <1>3
  <2>2. Seen(t, calendar[s]) # {} /\ ~Fresh(t, calendar[s])
    BY <2>1, EntryFresh
  <2>3. calendar[s] \in Nat /\ d \in Nat
    BY <2>1, CalendarFacts DEF TypeOK
  <2> QED BY <2>1, <2>2, <2>3, SeenLater
<1> QED BY <1>1, <1>2, <1>3 DEF r

\* What is missing as of a session.
LEMMA AttributionOn ==
  ASSUME TypeOK, NEW d \in Sessions, NEW w \in Window
  PROVE  LET r == BasketReturn(w, d, calendar)
         IN  /\ r.stale \cap {x.ticker : x \in r.returns} = {}
             /\ \A t \in r.stale : Seen(t, d) # {} /\ ~(Fresh(t, r.start) /\ Fresh(t, d))
             /\ r.start # 0 => \A t \in r.unpriced :
                  Seen(t, r.start) = {} \/ NewestSeen(t, r.start) = 0
             /\ \A m \in TopMovers(r) :
                  /\ \A t \in Ticker :
                       Fresh(t, r.start) /\ Fresh(t, d) /\ NewestSeen(t, r.start) # 0
                  /\ \A x \in r.returns \ ToSet(m), y \in ToSet(m) :
                       ~Greater(Moved(x), Moved(y))
<1>1. PICK k \in 1..Len(calendar) : d = calendar[k]
  BY CalendarFacts
<1> DEFINE r == BasketReturn(w, d, calendar)
           s == WindowStart(w, d, calendar)
           last(t, n) == Carried(t, calendar)[n].last
<1>2. /\ s = 0 => r.start = 0 /\ r.returns = {} /\ r.stale = {}
      /\ s # 0 => /\ s \in 1..Len(calendar) /\ s < k
                  /\ r.start = calendar[s] /\ r.start # 0
                  /\ r.returns = ReturnsBetween(s, k)
                  /\ r.stale = StaleBetween(s, k)
                  /\ r.unpriced = Ticker \ (PricedBetween(s, k) \cup StaleBetween(s, k))
  BY <1>1, ResultFacts
<1> HIDE DEF r, s
<1>3. r.stale \cap {x.ticker : x \in r.returns} = {}
  <2>1. \A t \in PricedBetween(s, k) : t \notin StaleBetween(s, k)
    BY DEF PricedBetween, StaleBetween, Priced, FoundStale
  <2>2. \A x \in ReturnsBetween(s, k) : x.ticker \in PricedBetween(s, k)
    BY DEF ReturnsBetween
  <2> QED BY <1>2, <2>1, <2>2
<1>4. s # 0 => \A t \in Ticker : Seen(t, calendar[s]) \subseteq Seen(t, d)
  <2> SUFFICES ASSUME s # 0, NEW t \in Ticker PROVE Seen(t, calendar[s]) \subseteq Seen(t, d)
    OBVIOUS
  <2>1. calendar[s] < d /\ calendar[s] \in Nat /\ d \in Nat
    BY <1>1, <1>2, CalendarFacts
  <2> QED BY <2>1, SeenLater
<1>5. \A t \in r.stale : Seen(t, d) # {} /\ ~(Fresh(t, r.start) /\ Fresh(t, d))
  <2> SUFFICES ASSUME s # 0, NEW t \in StaleBetween(s, k)
               PROVE  Seen(t, d) # {} /\ ~(Fresh(t, calendar[s]) /\ Fresh(t, d))
    BY <1>2
  <2>1. t \in Ticker /\ (Stale(Carried(t, calendar), s) \/ Stale(Carried(t, calendar), k))
    BY DEF StaleBetween, FoundStale
  <2>2. /\ Stale(Carried(t, calendar), s) => Seen(t, calendar[s]) # {} /\ ~Fresh(t, calendar[s])
        /\ Stale(Carried(t, calendar), k) => Seen(t, calendar[k]) # {} /\ ~Fresh(t, calendar[k])
    BY <1>2, <2>1, EntryFresh
  <2> QED BY <1>1, <1>4, <2>1, <2>2
<1>6. r.start # 0 => \A t \in r.unpriced :
        Seen(t, r.start) = {} \/ NewestSeen(t, r.start) = 0
  <2> SUFFICES ASSUME s # 0, NEW t \in Ticker, t \notin PricedBetween(s, k), t \notin StaleBetween(s, k)
               PROVE  Seen(t, calendar[s]) = {} \/ NewestSeen(t, calendar[s]) = 0
    BY <1>2
  <2>1. /\ last(t, s) = NoClose <=> Seen(t, calendar[s]) = {}
        /\ last(t, s) # NoClose => last(t, s) = NewestSeen(t, calendar[s])
        /\ last(t, k) = NoClose <=> Seen(t, d) = {}
    BY <1>1, <1>2, EntrySeen DEF NewestSeen
  <2>2. last(t, s) = NoClose \/ last(t, k) = NoClose \/ last(t, s) = 0
    BY DEF PricedBetween, StaleBetween, Priced, FoundStale, Aligned
  <2> QED BY <1>4, <2>1, <2>2
<1>7. ASSUME NEW m \in TopMovers(r)
      PROVE  /\ \A t \in Ticker :
                  Fresh(t, r.start) /\ Fresh(t, d) /\ NewestSeen(t, r.start) # 0
             /\ \A x \in r.returns \ ToSet(m), y \in ToSet(m) : ~Greater(Moved(x), Moved(y))
  <2>1. /\ Cardinality(r.returns) = Cardinality(Ticker) /\ Ticker # {}
        /\ \E u \in SetToSeqs(r.returns) :
             /\ \A i, j \in DOMAIN u : i < j => ~Greater(Moved(u[j]), Moved(u[i]))
             /\ m = SubSeq(u, 1, Min({Limit, Len(u)}))
    BY <1>7 DEF TopMovers
  <2>2. s # 0
    <3> SUFFICES ASSUME s = 0 PROVE FALSE
      OBVIOUS
    <3>1. Cardinality(r.returns) = 0
      BY <1>2, FS_EmptySet
    <3>2. IsFiniteSet(Ticker)
      BY BasketsAssumption
    <3> QED BY <2>1, <3>1, <3>2, FS_EmptySet
  <2>3. r.returns = ReturnsBetween(s, k) /\ r.start = calendar[s]
    BY <1>2, <2>2
  <2>4. /\ IsFiniteSet(r.returns) /\ IsFiniteSet(Ticker)
        /\ Cardinality(PricedBetween(s, k)) = Cardinality(Ticker)
    BY <2>1, <2>3, ReturnsCounted, BasketsAssumption
  <2>5. PricedBetween(s, k) = Ticker
    <3>1. PricedBetween(s, k) \in SUBSET Ticker
      BY DEF PricedBetween
    <3> QED BY <2>4, <3>1, FS_Subset
  <2>6. ASSUME NEW t \in Ticker
        PROVE  Fresh(t, r.start) /\ Fresh(t, d) /\ NewestSeen(t, r.start) # 0
    <3>1. /\ Aligned(Carried(t, calendar), s) # NoClose /\ Aligned(Carried(t, calendar), k) # NoClose
          /\ Aligned(Carried(t, calendar), s) # 0
      <4>1. Priced(Carried(t, calendar), s, k)
        BY <2>5, <2>6 DEF PricedBetween
      <4> QED BY <4>1 DEF Priced
    <3>2. /\ Fresh(t, calendar[s]) /\ Fresh(t, calendar[k])
          /\ NewestSeen(t, calendar[s]) = Aligned(Carried(t, calendar), s)
      BY <1>2, <2>2, <3>1, EntryFresh
    <3> QED BY <1>1, <2>3, <3>1, <3>2
  <2>7. PICK u \in SetToSeqs(r.returns) :
          /\ \A i, j \in DOMAIN u : i < j => ~Greater(Moved(u[j]), Moved(u[i]))
          /\ m = SubSeq(u, 1, Min({Limit, Len(u)}))
    BY <2>1
  <2>8. ASSUME NEW x \in r.returns \ ToSet(m), NEW y \in ToSet(m)
        PROVE  ~Greater(Moved(x), Moved(y))
    BY <2>4, <2>7, <2>8, LeadersFirst
  <2> QED BY <2>6, <2>8
<1> QED BY <1>3, <1>5, <1>6, <1>7 DEF r

LEMMA Attribution == TypeOK => Attributed
<1> SUFFICES ASSUME TypeOK, NEW d \in 1..day, NEW w \in Window
             PROVE  LET r == BasketReturn(w, d, calendar)
                    IN  /\ r.stale \cap {x.ticker : x \in r.returns} = {}
                        /\ \A t \in r.stale :
                             Seen(t, d) # {} /\ ~(Fresh(t, r.start) /\ Fresh(t, d))
                        /\ r.start # 0 /\ d \in Sessions => \A t \in r.unpriced :
                             Seen(t, r.start) = {} \/ NewestSeen(t, r.start) = 0
                        /\ \A m \in TopMovers(r) :
                             /\ d \in Sessions
                             /\ \A t \in Ticker :
                                  Fresh(t, r.start) /\ Fresh(t, d) /\ NewestSeen(t, r.start) # 0
                             /\ \A x \in r.returns \ ToSet(m), y \in ToSet(m) :
                                  ~Greater(Moved(x), Moved(y))
  BY DEF Attributed
<1> DEFINE r == BasketReturn(w, d, calendar)
<1>1. CASE d \in Sessions
  <2>1. /\ r.stale \cap {x.ticker : x \in r.returns} = {}
        /\ \A t \in r.stale : Seen(t, d) # {} /\ ~(Fresh(t, r.start) /\ Fresh(t, d))
        /\ r.start # 0 => \A t \in r.unpriced :
             Seen(t, r.start) = {} \/ NewestSeen(t, r.start) = 0
        /\ \A m \in TopMovers(r) :
             /\ \A t \in Ticker :
                  Fresh(t, r.start) /\ Fresh(t, d) /\ NewestSeen(t, r.start) # 0
             /\ \A x \in r.returns \ ToSet(m), y \in ToSet(m) :
                  ~Greater(Moved(x), Moved(y))
    BY <1>1, AttributionOn
  <2> HIDE DEF r
  <2> QED BY <1>1, <2>1 DEF r
<1>2. CASE d \notin Sessions
  <2>1. /\ r.returns = {} /\ TopMovers(r) = {}
        /\ \A t \in r.stale : Seen(t, d) # {} /\ ~Fresh(t, r.start)
    BY <1>2, AttributionOff
  <2> HIDE DEF r
  <2> QED BY <1>2, <2>1 DEF r
<1> QED BY <1>1, <1>2

\* Stale and unpriced names are told apart by what was seen of them, and top
\* movers are named only when every name is fresh at both ends and was not at
\* zero at the start (compute_basket_return, top_movers).
THEOREM MissingAttributed == Spec => []Attributed
BY Attribution, TypeCorrect, PTL

-----------------------------------------------------------------------------
(***************************************************************************)
(* The return of the basket.                                               *)
(***************************************************************************)

\* A price that the walk carries is one of the symbol's closes.
LEMMA EntryPrice ==
  ASSUME TypeOK, NEW t \in Ticker, NEW n \in 1..Len(calendar),
         Carried(t, calendar)[n].last # NoClose
  PROVE  Carried(t, calendar)[n].last \in Nat
<1>1. PICK m \in 1..n :
        /\ closes[t][calendar[m]] # NoClose
        /\ Carried(t, calendar)[n] = [last |-> closes[t][calendar[m]], filled |-> n - m]
  <2>1. Carried(t, calendar)[n] # Nothing
    BY DEF Nothing
  <2> QED BY <2>1, CarriedSeen
<1>2. calendar[m] \in 1..day
  <2>1. Len(calendar) \in Nat /\ DOMAIN calendar = 1..Len(calendar)
    BY CalendarFacts
  <2>2. m \in 1..Len(calendar)
    BY <2>1
  <2> QED BY <2>1, <2>2 DEF TypeOK
<1>3. t \in Symbol /\ closes[t] \in [1..day -> Prices[t] \cup {NoClose}]
  BY DEF TypeOK, Symbol
<1>4. closes[t][calendar[m]] \in Prices[t] /\ Prices[t] \subseteq Nat
  BY <1>1, <1>2, <1>3, BasketsAssumption
<1> QED BY <1>1, <1>4

LEMMA ReturnFraction ==
  ASSUME TypeOK, NEW s \in 1..Len(calendar), NEW k \in 1..Len(calendar),
         NEW t \in PricedBetween(s, k)
  PROVE  ReturnOf(Carried(t, calendar), s, k) \in Fraction
<1> DEFINE c == Carried(t, calendar)
           a == Aligned(c, k)
           b == Aligned(c, s)
<1>1. t \in Ticker /\ a # NoClose /\ b # NoClose /\ b # 0
  BY DEF PricedBetween, Priced
<1>2. a = c[k].last /\ b = c[s].last
  BY <1>1 DEF Aligned
<1>3. a \in Nat /\ b \in Nat
  <2> HIDE DEF a, b
  <2> QED BY <1>1, <1>2, EntryPrice
<1>4. ReturnOf(c, s, k) = <<a * 1 - b * 1, 1 * Magnitude(b)>>
  BY DEF ReturnOf, Change
<1> HIDE DEF a, b, c
<1>5. a * 1 - b * 1 \in Int /\ 1 * Magnitude(b) \in Nat \ {0}
  BY <1>1, <1>3 DEF Magnitude
<1> QED BY <1>4, <1>5 DEF Fraction, c

LEMMA Averaged == TypeOK => Within
<1> SUFFICES ASSUME TypeOK, NEW d \in 1..day, NEW w \in Window,
                    BasketReturn(w, d, calendar).returns # {}
             PROVE  LET r == BasketReturn(w, d, calendar)
                    IN  /\ \E x \in r.returns : ~Greater(x.value, r.summary.raw)
                        /\ \E x \in r.returns : ~Greater(r.summary.raw, x.value)
                        /\ r.summary.raw[1] # 0 => r.summary.agree # {}
  BY DEF Within
<1>1. PICK k \in 1..Len(calendar) : d = calendar[k]
  <2>1. d \in Sessions
    BY OffSession
  <2> QED BY <2>1, CalendarFacts
<1> DEFINE r == BasketReturn(w, d, calendar)
           s == WindowStart(w, d, calendar)
           R == r.returns
           m == Mean(R)
<1>2. s \in 1..Len(calendar) /\ R = ReturnsBetween(s, k)
  BY <1>1, ResultFacts
<1>3. \E b : r.summary = Summary(R, b)
  BY DEF BasketReturn
<1> HIDE DEF r, s, R
<1>4. IsSample(R)
  <2>1. \A x \in R : x.value \in Fraction
    BY <1>2, ReturnFraction DEF ReturnsBetween
  <2> QED BY <1>2, <2>1, ReturnsCounted DEF IsSample
<1>5. /\ \E x \in R : ~Greater(x.value, m)
      /\ \E x \in R : ~Greater(m, x.value)
      /\ m[1] > 0 => \E x \in R : x.value[1] > 0
      /\ m[1] < 0 => \E x \in R : x.value[1] < 0
      /\ m[1] \in Int
  <2>1. R # {}
    BY DEF R, r
  <2> QED BY <1>4, <2>1, MeanBetween
<1> HIDE DEF m
<1>6. /\ r.summary.raw = m
      /\ m[1] # 0 => r.summary.agree = {x \in R : Sign(x.value[1]) = Sign(m[1])}
  BY <1>3 DEF Summary, m
<1>7. m[1] # 0 => \E x \in R : Sign(x.value[1]) = Sign(m[1])
  <2>1. CASE m[1] > 0
    BY <1>5, <2>1 DEF Sign
  <2>2. CASE m[1] < 0
    <3>1. PICK x \in R : x.value[1] < 0
      BY <1>5, <2>2
    <3>2. x.value[1] \in Int
      BY <1>4 DEF IsSample, Fraction
    <3> QED BY <1>5, <2>2, <3>1, <3>2 DEF Sign
  <2> QED BY <1>5, <2>1, <2>2
<1> QED BY <1>5, <1>6, <1>7 DEF r, R

\* The return of a basket lies between those of its constituents, and one of
\* them agrees with its sign (compute_basket_return's mean and breadth).
THEOREM ReturnWithin == Spec => []Within
BY Averaged, TypeCorrect, PTL

=============================================================================
