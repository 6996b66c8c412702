----------------------------- MODULE Induction ------------------------------
(***************************************************************************)
(* Induction for the proofs, over sets in place of predicates: what holds  *)
(* of n is a subset of Nat, what holds of a finite set is a set of its     *)
(* subsets.  It rests on the well-foundedness of < on the naturals.        *)
(***************************************************************************)
EXTENDS Integers, FiniteSetTheorems, WellFoundedInduction, TLAPS

LessThan == {m \in Nat \X Nat : m[1] < m[2]}

\* A set of naturals that is not empty has a least element.
LEMMA LeastNatural ==
  ASSUME NEW S \in SUBSET Nat, S # {}
  PROVE  \E m \in S : \A k \in S : m <= k
<1>1. IsWellFoundedOn(LessThan, Nat)
  BY NatLessThanWellFounded DEF OpToRel, LessThan
<1>2. PICK m \in S : \A k \in S : <<k, m>> \notin LessThan
  BY <1>1, WFMin
<1>3. \A k \in S : m <= k
  <2> SUFFICES ASSUME NEW k \in S PROVE m <= k
    OBVIOUS
  <2>1. ~(k < m)
    BY <1>2 DEF LessThan
  <2> QED BY <2>1
<1> QED BY <1>3

\* Induction up to a bound.
LEMMA UpwardInduction ==
  ASSUME NEW N \in Nat, NEW S, 0 \in S,
         \A n \in 0..(N - 1) : n \in S => n + 1 \in S
  PROVE  0..N \subseteq S
<1> DEFINE missing == {n \in 0..N : n \notin S}
<1> SUFFICES ASSUME missing # {} PROVE FALSE
  OBVIOUS
<1>1. PICK m \in missing : \A k \in missing : m <= k
  <2>1. missing \in SUBSET Nat
    OBVIOUS
  <2> HIDE DEF missing
  <2> QED BY <2>1, LeastNatural
<1>2. m \in Nat /\ m # 0 /\ m - 1 \in 0..(N - 1) /\ (m - 1) + 1 = m
  BY <1>1
<1>3. m - 1 \in S
  BY <1>1, <1>2
<1> QED BY <1>1, <1>2, <1>3

\* A set of integers that are not above a bound has a greatest element.
LEMMA GreatestBelow ==
  ASSUME NEW S \in SUBSET Int, S # {}, NEW b \in Int, \A n \in S : n <= b
  PROVE  \E m \in S : \A k \in S : k <= m
<1> DEFINE gaps == {b - n : n \in S}
<1>1. gaps \in SUBSET Nat /\ gaps # {}
  OBVIOUS
<1>2. PICK g \in gaps : \A k \in gaps : g <= k
  BY <1>1, LeastNatural
<1>3. PICK m \in S : g = b - m
  BY <1>2
<1>4. \A k \in S : b - m <= b - k
  BY <1>2, <1>3
<1> QED BY <1>4

\* Induction over a finite set, one element at a time.
LEMMA FiniteInduction ==
  ASSUME NEW S, IsFiniteSet(S), NEW F, {} \in F,
         \A T \in SUBSET S : \A x \in S \ T : T \in F => T \cup {x} \in F
  PROVE  S \in F
<1> DEFINE N == Cardinality(S)
           sizes == {n \in Nat : \A T \in SUBSET S : Cardinality(T) = n => T \in F}
<1>1. N \in Nat
  BY FS_CardinalityType
<1>2. \A T \in SUBSET S : IsFiniteSet(T)
  BY FS_Subset
<1>3. 0 \in sizes
  <2>1. \A T \in SUBSET S : Cardinality(T) = 0 => T = {}
    BY <1>2, FS_EmptySet
  <2> QED BY <2>1
<1>4. ASSUME NEW n \in 0..(N - 1), n \in sizes PROVE n + 1 \in sizes
  <2> SUFFICES ASSUME NEW T \in SUBSET S, Cardinality(T) = n + 1 PROVE T \in F
    BY <1>1, <1>4
  <2>1. T # {}
    <3>1. n + 1 # 0
      BY <1>1
    <3> QED BY <3>1, FS_EmptySet
  <2>2. PICK x \in T : TRUE
    BY <2>1
  <2>3. Cardinality(T \ {x}) = n
    <3>1. Cardinality(T \ {x}) = Cardinality(T) - 1
      BY <1>2, <2>2, FS_RemoveElement
    <3> QED BY <3>1
  <2>4. T \ {x} \in F
    BY <1>4, <2>3
  <2>5. (T \ {x}) \cup {x} \in F
    BY <2>2, <2>4
  <2>6. (T \ {x}) \cup {x} = T
    BY <2>2
  <2> QED BY <2>5, <2>6
<1>5. 0..N \subseteq sizes
  <2> HIDE DEF N, sizes
  <2> QED BY <1>1, <1>3, <1>4, UpwardInduction
<1>6. N \in sizes
  BY <1>1, <1>5
<1> QED BY <1>6

=============================================================================
