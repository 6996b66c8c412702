-------------------------------- MODULE Sums --------------------------------
(***************************************************************************)
(* The folds of the model, for the proofs: what MapThenSumSet and FoldSet  *)
(* take one element at a time, in the order of CHOOSE, they may take in    *)
(* any order; a mean lies between the values it is the mean of; and sums   *)
(* follow a renaming of what is summed, and a linear change of its values. *)
(***************************************************************************)
EXTENDS Fractions, Induction

Chosen(s) == CHOOSE x \in s : TRUE

-----------------------------------------------------------------------------
(***************************************************************************)
(* A fold over a finite set.                                               *)
(***************************************************************************)

\* Induction over the subsets of a finite set.
LEMMA SubsetInduction ==
  ASSUME NEW S, IsFiniteSet(S), NEW F, {} \in F,
         \A s \in SUBSET S : s # {} /\ (\A x \in s : s \ {x} \in F) => s \in F
  PROVE  SUBSET S \subseteq F
<1> DEFINE N == Cardinality(S)
           sizes == {n \in Nat : \A s \in SUBSET S : Cardinality(s) = n => s \in F}
<1>1. N \in Nat
  BY FS_CardinalityType
<1>2. \A s \in SUBSET S : IsFiniteSet(s) /\ Cardinality(s) \in 0..N
  <2> SUFFICES ASSUME NEW s \in SUBSET S PROVE IsFiniteSet(s) /\ Cardinality(s) \in 0..N
    OBVIOUS
  <2>1. IsFiniteSet(s) /\ Cardinality(s) <= N
    BY FS_Subset
  <2>2. Cardinality(s) \in Nat
    BY <2>1, FS_CardinalityType
  <2> QED BY <1>1, <2>1, <2>2
<1>3. 0 \in sizes
  <2>1. \A s \in SUBSET S : Cardinality(s) = 0 => s = {}
    BY <1>2, FS_EmptySet
  <2> QED BY <2>1
<1>4. ASSUME NEW n \in 0..(N - 1), n \in sizes PROVE n + 1 \in sizes
  <2> SUFFICES ASSUME NEW s \in SUBSET S, Cardinality(s) = n + 1 PROVE s \in F
    BY <1>1, <1>4
  <2>1. s # {}
    <3>1. n + 1 # 0
      BY <1>1
    <3> QED BY <3>1, FS_EmptySet
  <2>2. ASSUME NEW x \in s PROVE s \ {x} \in F
    <3>1. Cardinality(s \ {x}) = Cardinality(s) - 1
      BY <1>2, FS_RemoveElement
    <3>2. Cardinality(s \ {x}) = n
      BY <3>1
    <3> QED BY <1>4, <3>2
  <2> QED BY <2>1, <2>2
<1>5. 0..N \subseteq sizes
  <2> HIDE DEF N, sizes
  <2> QED BY <1>1, <1>3, <1>4, UpwardInduction
<1> QED BY <1>2, <1>5

Commutes(g, S, V) ==
  \A x, y \in S : \A v \in V : g[<<x, g[<<y, v>>]>>] = g[<<y, g[<<x, v>>]>>]

IsFold(T, g, base, S, V) ==
  /\ T \in [SUBSET S -> V] /\ T[{}] = base
  /\ \A s \in SUBSET S : \A x \in s : T[s] = g[<<x, T[s \ {x}]>>]

\* The recursion over the subsets of a finite set has a solution, in which the
\* elements may be taken in any order if the steps commute.
LEMMA Folded ==
  ASSUME NEW S, IsFiniteSet(S), NEW V, NEW base \in V, NEW g \in [S \X V -> V], Commutes(g, S, V)
  PROVE  \E T : IsFold(T, g, base, S, V)
<1> DEFINE body(t, s) == IF s = {} THEN base ELSE g[<<Chosen(s), t[s \ {Chosen(s)}]>>]
           below(n) == {s \in SUBSET S : Cardinality(s) <= n}
           built == {n \in Nat : \E t : t = [s \in below(n) |-> body(t, s)]}
           N == Cardinality(S)
<1>1. /\ N \in Nat
      /\ \A s \in SUBSET S : IsFiniteSet(s) /\ Cardinality(s) \in Nat /\ Cardinality(s) <= N
  BY FS_CardinalityType, FS_Subset
<1>2. ASSUME NEW s \in SUBSET S, s # {}
      PROVE  /\ Chosen(s) \in s /\ Chosen(s) \in S /\ s \ {Chosen(s)} \in SUBSET S
             /\ Cardinality(s \ {Chosen(s)}) = Cardinality(s) - 1
  <2>1. Chosen(s) \in s
    BY <1>2 DEF Chosen
  <2> QED BY <1>1, <2>1, FS_RemoveElement
<1>3. 0 \in built
  <2>1. \A s \in below(0) : s = {}
    BY <1>1, FS_EmptySet
  <2> DEFINE t == [s \in below(0) |-> base]
  <2>2. t = [s \in below(0) |-> body(t, s)]
    BY <2>1
  <2> HIDE DEF t
  <2> QED BY <2>2
<1>4. ASSUME NEW n \in 0..(N - 1), n \in built PROVE n + 1 \in built
  <2>1. PICK t : t = [s \in below(n) |-> body(t, s)]
    BY <1>4
  <2> DEFINE u == [s \in below(n + 1) |-> body(t, s)]
  <2>2. ASSUME NEW s \in below(n + 1) PROVE body(t, s) = body(u, s)
    <3>1. CASE s = {}
      BY <3>1
    <3>2. CASE s # {}
      <4> DEFINE r == s \ {Chosen(s)}
      <4>1. r \in below(n) /\ r \in below(n + 1)
        BY <1>1, <1>2, <3>2
      <4>2. u[r] = body(t, r)
        BY <4>1
      <4>3. t[r] = body(t, r)
        <5> HIDE DEF body, below, r
        <5> QED BY <2>1, <4>1
      <4> QED BY <3>2, <4>2, <4>3
    <3> QED BY <3>1, <3>2
  <2>3. u = [s \in below(n + 1) |-> body(u, s)]
    <3> HIDE DEF body, below
    <3> QED BY <2>2
  <2>4. n + 1 \in Nat
    OBVIOUS
  <2> HIDE DEF u, body, below
  <2> QED BY <2>3, <2>4
<1>5. N \in built
  <2> HIDE DEF N, built
  <2>1. 0..N \subseteq built
    BY <1>1, <1>3, <1>4, UpwardInduction
  <2> QED BY <1>1, <2>1
<1>6. PICK T : T = [s \in below(N) |-> body(T, s)]
  BY <1>5
<1>7. below(N) = SUBSET S
  BY <1>1
<1>8. T = [s \in SUBSET S |-> body(T, s)]
  <2> HIDE DEF body, below, N
  <2> QED BY <1>6, <1>7
<1>9. \A s \in SUBSET S : T[s] = body(T, s)
  <2> HIDE DEF body
  <2> QED BY <1>8
<1>10. T[{}] = base
  BY <1>9
<1>11. \A s \in SUBSET S : s # {} => T[s] = g[<<Chosen(s), T[s \ {Chosen(s)}]>>]
  BY <1>9
<1> HIDE DEF body, below, built
<1> DEFINE typed == {s \in SUBSET S : T[s] \in V}
           F == {s \in SUBSET S : \A x \in s : T[s] = g[<<x, T[s \ {x}]>>]}
<1>12. \A s \in SUBSET S : T[s] \in V
  <2>1. {} \in typed
    BY <1>10
  <2>2. ASSUME NEW s \in SUBSET S, s # {}, \A x \in s : s \ {x} \in typed PROVE s \in typed
    <3>1. Chosen(s) \in S /\ T[s \ {Chosen(s)}] \in V
      BY <1>2, <2>2
    <3> QED BY <1>11, <2>2, <3>1
  <2>3. SUBSET S \subseteq typed
    <3> HIDE DEF typed
    <3> QED BY <2>1, <2>2, SubsetInduction
  <2> QED BY <2>3
<1>13. {} \in F
  BY <1>10
<1>14. ASSUME NEW s \in SUBSET S, s # {}, \A x \in s : s \ {x} \in F PROVE s \in F
  <2> DEFINE c == Chosen(s)
  <2>1. /\ c \in s /\ c \in S /\ s \ {c} \in F
        /\ T[s] = g[<<c, T[s \ {c}]>>]
    BY <1>2, <1>11, <1>14
  <2> HIDE DEF c
  <2>3. ASSUME NEW x \in s, x # c PROVE T[s] = g[<<x, T[s \ {x}]>>]
    <3> DEFINE r == (s \ {c}) \ {x}
    <3>1. x \in S /\ r = (s \ {x}) \ {c} /\ x \in s \ {c} /\ c \in s \ {x}
      BY <2>1, <2>3
    <3>2. T[s \ {c}] = g[<<x, T[r]>>]
      BY <2>1, <3>1
    <3>3. T[s \ {x}] = g[<<c, T[r]>>]
      BY <1>14, <2>3, <3>1
    <3>5. T[r] \in V
      BY <1>12
    <3> HIDE DEF r
    <3>6. g[<<c, g[<<x, T[r]>>]>>] = g[<<x, g[<<c, T[r]>>]>>]
      BY <2>1, <3>1, <3>5 DEF Commutes
    <3> QED BY <2>1, <3>2, <3>3, <3>6
  <2> QED BY <2>1, <2>3
<1>15. SUBSET S \subseteq F
  <2> HIDE DEF F
  <2> QED BY <1>13, <1>14, SubsetInduction
<1>16. T \in [SUBSET S -> V]
  BY <1>8, <1>12
<1> QED BY <1>10, <1>15, <1>16 DEF IsFold

-----------------------------------------------------------------------------
(***************************************************************************)
(* Sums and products: T gives those of all subsets of S.                   *)
(***************************************************************************)
IsSum(T, f, S) ==
  /\ T \in [SUBSET S -> Int] /\ T[{}] = 0
  /\ \A s \in SUBSET S : \A x \in s : T[s] = f[x] + T[s \ {x}]

IsProduct(T, f, S) ==
  /\ T \in [SUBSET S -> Nat \ {0}] /\ T[{}] = 1
  /\ \A s \in SUBSET S : \A x \in s : T[s] = f[x] * T[s \ {x}]

\* The recursions of MapThenSumSet and of FoldSet with a product.
SumRecursion(T, f, S) ==
  T = [s \in SUBSET S |-> IF s = {} THEN 0 ELSE f[Chosen(s)] + T[s \ {Chosen(s)}]]

ProductRecursion(T, f, S) ==
  T = [s \in SUBSET S |-> IF s = {} THEN 1 ELSE f[Chosen(s)] * T[s \ {Chosen(s)}]]

LEMMA ChosenFacts ==
  ASSUME NEW s, s # {}
  PROVE  Chosen(s) \in s
BY DEF Chosen

LEMMA SumsExist ==
  ASSUME NEW S, IsFiniteSet(S), NEW f \in [S -> Int]
  PROVE  \E T : IsSum(T, f, S) /\ SumRecursion(T, f, S)
<1> DEFINE g == [p \in S \X Int |-> f[p[1]] + p[2]]
<1>1. g \in [S \X Int -> Int] /\ \A x \in S : \A v \in Int : g[<<x, v>>] = f[x] + v
  OBVIOUS
<1> HIDE DEF g
<1>2. Commutes(g, S, Int)
  <2> SUFFICES ASSUME NEW x \in S, NEW y \in S, NEW v \in Int
               PROVE  g[<<x, g[<<y, v>>]>>] = g[<<y, g[<<x, v>>]>>]
    BY DEF Commutes
  <2>1. f[x] + v \in Int /\ f[y] + v \in Int /\ f[x] + (f[y] + v) = f[y] + (f[x] + v)
    OBVIOUS
  <2> QED BY <1>1, <2>1
<1>3. PICK T : IsFold(T, g, 0, S, Int)
  <2>1. 0 \in Int
    OBVIOUS
  <2> QED BY <1>1, <1>2, <2>1, Folded
<1>4. T \in [SUBSET S -> Int]
  BY <1>3 DEF IsFold
<1>5. \A s \in SUBSET S : \A x \in s : T[s] = f[x] + T[s \ {x}]
  <2> SUFFICES ASSUME NEW s \in SUBSET S, NEW x \in s PROVE T[s] = f[x] + T[s \ {x}]
    OBVIOUS
  <2>1. x \in S /\ T[s \ {x}] \in Int
    BY <1>4
  <2> QED BY <1>1, <1>3, <2>1 DEF IsFold
<1>6. \A s \in SUBSET S : T[s] = IF s = {} THEN 0 ELSE f[Chosen(s)] + T[s \ {Chosen(s)}]
  BY <1>3, <1>5, ChosenFacts DEF IsFold
<1>7. SumRecursion(T, f, S)
  BY <1>6, <1>4 DEF SumRecursion
<1> QED BY <1>3, <1>5, <1>7 DEF IsSum, IsFold

LEMMA ProductsExist ==
  ASSUME NEW S, IsFiniteSet(S), NEW f \in [S -> Nat \ {0}]
  PROVE  \E T : IsProduct(T, f, S) /\ ProductRecursion(T, f, S)
<1> DEFINE V == Nat \ {0}
           g == [p \in S \X V |-> f[p[1]] * p[2]]
<1>1. \A a, b \in V : a * b \in V
  OBVIOUS
<1>2. \A a, b, c \in V : a * (b * c) = b * (a * c)
  OBVIOUS
<1>3. 1 \in V
  OBVIOUS
<1> HIDE DEF V
<1>4. \A x \in S : f[x] \in V
  BY DEF V
<1>5. g \in [S \X V -> V] /\ \A x \in S : \A v \in V : g[<<x, v>>] = f[x] * v
  BY <1>1, <1>4
<1> HIDE DEF g
<1>6. Commutes(g, S, V)
  <2> SUFFICES ASSUME NEW x \in S, NEW y \in S, NEW v \in V
               PROVE  g[<<x, g[<<y, v>>]>>] = g[<<y, g[<<x, v>>]>>]
    BY DEF Commutes
  <2>1. f[x] * v \in V /\ f[y] * v \in V /\ f[x] * (f[y] * v) = f[y] * (f[x] * v)
    BY <1>1, <1>2, <1>4
  <2> QED BY <1>5, <2>1
<1>7. PICK T : IsFold(T, g, 1, S, V)
  BY <1>3, <1>5, <1>6, Folded
<1>8. \A s \in SUBSET S : \A x \in s : T[s] = f[x] * T[s \ {x}]
  <2> SUFFICES ASSUME NEW s \in SUBSET S, NEW x \in s PROVE T[s] = f[x] * T[s \ {x}]
    OBVIOUS
  <2>1. x \in S /\ T[s \ {x}] \in V
    BY <1>7 DEF IsFold
  <2> QED BY <1>5, <1>7, <2>1 DEF IsFold
<1>9. \A s \in SUBSET S : T[s] = IF s = {} THEN 1 ELSE f[Chosen(s)] * T[s \ {Chosen(s)}]
  BY <1>7, <1>8, ChosenFacts DEF IsFold
<1>10. ProductRecursion(T, f, S)
  BY <1>7, <1>9 DEF ProductRecursion, IsFold
<1> QED BY <1>7, <1>8, <1>10 DEF IsProduct, IsFold, V

\* There is one solution.
LEMMA SumFacts ==
  ASSUME NEW S, IsFiniteSet(S), NEW f \in [S -> Int], NEW c, SumRecursion(c, f, S)
  PROVE  IsSum(c, f, S)
<1>1. PICK T : IsSum(T, f, S) /\ SumRecursion(T, f, S)
  BY SumsExist
<1> DEFINE F == {s \in SUBSET S : c[s] = T[s]}
<1>2. /\ \A s \in SUBSET S : c[s] = IF s = {} THEN 0 ELSE f[Chosen(s)] + c[s \ {Chosen(s)}]
      /\ \A s \in SUBSET S : T[s] = IF s = {} THEN 0 ELSE f[Chosen(s)] + T[s \ {Chosen(s)}]
  BY <1>1 DEF SumRecursion
<1>3. {} \in F
  BY <1>2
<1>4. ASSUME NEW s \in SUBSET S, s # {}, \A x \in s : s \ {x} \in F PROVE s \in F
  <2>1. s \ {Chosen(s)} \in F
    BY <1>4, ChosenFacts
  <2> QED BY <1>2, <1>4, <2>1
<1>5. SUBSET S \subseteq F
  <2> HIDE DEF F
  <2> QED BY <1>3, <1>4, SubsetInduction
<1>6. c = T
  BY <1>1, <1>5 DEF SumRecursion
<1> QED BY <1>1, <1>6

LEMMA ProductFacts ==
  ASSUME NEW S, IsFiniteSet(S), NEW f \in [S -> Nat \ {0}], NEW c, ProductRecursion(c, f, S)
  PROVE  IsProduct(c, f, S)
<1>1. PICK T : IsProduct(T, f, S) /\ ProductRecursion(T, f, S)
  BY ProductsExist
<1> DEFINE F == {s \in SUBSET S : c[s] = T[s]}
<1>2. /\ \A s \in SUBSET S : c[s] = IF s = {} THEN 1 ELSE f[Chosen(s)] * c[s \ {Chosen(s)}]
      /\ \A s \in SUBSET S : T[s] = IF s = {} THEN 1 ELSE f[Chosen(s)] * T[s \ {Chosen(s)}]
  BY <1>1 DEF ProductRecursion
<1>3. {} \in F
  BY <1>2
<1>4. ASSUME NEW s \in SUBSET S, s # {}, \A x \in s : s \ {x} \in F PROVE s \in F
  <2>1. s \ {Chosen(s)} \in F
    BY <1>4, ChosenFacts
  <2> QED BY <1>2, <1>4, <2>1
<1>5. SUBSET S \subseteq F
  <2> HIDE DEF F
  <2> QED BY <1>3, <1>4, SubsetInduction
<1>6. c = T
  BY <1>1, <1>5 DEF ProductRecursion
<1> QED BY <1>1, <1>6

-----------------------------------------------------------------------------
(***************************************************************************)
(* Values brought to a common denominator.                                 *)
(***************************************************************************)
Fraction == Int \X (Nat \ {0})

\* A finite set of records with a fraction each.
IsSample(h) == IsFiniteSet(h) /\ \A x \in h : x.value \in Fraction

LEMMA TotalSum ==
  ASSUME NEW h, IsFiniteSet(h), NEW d, \A x \in h : Numerator(x.value, d) \in Int
  PROVE  \E T : IsSum(T, [x \in h |-> Numerator(x.value, d)], h) /\ T[h] = Total(h, d)
<1> DEFINE f == [x \in h |-> Numerator(x.value, d)]
           solves(T) == T = [s \in SUBSET h |->
                               IF s = {} THEN 0
                               ELSE Numerator((CHOOSE x \in s : TRUE).value, d)
                                      + T[s \ {CHOOSE x \in s : TRUE}]]
           c == CHOOSE T : solves(T)
<1>1. f \in [h -> Int] /\ \A x \in h : f[x] = Numerator(x.value, d)
  OBVIOUS
<1>2. Total(h, d) = c[h]
  BY DEF Total, MapThenSumSet, MapThenFoldSet
<1> HIDE DEF f
<1>3. \A s \in SUBSET h : s # {} => f[Chosen(s)] = Numerator((CHOOSE x \in s : TRUE).value, d)
  BY <1>1, ChosenFacts DEF Chosen
<1>4. ASSUME NEW T
      PROVE  [s \in SUBSET h |-> IF s = {} THEN 0 ELSE f[Chosen(s)] + T[s \ {Chosen(s)}]]
               = [s \in SUBSET h |->
                    IF s = {} THEN 0
                    ELSE Numerator((CHOOSE x \in s : TRUE).value, d)
                           + T[s \ {CHOOSE x \in s : TRUE}]]
  BY <1>3 DEF Chosen
<1>5. \A T : SumRecursion(T, f, h) <=> solves(T)
  BY <1>4 DEF SumRecursion
<1> HIDE DEF solves
<1>6. \E T : solves(T)
  BY <1>1, <1>5, SumsExist
<1>7. solves(c)
  BY <1>6
<1> HIDE DEF c
<1>8. IsSum(c, f, h)
  BY <1>1, <1>5, <1>7, SumFacts
<1> QED BY <1>2, <1>8 DEF f

LEMMA DenominatorProduct ==
  ASSUME NEW h, IsSample(h)
  PROVE  \E T : /\ IsProduct(T, [x \in h |-> x.value[2]], h)
                /\ T[h] = CommonDenominator(h)
<1> DEFINE f == [x \in h |-> x.value[2]]
           solves(T) == T = [s \in SUBSET h |->
                               IF s = {} THEN 1
                               ELSE (CHOOSE x \in s : TRUE).value[2]
                                      * T[s \ {CHOOSE x \in s : TRUE}]]
           c == CHOOSE T : solves(T)
<1>1. f \in [h -> Nat \ {0}] /\ IsFiniteSet(h) /\ \A x \in h : f[x] = x.value[2]
  BY DEF IsSample, Fraction
<1>2. CommonDenominator(h) = c[h]
  BY DEF CommonDenominator, FoldSet, MapThenFoldSet
<1> HIDE DEF f
<1>3. \A s \in SUBSET h : s # {} => f[Chosen(s)] = (CHOOSE x \in s : TRUE).value[2]
  BY <1>1, ChosenFacts DEF Chosen
<1>4. ASSUME NEW T
      PROVE  [s \in SUBSET h |-> IF s = {} THEN 1 ELSE f[Chosen(s)] * T[s \ {Chosen(s)}]]
               = [s \in SUBSET h |->
                    IF s = {} THEN 1
                    ELSE (CHOOSE x \in s : TRUE).value[2] * T[s \ {CHOOSE x \in s : TRUE}]]
  BY <1>3 DEF Chosen
<1>5. \A T : ProductRecursion(T, f, h) <=> solves(T)
  BY <1>4 DEF ProductRecursion
<1> HIDE DEF solves
<1>6. \E T : solves(T)
  BY <1>1, <1>5, ProductsExist
<1>7. solves(c)
  BY <1>6
<1> HIDE DEF c
<1>8. IsProduct(c, f, h)
  BY <1>1, <1>5, <1>7, ProductFacts
<1> QED BY <1>2, <1>8 DEF f

LEMMA ExactDivision ==
  ASSUME NEW a \in Nat \ {0}, NEW b \in Nat
  PROVE  (a * b) \div a = b
OBVIOUS

\* The common denominator is a multiple of each.
LEMMA Divides ==
  ASSUME NEW h, IsSample(h)
  PROVE  /\ CommonDenominator(h) \in Nat \ {0}
         /\ \A x \in h : \E q \in Nat \ {0} : CommonDenominator(h) = x.value[2] * q
<1>1. PICK T : IsProduct(T, [x \in h |-> x.value[2]], h) /\ T[h] = CommonDenominator(h)
  BY DenominatorProduct
<1>2. T \in [SUBSET h -> Nat \ {0}] /\ \A x \in h : T[h] = x.value[2] * T[h \ {x}]
  BY <1>1 DEF IsProduct
<1> QED BY <1>1, <1>2

\* A value as a part of a multiple of its denominator.
LEMMA NumeratorIs ==
  ASSUME NEW x \in Fraction, NEW q \in Nat
  PROVE  Numerator(x, x[2] * q) = x[1] * q /\ Numerator(x, x[2] * q) \in Int
<1>1. x[1] \in Int /\ x[2] \in Nat \ {0}
  BY DEF Fraction
<1>2. (x[2] * q) \div x[2] = q
  BY <1>1, ExactDivision
<1> QED BY <1>1, <1>2 DEF Numerator

-----------------------------------------------------------------------------
(***************************************************************************)
(* Means.                                                                  *)
(***************************************************************************)
LEMMA TimesMonotone ==
  ASSUME NEW n \in Nat, NEW a \in Int, NEW b \in Int, a <= b
  PROVE  n * a <= n * b
OBVIOUS

LEMMA TimesPositive ==
  ASSUME NEW n \in Nat \ {0}, NEW a \in Int, NEW b \in Int, n * a <= n * b
  PROVE  a <= b
<1> SUFFICES ASSUME b < a PROVE FALSE
  OBVIOUS
<1>1. n * (b + 1) <= n * a
  BY TimesMonotone
<1>2. n * (b + 1) = n * b + n
  OBVIOUS
<1> QED BY <1>1, <1>2

\* Not every number is above the mean, nor is every one below.
LEMMA NotAllOnOneSide ==
  ASSUME NEW S, IsFiniteSet(S), S # {}, NEW f \in [S -> Int], NEW T, IsSum(T, f, S)
  PROVE  /\ \E x \in S : Cardinality(S) * f[x] <= T[S]
         /\ \E x \in S : Cardinality(S) * f[x] >= T[S]
<1> DEFINE low(s) == \E x \in s : Cardinality(s) * f[x] <= T[s]
           high(s) == \E x \in s : Cardinality(s) * f[x] >= T[s]
           F == {s \in SUBSET S : s = {} \/ (low(s) /\ high(s))}
<1>1. /\ T[{}] = 0
      /\ \A s \in SUBSET S : T[s] \in Int /\ \A x \in s : T[s] = f[x] + T[s \ {x}]
  BY DEF IsSum
<1>2. {} \in F
  OBVIOUS
<1>3. ASSUME NEW s \in SUBSET S, s # {}, \A x \in s : s \ {x} \in F PROVE s \in F
  <2>1. PICK y \in s : TRUE
    BY <1>3
  <2> DEFINE r == s \ {y}
             n == Cardinality(r)
  <2>2. IsFiniteSet(s) /\ IsFiniteSet(r)
    BY FS_Subset
  <2>3. n \in Nat /\ Cardinality(s) = n + 1 /\ (n = 0 <=> r = {})
    <3>1. n \in Nat /\ Cardinality(s) \in Nat /\ n = Cardinality(s) - 1 /\ (n = 0 <=> r = {})
      BY <2>1, <2>2, FS_CardinalityType, FS_RemoveElement, FS_EmptySet
    <3> QED BY <3>1
  <2>4. T[s] = f[y] + T[r] /\ T[r] \in Int /\ f[y] \in Int /\ T[s] \in Int
    BY <1>1, <2>1
  <2>5. CASE r = {}
    <3>1. n = 0 /\ T[r] = 0 /\ Cardinality(s) * f[y] = f[y]
      BY <1>1, <2>3, <2>4, <2>5
    <3>2. Cardinality(s) * f[y] <= T[s] /\ Cardinality(s) * f[y] >= T[s]
      BY <2>4, <3>1
    <3> QED BY <2>1, <3>2
  <2>6. CASE r # {}
    <3>1. low(r) /\ high(r)
      BY <1>3, <2>1, <2>6
    <3>2. PICK a \in r : n * f[a] <= T[r]
      BY <3>1
    <3>3. PICK b \in r : n * f[b] >= T[r]
      BY <3>1
    <3>4. f[a] \in Int /\ f[b] \in Int /\ a \in s /\ b \in s
      BY <3>2, <3>3
    <3> HIDE DEF n, r
    <3>5. \A v \in Int : Cardinality(s) * v = n * v + v
      BY <2>3
    <3>6. low(s)
      <4>1. CASE f[y] <= f[a]
        <5>1. n * f[y] <= n * f[a] /\ n * f[y] \in Int /\ n * f[a] \in Int
          BY <2>3, <2>4, <3>4, <4>1, TimesMonotone
        <5>2. Cardinality(s) * f[y] <= T[s]
          BY <2>4, <3>2, <3>5, <5>1
        <5> QED BY <2>1, <5>2
      <4>2. CASE f[a] < f[y]
        <5>1. n * f[a] \in Int
          BY <2>3, <3>4
        <5>2. Cardinality(s) * f[a] <= T[s]
          BY <2>4, <3>2, <3>4, <3>5, <4>2, <5>1
        <5> QED BY <3>4, <5>2
      <4> QED BY <2>4, <3>4, <4>1, <4>2
    <3>7. high(s)
      <4>1. CASE f[b] <= f[y]
        <5>1. n * f[b] <= n * f[y] /\ n * f[y] \in Int /\ n * f[b] \in Int
          BY <2>3, <2>4, <3>4, <4>1, TimesMonotone
        <5>2. Cardinality(s) * f[y] >= T[s]
          BY <2>4, <3>3, <3>5, <5>1
        <5> QED BY <2>1, <5>2
      <4>2. CASE f[y] < f[b]
        <5>1. n * f[b] \in Int
          BY <2>3, <3>4
        <5>2. Cardinality(s) * f[b] >= T[s]
          BY <2>4, <3>3, <3>4, <3>5, <4>2, <5>1
        <5> QED BY <3>4, <5>2
      <4> QED BY <2>4, <3>4, <4>1, <4>2
    <3> QED BY <3>6, <3>7
  <2> QED BY <2>5, <2>6
<1>4. SUBSET S \subseteq F
  <2> HIDE DEF F
  <2> QED BY <1>2, <1>3, SubsetInduction
<1>5. S \in F
  BY <1>4
<1> QED BY <1>5

\* The mean of fractions lies between them, and one of them has its sign.
LEMMA MeanBetween ==
  ASSUME NEW h, IsSample(h), h # {}
  PROVE  /\ \E x \in h : ~Greater(x.value, Mean(h))
         /\ \E x \in h : ~Greater(Mean(h), x.value)
         /\ Mean(h)[1] > 0 => \E x \in h : x.value[1] > 0
         /\ Mean(h)[1] < 0 => \E x \in h : x.value[1] < 0
         /\ Mean(h)[1] \in Int
<1> DEFINE d == CommonDenominator(h)
           f == [x \in h |-> Numerator(x.value, d)]
           n == Cardinality(h)
<1>1. /\ d \in Nat \ {0}
      /\ \A x \in h : \E q \in Nat \ {0} : d = x.value[2] * q
  BY Divides
<1>2. \A x \in h : x.value \in Fraction /\ x.value[1] \in Int /\ x.value[2] \in Nat \ {0}
  BY DEF IsSample, Fraction
<1> HIDE DEF d
<1>3. ASSUME NEW x \in h
      PROVE  \E q \in Nat \ {0} : d = x.value[2] * q /\ f[x] = x.value[1] * q /\ f[x] \in Int
  <2>1. PICK q \in Nat \ {0} : d = x.value[2] * q
    BY <1>1
  <2>2. Numerator(x.value, d) = x.value[1] * q /\ Numerator(x.value, d) \in Int
    BY <1>2, <2>1, NumeratorIs
  <2> QED BY <2>1, <2>2
<1>4. f \in [h -> Int]
  BY <1>3
<1>5. PICK T : IsSum(T, f, h) /\ T[h] = Total(h, d)
  <2>1. \A x \in h : Numerator(x.value, d) \in Int
    BY <1>3
  <2> QED BY <2>1, TotalSum DEF IsSample
<1> HIDE DEF f
<1>6. n \in Nat \ {0}
  BY FS_CardinalityType, FS_EmptySet DEF IsSample
<1> DEFINE t == T[h]
<1>7. t \in Int
  BY <1>5 DEF IsSum
<1>8. Mean(h) = <<t, n * d>>
  BY <1>5 DEF Mean, d
<1>9. /\ \E x \in h : n * f[x] <= t
      /\ \E x \in h : n * f[x] >= t
  BY <1>4, <1>5, NotAllOnOneSide DEF IsSample
<1> HIDE DEF n, t
\* x <= t / (n d) when n times its numerator is at most t, and the same above
<1>10. ASSUME NEW x \in h
       PROVE  /\ n * f[x] <= t => x.value[1] * (n * d) <= t * x.value[2]
              /\ n * f[x] >= t => x.value[1] * (n * d) >= t * x.value[2]
              /\ f[x] > 0 => x.value[1] > 0
              /\ f[x] < 0 => x.value[1] < 0
  <2> DEFINE a == x.value[1]
             b == x.value[2]
  <2>1. PICK q \in Nat \ {0} : d = b * q /\ f[x] = a * q /\ f[x] \in Int
    BY <1>3
  <2>2. a \in Int /\ b \in Nat \ {0}
    BY <1>2
  <2> HIDE DEF a, b
  <2>3. a * (n * d) = b * (n * f[x])
    <3>1. a * (n * (b * q)) = b * (n * (a * q))
      BY <1>6, <2>2
    <3> QED BY <2>1, <3>1
  <2>4. n * f[x] \in Int /\ b * t = t * b /\ b \in Nat
    BY <1>6, <1>7, <2>1, <2>2
  <2>5. n * f[x] <= t => b * (n * f[x]) <= b * t
    BY <1>7, <2>4, TimesMonotone
  <2>6. n * f[x] >= t => b * t <= b * (n * f[x])
    BY <1>7, <2>4, TimesMonotone
  <2>7. b * t \in Int /\ b * (n * f[x]) \in Int
    BY <1>7, <2>2, <2>4
  <2>8. f[x] > 0 => a > 0
    <3> SUFFICES ASSUME a <= 0 PROVE ~(f[x] > 0)
      BY <2>2
    <3>1. q * a <= q * 0
      BY <2>1, <2>2, TimesMonotone
    <3> QED BY <2>1, <2>2, <3>1
  <2>9. f[x] < 0 => a < 0
    <3> SUFFICES ASSUME 0 <= a PROVE ~(f[x] < 0)
      BY <2>2
    <3>1. q * 0 <= q * a
      BY <2>1, <2>2, TimesMonotone
    <3> QED BY <2>1, <2>2, <3>1
  <2> QED BY <2>3, <2>4, <2>5, <2>6, <2>7, <2>8, <2>9 DEF a, b
<1>11. ASSUME NEW x \in h
       PROVE  /\ x.value[1] * (n * d) \in Int /\ t * x.value[2] \in Int
              /\ n * f[x] > 0 => f[x] > 0
              /\ n * f[x] < 0 => f[x] < 0
              /\ n * f[x] \in Int
  <2>1. x.value[1] \in Int /\ x.value[2] \in Int /\ n * d \in Int /\ f[x] \in Int
    BY <1>1, <1>2, <1>4, <1>6
  <2>2. f[x] <= 0 => n * f[x] <= n * 0
    BY <1>6, <2>1, TimesMonotone
  <2>3. f[x] >= 0 => n * 0 <= n * f[x]
    BY <1>6, <2>1, TimesMonotone
  <2>4. n * 0 = 0 /\ n * f[x] \in Int
    BY <1>6, <2>1
  <2> QED BY <1>7, <2>1, <2>2, <2>3, <2>4
<1>12. \E x \in h : ~Greater(x.value, Mean(h))
  <2>1. PICK x \in h : n * f[x] <= t
    BY <1>9
  <2>2. ~(x.value[1] * (n * d) > t * x.value[2])
    BY <1>10, <1>11, <2>1
  <2> QED BY <1>8, <2>2 DEF Greater
<1>13. \E x \in h : ~Greater(Mean(h), x.value)
  <2>1. PICK x \in h : n * f[x] >= t
    BY <1>9
  <2>2. ~(t * x.value[2] > x.value[1] * (n * d))
    BY <1>10, <1>11, <2>1
  <2> QED BY <1>8, <2>2 DEF Greater
<1>14. t > 0 => \E x \in h : x.value[1] > 0
  BY <1>7, <1>9, <1>10, <1>11
<1>15. t < 0 => \E x \in h : x.value[1] < 0
  BY <1>7, <1>9, <1>10, <1>11
<1> QED BY <1>7, <1>8, <1>12, <1>13, <1>14, <1>15

-----------------------------------------------------------------------------
(***************************************************************************)
(* A sum over other names for the same elements, and a sum of sums.        *)
(***************************************************************************)
IsRenaming(m, S, R) ==
  /\ m \in [S -> R]
  /\ \A x, y \in S : m[x] = m[y] => x = y
  /\ \A z \in R : \E x \in S : m[x] = z

Names(m, s) == {m[x] : x \in s}

LEMMA NamesFinite ==
  ASSUME NEW S, IsFiniteSet(S), NEW T, NEW m \in [S -> T]
  PROVE  IsFiniteSet(Names(m, S))
<1>1. m \in Surjection(S, Names(m, S))
  BY DEF Surjection, Names
<1> QED BY <1>1, FS_Surjection

LEMMA Renamed ==
  ASSUME NEW S, NEW R, IsFiniteSet(S), NEW m, IsRenaming(m, S, R)
  PROVE  IsFiniteSet(R) /\ Cardinality(R) = Cardinality(S)
<1>1. m \in Bijection(S, R)
  BY Zenon DEF IsRenaming, Bijection, Injection, Surjection, IsInjective
<1> QED BY <1>1, FS_Bijection DEF ExistsBijection

LEMMA RenamedParts ==
  ASSUME NEW S, NEW R, NEW m, IsRenaming(m, S, R)
  PROVE  /\ Names(m, {}) = {} /\ Names(m, S) = R
         /\ \A s \in SUBSET S : Names(m, s) \in SUBSET R
         /\ \A s \in SUBSET S : \A x \in s :
              m[x] \in Names(m, s) /\ Names(m, s) \ {m[x]} = Names(m, s \ {x})
<1> USE DEF Names
<1>1. Names(m, {}) = {}
  OBVIOUS
<1>2. Names(m, S) = R
  BY DEF IsRenaming
<1>3. \A s \in SUBSET S : Names(m, s) \in SUBSET R
  BY DEF IsRenaming
<1>4. ASSUME NEW s \in SUBSET S, NEW x \in s
      PROVE  m[x] \in Names(m, s) /\ Names(m, s) \ {m[x]} = Names(m, s \ {x})
  <2>1. m[x] \in Names(m, s)
    OBVIOUS
  <2>2. ASSUME NEW y \in s, m[y] # m[x] PROVE m[y] \in Names(m, s \ {x})
    BY <2>2
  <2>3. ASSUME NEW y \in s \ {x} PROVE m[y] \in Names(m, s) /\ m[y] # m[x]
    BY DEF IsRenaming
  <2> QED BY <2>1, <2>2, <2>3
<1> QED BY <1>1, <1>2, <1>3, <1>4

LEMMA RenamedSum ==
  ASSUME NEW S, NEW R, IsFiniteSet(S), NEW m, IsRenaming(m, S, R),
         NEW f, NEW T, IsSum(T, f, R), NEW g, NEW U, IsSum(U, g, S),
         \A x \in S : g[x] = f[m[x]]
  PROVE  T[R] = U[S]
<1> DEFINE F == {s \in SUBSET S : T[Names(m, s)] = U[s]}
<1>1. /\ Names(m, {}) = {} /\ Names(m, S) = R
      /\ \A s \in SUBSET S : Names(m, s) \in SUBSET R
      /\ \A s \in SUBSET S : \A x \in s :
           m[x] \in Names(m, s) /\ Names(m, s) \ {m[x]} = Names(m, s \ {x})
  BY RenamedParts
<1>2. {} \in F
  BY <1>1 DEF IsSum
<1>3. ASSUME NEW s \in SUBSET S, s # {}, \A x \in s : s \ {x} \in F PROVE s \in F
  <2>1. PICK x \in s : TRUE
    BY <1>3
  <2>2. T[Names(m, s)] = f[m[x]] + T[Names(m, s) \ {m[x]}]
    BY <1>1, <2>1, Zenon DEF IsSum
  <2>3. U[s] = g[x] + U[s \ {x}]
    BY <2>1 DEF IsSum
  <2>4. T[Names(m, s \ {x})] = U[s \ {x}]
    BY <1>3, <2>1
  <2>5. T[Names(m, s)] = U[s]
    BY <1>1, <2>1, <2>2, <2>3, <2>4
  <2> QED BY <2>5
<1>4. SUBSET S \subseteq F
  <2> HIDE DEF F
  <2> QED BY <1>2, <1>3, SubsetInduction
<1>5. S \in F
  BY <1>4
<1> QED BY <1>1, <1>5

LEMMA RenamedProduct ==
  ASSUME NEW S, NEW R, IsFiniteSet(S), NEW m, IsRenaming(m, S, R),
         NEW f, NEW T, IsProduct(T, f, R), NEW g, NEW U, IsProduct(U, g, S),
         \A x \in S : g[x] = f[m[x]]
  PROVE  T[R] = U[S]
<1> DEFINE F == {s \in SUBSET S : T[Names(m, s)] = U[s]}
<1>1. /\ Names(m, {}) = {} /\ Names(m, S) = R
      /\ \A s \in SUBSET S : Names(m, s) \in SUBSET R
      /\ \A s \in SUBSET S : \A x \in s :
           m[x] \in Names(m, s) /\ Names(m, s) \ {m[x]} = Names(m, s \ {x})
  BY RenamedParts
<1>2. {} \in F
  BY <1>1 DEF IsProduct
<1>3. ASSUME NEW s \in SUBSET S, s # {}, \A x \in s : s \ {x} \in F PROVE s \in F
  <2>1. PICK x \in s : TRUE
    BY <1>3
  <2>2. T[Names(m, s)] = f[m[x]] * T[Names(m, s) \ {m[x]}]
    BY <1>1, <2>1, Zenon DEF IsProduct
  <2>3. U[s] = g[x] * U[s \ {x}]
    BY <2>1 DEF IsProduct
  <2>4. T[Names(m, s \ {x})] = U[s \ {x}]
    BY <1>3, <2>1
  <2>5. T[Names(m, s)] = U[s]
    BY <1>1, <2>1, <2>2, <2>3, <2>4
  <2> QED BY <2>5
<1>4. SUBSET S \subseteq F
  <2> HIDE DEF F
  <2> QED BY <1>2, <1>3, SubsetInduction
<1>5. S \in F
  BY <1>4
<1> QED BY <1>1, <1>5

\* v is k times a and l times b and c, and A, B and V are the sums of these.
Combines(S, k, l, c, a, A, b, B, v, V) ==
  /\ k \in Int /\ l \in Int /\ c \in Int
  /\ a \in [S -> Int] /\ b \in [S -> Int] /\ v \in [S -> Int]
  /\ IsSum(A, a, S) /\ IsSum(B, b, S) /\ IsSum(V, v, S)
  /\ \A x \in S : v[x] = k * a[x] + l * b[x] + c

LEMMA LinearSum ==
  ASSUME NEW S, IsFiniteSet(S), NEW k, NEW l, NEW c, NEW a, NEW A, NEW b, NEW B, NEW v, NEW V,
         Combines(S, k, l, c, a, A, b, B, v, V)
  PROVE  V[S] = k * A[S] + l * B[S] + Cardinality(S) * c
<1>0. /\ k \in Int /\ l \in Int /\ c \in Int
      /\ a \in [S -> Int] /\ b \in [S -> Int] /\ v \in [S -> Int]
      /\ IsSum(A, a, S) /\ IsSum(B, b, S) /\ IsSum(V, v, S)
      /\ \A x \in S : v[x] = k * a[x] + l * b[x] + c
  BY DEF Combines
<1> DEFINE F == {s \in SUBSET S : V[s] = k * A[s] + l * B[s] + Cardinality(s) * c}
<1>1. {} \in F
  <2>1. Cardinality({}) = 0
    BY FS_EmptySet
  <2> QED BY <1>0, <2>1 DEF IsSum
<1>2. ASSUME NEW s \in SUBSET S, s # {}, \A x \in s : s \ {x} \in F PROVE s \in F
  <2>1. PICK x \in s : TRUE
    BY <1>2
  <2> DEFINE r == s \ {x}
             n == Cardinality(r)
  <2>2. n \in Nat /\ Cardinality(s) = n + 1
    <3>1. IsFiniteSet(s) /\ IsFiniteSet(r)
      BY FS_Subset
    <3>2. n \in Nat /\ Cardinality(s) \in Nat /\ n = Cardinality(s) - 1
      BY <2>1, <3>1, FS_CardinalityType, FS_RemoveElement
    <3> QED BY <3>2
  <2>3. /\ V[s] = v[x] + V[r] /\ A[s] = a[x] + A[r] /\ B[s] = b[x] + B[r]
        /\ A[r] \in Int /\ B[r] \in Int /\ V[r] \in Int
        /\ a[x] \in Int /\ b[x] \in Int /\ v[x] \in Int /\ x \in S
    BY <1>0, <2>1 DEF IsSum
  <2>4. V[r] = k * A[r] + l * B[r] + n * c
    BY <1>2, <2>1
  <2> HIDE DEF r, n
  <2>5. v[x] = k * a[x] + l * b[x] + c
    BY <1>0, <2>3
  <2>6. /\ k * (a[x] + A[r]) = k * a[x] + k * A[r]
        /\ l * (b[x] + B[r]) = l * b[x] + l * B[r]
        /\ (n + 1) * c = n * c + c
    BY <1>0, <2>2, <2>3
  <2>7. /\ k * a[x] \in Int /\ k * A[r] \in Int /\ l * b[x] \in Int /\ l * B[r] \in Int
        /\ n * c \in Int
    BY <1>0, <2>2, <2>3
  <2>8. V[s] = k * A[s] + l * B[s] + Cardinality(s) * c
    <3> DEFINE ka == k * a[x]  kA == k * A[r]  lb == l * b[x]  lB == l * B[r]  nc == n * c
    <3>1. k * A[s] = ka + kA /\ l * B[s] = lb + lB /\ Cardinality(s) * c = nc + c
      BY <2>2, <2>3, <2>6
    <3>2. V[s] = (ka + lb + c) + (kA + lB + nc)
      BY <2>3, <2>4, <2>5
    <3>3. ka \in Int /\ kA \in Int /\ lb \in Int /\ lB \in Int /\ nc \in Int
      BY <2>7
    <3> HIDE DEF ka, kA, lb, lB, nc
    <3> QED BY <1>0, <3>1, <3>2, <3>3
  <2> QED BY <2>8
<1>3. SUBSET S \subseteq F
  <2> HIDE DEF F
  <2> QED BY <1>1, <1>2, SubsetInduction
<1>4. S \in F
  BY <1>3
<1> QED BY <1>4

\* The sum of the squares, as TotalSum.
LEMMA SquaresSum ==
  ASSUME NEW h, IsFiniteSet(h), NEW d, \A x \in h : Numerator(x.value, d) \in Int
  PROVE  \E T : /\ IsSum(T, [x \in h |-> Numerator(x.value, d) * Numerator(x.value, d)], h)
                /\ T[h] = Squares(h, d)
<1> DEFINE f == [x \in h |-> Numerator(x.value, d) * Numerator(x.value, d)]
           solves(T) == T = [s \in SUBSET h |->
                               IF s = {} THEN 0
                               ELSE Numerator((CHOOSE x \in s : TRUE).value, d)
                                      * Numerator((CHOOSE x \in s : TRUE).value, d)
                                      + T[s \ {CHOOSE x \in s : TRUE}]]
           c == CHOOSE T : solves(T)
<1>1. f \in [h -> Int] /\ \A x \in h : f[x] = Numerator(x.value, d) * Numerator(x.value, d)
  OBVIOUS
<1>2. Squares(h, d) = c[h]
  BY DEF Squares, MapThenSumSet, MapThenFoldSet
<1> HIDE DEF f
<1>3. \A s \in SUBSET h : s # {} =>
        f[Chosen(s)] = Numerator((CHOOSE x \in s : TRUE).value, d)
                      * Numerator((CHOOSE x \in s : TRUE).value, d)
  BY <1>1, ChosenFacts DEF Chosen
<1>4. ASSUME NEW T
      PROVE  [s \in SUBSET h |-> IF s = {} THEN 0 ELSE f[Chosen(s)] + T[s \ {Chosen(s)}]]
               = [s \in SUBSET h |->
                    IF s = {} THEN 0
                    ELSE Numerator((CHOOSE x \in s : TRUE).value, d)
                           * Numerator((CHOOSE x \in s : TRUE).value, d)
                           + T[s \ {CHOOSE x \in s : TRUE}]]
  BY <1>3 DEF Chosen
<1>5. \A T : SumRecursion(T, f, h) <=> solves(T)
  BY <1>4 DEF SumRecursion
<1> HIDE DEF solves
<1>6. \E T : solves(T)
  BY <1>1, <1>5, SumsExist
<1>7. solves(c)
  BY <1>6
<1> HIDE DEF c
<1>8. IsSum(c, f, h)
  BY <1>1, <1>5, <1>7, SumFacts
<1> QED BY <1>2, <1>8 DEF f

=============================================================================
