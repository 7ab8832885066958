---------------------------- MODULE ReportsProofs ----------------------------
(***************************************************************************)
(* The reports for any number of rides, drivers, days and fares: what the  *)
(* columns of a row say of each other, that the screens add up the same    *)
(* money whatever they group it by, and how far apart the parts of one     *)
(* answer can be.                                                          *)
(*                                                                         *)
(* Sums first.  The library's induction theorems take a predicate, which   *)
(* the provers cannot instantiate; FiniteInduction takes the set of the    *)
(* subsets for which the statement holds instead.                          *)
(***************************************************************************)
EXTENDS Reports, FiniteSetTheorems, WellFoundedInduction, TLAPS

-----------------------------------------------------------------------------
LEMMA FiniteInduction ==
    ASSUME NEW S, IsFiniteSet(S), NEW P,
           \A T \in SUBSET S : (\A U \in SUBSET T : U # T => U \in P) => T \in P
    PROVE  S \in P
<1> SUFFICES ASSUME S \notin P PROVE FALSE
  OBVIOUS
<1> DEFINE Bad == {T \in SUBSET S : T \notin P}
           R == StrictSubsetOrdering(S)
<1>1. IsWellFoundedOn(R, FiniteSubsetsOf(S)) /\ FiniteSubsetsOf(S) = SUBSET S
  BY FS_StrictSubsetOrderingWellFounded, FS_FiniteSubsetsOfFinite
<1>2. Bad \subseteq FiniteSubsetsOf(S) /\ Bad # {}
  BY <1>1
<1> HIDE DEF Bad, R
<1>3. PICK T \in Bad : \A U \in Bad : <<U, T>> \notin R
  BY <1>1, <1>2, WFMin
<1>4. T \in SUBSET S /\ T \notin P
  BY DEF Bad
<1>5. \A U \in SUBSET T : U # T => U \in P
  BY <1>3, <1>4 DEF Bad, R, StrictSubsetOrdering
<1> QED
  BY <1>4, <1>5

\* One element after the other.
LEMMA FiniteSteps ==
    ASSUME NEW S, IsFiniteSet(S), NEW P, {} \in P,
           \A T \in SUBSET S : \A x \in T : T \ {x} \in P => T \in P
    PROVE  S \in P
<1>1. ASSUME NEW T \in SUBSET S, \A U \in SUBSET T : U # T => U \in P PROVE T \in P
  <2>1. CASE T = {}
    BY <2>1
  <2>2. CASE T # {}
    <3>1. PICK x : x \in T
      BY <2>2
    <3>2. T \ {x} \in SUBSET T /\ T \ {x} # T
      BY <3>1
    <3> QED
      BY <1>1, <3>1, <3>2
  <2> QED
    BY <2>1, <2>2
<1> QED
  BY <1>1, FiniteInduction

-----------------------------------------------------------------------------
(***************************************************************************)
(* Sums.                                                                   *)
(***************************************************************************)
Sum(f, S) == MapThenSumSet(LAMBDA x : f[x], S)

Some(S) == CHOOSE x \in S : TRUE

\* The equation of the fold.
IsSum(f, S, g) ==
    g = [s \in SUBSET S |-> IF s = {} THEN 0 ELSE f[Some(s)] + g[s \ {Some(s)}]]

LEMMA SomeIsIn == ASSUME NEW S, S # {} PROVE Some(S) \in S
BY DEF Some

LEMMA IsSumStep ==
    ASSUME NEW f, NEW S, NEW g, IsSum(f, S, g), NEW s \in SUBSET S
    PROVE  g[s] = IF s = {} THEN 0 ELSE f[Some(s)] + g[s \ {Some(s)}]
BY DEF IsSum

LEMMA IsSumAgrees ==
    ASSUME NEW f, NEW S, NEW T, NEW g, NEW h, IsSum(f, S, g), IsSum(f, T, h),
           NEW u, u \subseteq S, u \subseteq T, IsFiniteSet(u)
    PROVE  g[u] = h[u]
<1> DEFINE P == {v \in SUBSET u : g[v] = h[v]}
<1>1. ASSUME NEW v \in SUBSET u, \A w \in SUBSET v : w # v => w \in P PROVE v \in P
  <2>1. v \in SUBSET S /\ v \in SUBSET T
    OBVIOUS
  <2>2. CASE v = {}
    BY <2>1, <2>2, IsSumStep
  <2>3. CASE v # {}
    <3>1. v \ {Some(v)} \in SUBSET v /\ v \ {Some(v)} # v
      BY <2>3, SomeIsIn
    <3>2. g[v \ {Some(v)}] = h[v \ {Some(v)}]
      BY <1>1, <3>1
    <3>3. g[v] = f[Some(v)] + g[v \ {Some(v)}]
      BY <2>1, <2>3, IsSumStep
    <3>4. h[v] = f[Some(v)] + h[v \ {Some(v)}]
      BY <2>1, <2>3, IsSumStep
    <3> QED
      BY <3>2, <3>3, <3>4
  <2> QED
    BY <2>2, <2>3
<1> HIDE DEF P
<1>2. u \in P
  BY <1>1, FiniteInduction
<1> QED
  BY <1>2 DEF P

LEMMA IsSumExists ==
    ASSUME NEW f, NEW S, IsFiniteSet(S)
    PROVE  \E g : IsSum(f, S, g)
<1> DEFINE P == {T \in SUBSET S : \E g : IsSum(f, T, g)}
           Of(T) == CHOOSE g : IsSum(f, T, g)
           Val(T) == IF T = {} THEN 0 ELSE f[Some(T)] + Of(T \ {Some(T)})[T \ {Some(T)}]
<1>1. ASSUME NEW T \in SUBSET S, \A U \in SUBSET T : U # T => U \in P PROVE T \in P
  <2>1. \A U \in SUBSET T : U # T => IsSum(f, U, Of(U))
    BY <1>1
  <2> DEFINE g == [s \in SUBSET T |-> Val(s)]
  <2>2. ASSUME NEW s \in SUBSET T, s # {} PROVE g[s \ {Some(s)}] = Of(s \ {Some(s)})[s \ {Some(s)}]
    <3> DEFINE v == s \ {Some(s)}
    <3>1. v \in SUBSET T /\ v # T /\ IsFiniteSet(v)
      <4>1. Some(s) \in s
        BY <2>2, SomeIsIn
      <4> QED
        BY <4>1, FS_Subset
    <3>2. IsSum(f, v, Of(v)) /\ v \in SUBSET v
      BY <2>1, <3>1
    <3> HIDE DEF v, Of
    <3>3. Of(v)[v] = IF v = {} THEN 0 ELSE f[Some(v)] + Of(v)[v \ {Some(v)}]
      BY <3>2, IsSumStep
    <3>4. ASSUME v # {} PROVE Of(v)[v \ {Some(v)}] = Of(v \ {Some(v)})[v \ {Some(v)}]
      <4> DEFINE w == v \ {Some(v)}
      <4>1. w \in SUBSET T /\ w # T /\ w \subseteq v /\ IsFiniteSet(w) /\ w \subseteq w
        BY <3>1, <3>4, SomeIsIn, FS_Subset
      <4>2. IsSum(f, w, Of(w))
        BY <2>1, <4>1
      <4> HIDE DEF w
      <4>3. Of(v)[w] = Of(w)[w]
        BY <3>2, <4>1, <4>2, IsSumAgrees
      <4> QED
        BY <4>3 DEF w
    <3>5. Of(v)[v] = Val(v)
      BY <3>3, <3>4
    <3>6. g[v] = Val(v)
      BY <3>1
    <3> QED
      BY <3>5, <3>6 DEF v
  <2> HIDE DEF Of
  <2>3. g = [s \in SUBSET T |-> IF s = {} THEN 0 ELSE f[Some(s)] + g[s \ {Some(s)}]]
    <3>1. \A s \in SUBSET T : Val(s) = IF s = {} THEN 0 ELSE f[Some(s)] + g[s \ {Some(s)}]
      BY <2>2
    <3>2. g = [s \in SUBSET T |-> Val(s)]
      OBVIOUS
    <3> HIDE DEF g, Val
    <3> QED
      BY <3>1, <3>2
  <2>4. IsSum(f, T, g)
    BY <2>3 DEF IsSum
  <2> QED
    BY <2>4
<1> HIDE DEF P
<1>2. S \in P
  BY <1>1, FiniteInduction
<1> QED
  BY <1>2 DEF P

LEMMA SumIsIt ==
    ASSUME NEW f, NEW S, IsFiniteSet(S), NEW T, NEW g, IsSum(f, T, g), S \subseteq T
    PROVE  Sum(f, S) = g[S]
<1> DEFINE h == CHOOSE k : IsSum(f, S, k)
<1>1. IsSum(f, S, h)
  BY IsSumExists
<1>2. Sum(f, S) = h[S]
  BY DEF Sum, MapThenSumSet, MapThenFoldSet, IsSum, Some
<1> HIDE DEF h
<1>3. h[S] = g[S]
  BY <1>1, IsSumAgrees
<1> QED
  BY <1>2, <1>3

LEMMA SumSome ==
    ASSUME NEW f, NEW S, IsFiniteSet(S)
    PROVE  Sum(f, S) = IF S = {} THEN 0 ELSE f[Some(S)] + Sum(f, S \ {Some(S)})
<1>1. PICK g : IsSum(f, S, g)
  BY IsSumExists
<1>2. Sum(f, S) = g[S]
  BY <1>1, SumIsIt
<1>3. g[S] = IF S = {} THEN 0 ELSE f[Some(S)] + g[S \ {Some(S)}]
  BY <1>1, IsSumStep
<1>4. IsFiniteSet(S \ {Some(S)}) /\ S \ {Some(S)} \subseteq S
  BY FS_Subset
<1>5. Sum(f, S \ {Some(S)}) = g[S \ {Some(S)}]
  BY <1>1, <1>4, SumIsIt
<1> QED
  BY <1>2, <1>3, <1>5

LEMMA SumNone == \A f : Sum(f, {}) = 0
BY SumSome, FS_EmptySet

LEMMA SumType ==
    ASSUME NEW f, NEW S, IsFiniteSet(S), \A x \in S : f[x] \in Int
    PROVE  Sum(f, S) \in Int
<1> DEFINE P == {T \in SUBSET S : Sum(f, T) \in Int}
<1>1. ASSUME NEW T \in SUBSET S, \A U \in SUBSET T : U # T => U \in P PROVE T \in P
  <2>1. IsFiniteSet(T)
    BY FS_Subset
  <2>2. CASE T = {}
    <3>1. Sum(f, {}) = 0
      BY SumNone
    <3> QED
      BY <2>2, <3>1
  <2>3. CASE T # {}
    <3>1. Some(T) \in T /\ T \ {Some(T)} \in P
      BY <1>1, <2>3, SomeIsIn
    <3>2. f[Some(T)] \in Int /\ Sum(f, T \ {Some(T)}) \in Int
      BY <3>1
    <3>3. Sum(f, T) = f[Some(T)] + Sum(f, T \ {Some(T)})
      BY <2>1, <2>3, SumSome
    <3> QED
      BY <3>2, <3>3
  <2> QED
    BY <2>2, <2>3
<1> HIDE DEF P
<1>2. S \in P
  BY <1>1, FiniteInduction
<1> QED
  BY <1>2 DEF P

\* Any element may be taken first.
LEMMA SumTake ==
    ASSUME NEW f, NEW S, IsFiniteSet(S), \A x \in S : f[x] \in Int, NEW y \in S
    PROVE  Sum(f, S) = f[y] + Sum(f, S \ {y})
<1> DEFINE P == {T \in SUBSET S : \A x \in T : Sum(f, T) = f[x] + Sum(f, T \ {x})}
<1>1. ASSUME NEW T \in SUBSET S, \A U \in SUBSET T : U # T => U \in P PROVE T \in P
  <2> SUFFICES ASSUME NEW x \in T PROVE Sum(f, T) = f[x] + Sum(f, T \ {x})
    OBVIOUS
  <2> DEFINE c == Some(T)
  <2>1. IsFiniteSet(T) /\ T # {} /\ c \in T
    BY FS_Subset, SomeIsIn
  <2>2. Sum(f, T) = f[c] + Sum(f, T \ {c})
    BY <2>1, SumSome
  <2> HIDE DEF c
  <2>3. CASE x = c
    BY <2>2, <2>3
  <2>4. CASE x # c
    <3>1. T \ {c} \in P /\ x \in T \ {c} /\ T \ {x} \in P /\ c \in T \ {x}
      BY <1>1, <2>1, <2>4
    <3>2. Sum(f, T \ {c}) = f[x] + Sum(f, (T \ {c}) \ {x})
      BY <3>1
    <3>3. Sum(f, T \ {x}) = f[c] + Sum(f, (T \ {x}) \ {c})
      BY <3>1
    <3>4. (T \ {x}) \ {c} = (T \ {c}) \ {x}
      OBVIOUS
    <3> DEFINE m == Sum(f, (T \ {c}) \ {x})
    <3>5. f[x] \in Int /\ f[c] \in Int /\ m \in Int
      <4>1. IsFiniteSet((T \ {c}) \ {x}) /\ (T \ {c}) \ {x} \subseteq S
        BY <2>1, FS_Subset
      <4> QED
        BY <2>1, <4>1, SumType
    <3>6. Sum(f, T) = f[c] + (f[x] + m) /\ Sum(f, T \ {x}) = f[c] + m
      BY <2>2, <3>2, <3>3, <3>4
    <3> HIDE DEF m
    <3> QED
      BY <3>5, <3>6
  <2> QED
    BY <2>3, <2>4
<1> HIDE DEF P
<1>2. S \in P
  BY <1>1, FiniteInduction
<1> QED
  BY <1>2 DEF P

LEMMA SumSame ==
    ASSUME NEW f, NEW g, NEW S, IsFiniteSet(S), \A x \in S : f[x] = g[x]
    PROVE  Sum(f, S) = Sum(g, S)
<1> DEFINE P == {T \in SUBSET S : Sum(f, T) = Sum(g, T)}
<1>1. ASSUME NEW T \in SUBSET S, \A U \in SUBSET T : U # T => U \in P PROVE T \in P
  <2>1. IsFiniteSet(T)
    BY FS_Subset
  <2>2. CASE T = {}
    BY <2>2, SumNone
  <2>3. CASE T # {}
    <3>1. Some(T) \in T /\ T \ {Some(T)} \in P
      BY <1>1, <2>3, SomeIsIn
    <3>2. Sum(f, T) = f[Some(T)] + Sum(f, T \ {Some(T)})
      BY <2>1, <2>3, SumSome
    <3>3. Sum(g, T) = g[Some(T)] + Sum(g, T \ {Some(T)})
      BY <2>1, <2>3, SumSome
    <3> QED
      BY <3>1, <3>2, <3>3
  <2> QED
    BY <2>2, <2>3
<1> HIDE DEF P
<1>2. S \in P
  BY <1>1, FiniteInduction
<1> QED
  BY <1>2 DEF P

\* The sum over two sets without a common element.
LEMMA SumUnion ==
    ASSUME NEW f, NEW A, NEW B, IsFiniteSet(A), IsFiniteSet(B), A \cap B = {},
           \A x \in A \cup B : f[x] \in Int
    PROVE  Sum(f, A \cup B) = Sum(f, A) + Sum(f, B)
<1> DEFINE P == {T \in SUBSET B : Sum(f, A \cup T) = Sum(f, A) + Sum(f, T)}
<1>1. {} \in P
  <2>1. Sum(f, A) \in Int /\ A \cup {} = A
    BY SumType
  <2> QED
    BY <2>1, SumNone
<1>2. ASSUME NEW T \in SUBSET B, NEW x \in T, T \ {x} \in P PROVE T \in P
  <2>1. /\ IsFiniteSet(T) /\ (\A y \in T : f[y] \in Int)
        /\ IsFiniteSet(A \cup T) /\ (\A y \in A \cup T : f[y] \in Int)
        /\ IsFiniteSet(T \ {x})
    BY FS_Subset, FS_Union
  <2>2. Sum(f, T) = f[x] + Sum(f, T \ {x})
    BY <2>1, SumTake
  <2>3. Sum(f, A \cup T) = f[x] + Sum(f, (A \cup T) \ {x})
    BY <2>1, SumTake
  <2>4. (A \cup T) \ {x} = A \cup (T \ {x})
    OBVIOUS
  <2>5. f[x] \in Int /\ Sum(f, A) \in Int /\ Sum(f, T \ {x}) \in Int
    BY <2>1, SumType
  <2>6. Sum(f, A \cup (T \ {x})) = Sum(f, A) + Sum(f, T \ {x})
    BY <1>2
  <2>7. PICK a, n, y : a = Sum(f, A) /\ n = Sum(f, T \ {x}) /\ y = f[x]
    OBVIOUS
  <2>8. Sum(f, A \cup T) = y + (a + n) /\ Sum(f, T) = y + n
    BY <2>2, <2>3, <2>4, <2>6, <2>7
  <2>9. y + (a + n) = a + (y + n)
    BY <2>5, <2>7
  <2>10. Sum(f, A \cup T) = Sum(f, A) + Sum(f, T)
    BY <2>7, <2>8, <2>9
  <2> QED
    BY <2>10
<1> HIDE DEF P
<1>3. B \in P
  BY <1>1, <1>2, FiniteSteps
<1> QED
  BY <1>3 DEF P

LEMMA SumGrows ==
    ASSUME NEW f, NEW A, NEW B, IsFiniteSet(B), A \subseteq B, \A x \in B : f[x] \in Nat
    PROVE  Sum(f, A) \in Nat /\ Sum(f, B) \in Nat /\ Sum(f, A) <= Sum(f, B)
<1>1. ASSUME NEW C \in SUBSET B PROVE Sum(f, C) \in Nat
  <2> DEFINE P == {T \in SUBSET C : Sum(f, T) \in Nat}
  <2>1. {} \in P
    BY SumNone
  <2>2. ASSUME NEW T \in SUBSET C, NEW x \in T, T \ {x} \in P PROVE T \in P
    <3>1. IsFiniteSet(T) /\ (\A y \in T : f[y] \in Int) /\ f[x] \in Nat
      BY FS_Subset
    <3>2. Sum(f, T) = f[x] + Sum(f, T \ {x})
      BY <3>1, SumTake
    <3> QED
      BY <2>2, <3>1, <3>2
  <2> HIDE DEF P
  <2>3. C \in P
    BY <2>1, <2>2, FiniteSteps, FS_Subset
  <2> QED
    BY <2>3 DEF P
<1>2. /\ IsFiniteSet(A) /\ IsFiniteSet(B \ A) /\ A \cap (B \ A) = {} /\ A \cup (B \ A) = B
      /\ \A x \in A \cup (B \ A) : f[x] \in Int
  BY FS_Subset
<1>3. Sum(f, B) = Sum(f, A) + Sum(f, B \ A)
  BY <1>2, SumUnion
<1>4. Sum(f, A) \in Nat /\ Sum(f, B) \in Nat /\ Sum(f, B \ A) \in Nat
  BY <1>1, <1>2
<1> QED
  BY <1>3, <1>4

\* Counting is adding ones.
LEMMA SumOfOnes ==
    ASSUME NEW f, NEW S, IsFiniteSet(S), \A x \in S : f[x] = 1
    PROVE  Sum(f, S) = Cardinality(S)
<1> DEFINE P == {T \in SUBSET S : Sum(f, T) = Cardinality(T)}
<1>1. {} \in P
  BY SumNone, FS_EmptySet
<1>2. ASSUME NEW T \in SUBSET S, NEW x \in T, T \ {x} \in P PROVE T \in P
  <2>1. IsFiniteSet(T) /\ (\A y \in T : f[y] \in Int) /\ f[x] = 1
    BY FS_Subset
  <2>2. Sum(f, T) = f[x] + Sum(f, T \ {x})
    BY <2>1, SumTake
  <2>3. Cardinality(T \ {x}) = Cardinality(T) - 1 /\ Cardinality(T) \in Nat
    BY <2>1, FS_RemoveElement, FS_CardinalityType
  <2> QED
    BY <1>2, <2>1, <2>2, <2>3
<1> HIDE DEF P
<1>3. S \in P
  BY <1>1, <1>2, FiniteSteps
<1> QED
  BY <1>3 DEF P

\* The sums of the groups of a set add up to its sum.
LEMMA SumOfGroups ==
    ASSUME NEW f, NEW S, IsFiniteSet(S), \A x \in S : f[x] \in Int,
           NEW D, IsFiniteSet(D), NEW key, \A x \in S : key[x] \in D,
           NEW h, \A d \in D : h[d] = Sum(f, {x \in S : key[x] = d})
    PROVE  Sum(h, D) = Sum(f, S)
<1> DEFINE In(T) == {x \in S : key[x] \in T}
           P == {T \in SUBSET D : Sum(h, T) = Sum(f, In(T))}
<1>1. {} \in P
  <2>1. In({}) = {}
    OBVIOUS
  <2> QED
    BY <2>1, SumNone
<1>2. ASSUME NEW T \in SUBSET D, NEW d \in T, T \ {d} \in P PROVE T \in P
  <2> DEFINE A == {x \in S : key[x] = d}
             B == In(T \ {d})
  <2>1. /\ In(T) = A \cup B /\ A \cap B = {} /\ A \in SUBSET S /\ B \in SUBSET S
    OBVIOUS
  <2>2. IsFiniteSet(A) /\ IsFiniteSet(B) /\ IsFiniteSet(T)
    BY <2>1, FS_Subset
  <2>3. \A e \in T : h[e] \in Int
    <3>1. ASSUME NEW e \in T PROVE h[e] \in Int
      <4>1. {x \in S : key[x] = e} \in SUBSET S
        OBVIOUS
      <4>2. IsFiniteSet({x \in S : key[x] = e})
        BY <4>1, FS_Subset
      <4>3. Sum(f, {x \in S : key[x] = e}) \in Int
        BY <4>1, <4>2, SumType
      <4> QED
        BY <4>3
    <3> QED
      BY <3>1
  <2>4. Sum(h, T) = h[d] + Sum(h, T \ {d})
    BY <2>2, <2>3, SumTake
  <2>5. h[d] = Sum(f, A)
    OBVIOUS
  <2>6. Sum(h, T \ {d}) = Sum(f, B)
    BY <1>2
  <2> HIDE DEF A, B, In
  <2>7. Sum(f, A \cup B) = Sum(f, A) + Sum(f, B)
    BY <2>1, <2>2, SumUnion
  <2>8. Sum(h, T) = Sum(f, In(T))
    BY <2>1, <2>4, <2>5, <2>6, <2>7
  <2> QED
    BY <2>8
<1>3. D \in P
  <2> HIDE DEF P
  <2> QED
    BY <1>1, <1>2, FiniteSteps
<1>4. In(D) = S
  OBVIOUS
<1> QED
  BY <1>3, <1>4

-----------------------------------------------------------------------------
(***************************************************************************)
(* Fares.                                                                  *)
(***************************************************************************)
LEMMA RoundedIs ==
    ASSUME NEW n \in Nat, NEW d \in Nat \ {0}
    PROVE  /\ Rounded(n, d) \in Nat
           /\ 2 * d * Rounded(n, d) <= 2 * n + d
           /\ 2 * n + d < 2 * d * Rounded(n, d) + 2 * d
<1> DEFINE m == 2 * n + d
           k == 2 * d
<1>1. m \in Nat /\ k \in Nat \ {0}
  OBVIOUS
<1> HIDE DEF m, k
<1>2. /\ m \div k \in Int /\ m % k \in 0..(k - 1)
      /\ m = k * (m \div k) + (m % k)
  BY <1>1
<1>3. m \div k >= 0
  BY <1>1, <1>2
<1>4. k * (m \div k) <= m /\ m < k * (m \div k) + k
  BY <1>1, <1>2
<1> QED
  BY <1>2, <1>3, <1>4 DEF Rounded, m, k

LEMMA TaxIs ==
    ASSUME NEW n \in Nat
    PROVE  /\ Tax(n) \in 0..n
           /\ 200 * Tax(n) <= 2 * (n * TaxPercent) + 100
           /\ 2 * (n * TaxPercent) + 100 < 200 * Tax(n) + 200
<1> DEFINE p == n * TaxPercent
<1>1. p \in Nat /\ p <= 99 * n
  BY FaresAssumption
<1> HIDE DEF p
<1>2. /\ Rounded(p, 100) \in Nat
      /\ 2 * 100 * Rounded(p, 100) <= 2 * p + 100
      /\ 2 * p + 100 < 2 * 100 * Rounded(p, 100) + 2 * 100
  BY <1>1, RoundedIs
<1> QED
  BY <1>1, <1>2 DEF Tax, p

LEMMA TaxGrows ==
    ASSUME NEW m \in Nat, NEW n \in Nat, m <= n
    PROVE  Tax(m) <= Tax(n)
<1> DEFINE p == m * TaxPercent
           q == n * TaxPercent
<1>1. p \in Nat /\ q \in Nat /\ p <= q
  BY FaresAssumption
<1>2. PICK a, b : a = Tax(m) /\ b = Tax(n)
  OBVIOUS
<1> HIDE DEF p, q
<1>3. /\ a \in Nat /\ 200 * a <= 2 * p + 100 /\ b \in Nat /\ 2 * q + 100 < 200 * b + 200
  BY <1>2, TaxIs DEF p, q
<1> QED
  BY <1>1, <1>2, <1>3

LEMMA SubtotalIsTaxed ==
    ASSUME NEW n \in Nat
    PROVE  AddsUp(TaxedSubtotal(n)) /\ TaxOf(n, TaxedSubtotal(n).tax)
<1> DEFINE p == n * TaxPercent
<1>1. p \in Nat /\ TaxPercent * n = p
  BY FaresAssumption
<1>2. PICK t : t = Tax(n)
  OBVIOUS
<1>3. t \in 0..n /\ 200 * t <= 2 * p + 100 /\ 2 * p + 100 < 200 * t + 200
  BY <1>2, TaxIs
<1> HIDE DEF p
<1>4. 2 * (100 * t - p) \in (-100)..100
  BY <1>1, <1>3
<1> QED
  BY <1>1, <1>2, <1>3, <1>4 DEF TaxedSubtotal, AddsUp, TaxOf

LEMMA TotalIsTaxed ==
    ASSUME NEW n \in Nat
    PROVE  AddsUp(FixedFare(n)) /\ TaxOf(n, FixedFare(n).tax)
<1>1. Tax(n) \in 0..n /\ TaxOf(n, Tax(n))
  BY TaxIs, SubtotalIsTaxed DEF TaxedSubtotal
<1> QED
  BY <1>1 DEF FixedFare, AddsUp

\* A longer ride never costs less: rounding keeps the order, before the tax and after.
LEMMA RoundedGrows ==
    ASSUME NEW m \in Nat, NEW n \in Nat, m <= n
    PROVE  Rounded(m, 100) <= Rounded(n, 100)
<1>1. PICK a, b : a = Rounded(m, 100) /\ b = Rounded(n, 100)
  OBVIOUS
<1>2. /\ a \in Nat /\ 2 * 100 * a <= 2 * m + 100
      /\ b \in Nat /\ 2 * n + 100 < 2 * 100 * b + 2 * 100
  BY <1>1, RoundedIs
<1> QED
  BY <1>1, <1>2

LEMMA SubtotalGrows ==
    ASSUME NEW m \in Nat, NEW n \in Nat, m <= n
    PROVE  TaxedSubtotal(m).total <= TaxedSubtotal(n).total
<1>1. Tax(m) \in Nat /\ Tax(n) \in Nat /\ Tax(m) <= Tax(n)
  BY TaxIs, TaxGrows
<1> QED
  BY <1>1 DEF TaxedSubtotal

LEMMA MeterIsTaxed ==
    ASSUME NEW n \in Nat, NEW multiplier \in {5, 10, 13, 15}
    PROVE  LET policy == [base |-> n, perKm |-> 7, perMin |-> 3]
               f == MeterFare(policy, 9, 5, multiplier)
           IN  /\ AddsUp(f) /\ TaxOf(f.subtotal, f.tax)
               /\ MeterFare(policy, 10, 5, multiplier).total >= f.total
               /\ MeterFare(policy, 9, 6, multiplier).total >= f.total
<1> DEFINE policy == [base |-> n, perKm |-> 7, perMin |-> 3]
           Metered(x) == (10 * n + x) * multiplier
           Sub(x) == Rounded(Metered(x), 100)
<1>1. /\ MeterFare(policy, 9, 5, multiplier) = TaxedSubtotal(Sub(78))
      /\ MeterFare(policy, 10, 5, multiplier) = TaxedSubtotal(Sub(85))
      /\ MeterFare(policy, 9, 6, multiplier) = TaxedSubtotal(Sub(81))
  <2>1. /\ 10 * policy.base + policy.perKm * 9 + policy.perMin * 5 = 10 * n + 78
        /\ 10 * policy.base + policy.perKm * 10 + policy.perMin * 5 = 10 * n + 85
        /\ 10 * policy.base + policy.perKm * 9 + policy.perMin * 6 = 10 * n + 81
    OBVIOUS
  <2> HIDE DEF policy
  <2> QED
    BY <2>1 DEF MeterFare
<1>2. /\ Metered(78) \in Nat /\ Metered(81) \in Nat /\ Metered(85) \in Nat
      /\ Metered(78) <= Metered(81) /\ Metered(78) <= Metered(85)
  OBVIOUS
<1> HIDE DEF policy, Metered
<1>3. /\ Sub(78) \in Nat /\ Sub(81) \in Nat /\ Sub(85) \in Nat
      /\ Sub(78) <= Sub(81) /\ Sub(78) <= Sub(85)
  BY <1>2, RoundedIs, RoundedGrows
<1> HIDE DEF Sub
<1>4. TaxedSubtotal(Sub(78)).subtotal = Sub(78)
  BY DEF TaxedSubtotal
<1>5. /\ TaxedSubtotal(Sub(78)).total \in Int /\ TaxedSubtotal(Sub(81)).total \in Int
      /\ TaxedSubtotal(Sub(85)).total \in Int
  BY <1>3, TaxIs DEF TaxedSubtotal
<1>6. /\ AddsUp(TaxedSubtotal(Sub(78))) /\ TaxOf(Sub(78), TaxedSubtotal(Sub(78)).tax)
      /\ TaxedSubtotal(Sub(81)).total >= TaxedSubtotal(Sub(78)).total
      /\ TaxedSubtotal(Sub(85)).total >= TaxedSubtotal(Sub(78)).total
  BY <1>3, <1>5, SubtotalIsTaxed, SubtotalGrows
<1> QED
  BY <1>1, <1>4, <1>6 DEF policy

\* Base and tax are rounded apart from each other, and both upwards only if both are
\* half a cent, which neither 110 nor 114 allows.
LEMMA DerivedIsRight ==
    ASSUME NEW n \in Nat, NEW rate \in {10, 14}
    PROVE  /\ AddsUp(Derived(n, rate))
           /\ 2 * (Derived(n, rate).tax * (100 + rate) - n * rate) \in (-114)..114
<1>1. PICK s, t : s = Rounded(n * 100, 100 + rate) /\ t = Rounded(n * rate, 100 + rate)
  OBVIOUS
<1>2. /\ s \in Nat /\ 2 * (100 + rate) * s <= 2 * (n * 100) + (100 + rate)
      /\ 2 * (n * 100) + (100 + rate) < 2 * (100 + rate) * s + 2 * (100 + rate)
  BY <1>1, RoundedIs
<1>3. /\ t \in Nat /\ 2 * (100 + rate) * t <= 2 * (n * rate) + (100 + rate)
      /\ 2 * (n * rate) + (100 + rate) < 2 * (100 + rate) * t + 2 * (100 + rate)
  <2>1. n * rate \in Nat /\ 100 + rate \in Nat \ {0}
    OBVIOUS
  <2> QED
    BY <1>1, <2>1, RoundedIs
<1>4. s + t = n /\ 2 * (t * (100 + rate) - n * rate) \in (-114)..114
  <2>1. CASE rate = 10
    BY <1>2, <1>3, <2>1
  <2>2. CASE rate = 14
    BY <1>2, <1>3, <2>2
  <2> QED
    BY <2>1, <2>2
<1> QED
  BY <1>1, <1>2, <1>3, <1>4 DEF Derived, AddsUp

LEMMA FaresAddUpAlways == FaresAddUp
<1> SUFFICES ASSUME NEW n \in Money
    PROVE  /\ AddsUp(CustomFare(n)) /\ TaxOf(n, CustomFare(n).tax)
           /\ AddsUp(FixedFare(n)) /\ TaxOf(n, FixedFare(n).tax)
           /\ \A day \in 0..2, hasFare \in BOOLEAN :
               LET row == ExportAmounts(CustomFare(n), hasFare, n, VatRate(day, 2))
                   rate == IF day = 1 THEN 10 ELSE 14
               IN  /\ AddsUp(row)
                   /\ hasFare \/ 2 * (row.tax * (100 + rate) - n * rate) \in (-114)..114
  <2>1. \A n \in Money : n \in Nat
    BY FaresAssumption DEF Money
  <2> QED
    BY <2>1, MeterIsTaxed DEF FaresAddUp
<1>1. n \in Nat
  BY FaresAssumption DEF Money
<1>2. AddsUp(CustomFare(n)) /\ TaxOf(n, CustomFare(n).tax)
  BY <1>1, SubtotalIsTaxed DEF CustomFare
<1>3. ASSUME NEW day \in 0..2, NEW hasFare \in BOOLEAN
      PROVE  LET row == ExportAmounts(CustomFare(n), hasFare, n, VatRate(day, 2))
                 rate == IF day = 1 THEN 10 ELSE 14
             IN  /\ AddsUp(row)
                 /\ hasFare \/ 2 * (row.tax * (100 + rate) - n * rate) \in (-114)..114
  <2> DEFINE rate == IF day = 1 THEN 10 ELSE 14
  <2>1. VatRate(day, 2) = rate /\ rate \in {10, 14}
    BY DEF VatRate
  <2> HIDE DEF rate
  <2>2. CASE hasFare
    BY <1>2, <2>1, <2>2 DEF ExportAmounts
  <2>3. CASE ~hasFare
    <3>1. ExportAmounts(CustomFare(n), hasFare, n, rate) = Derived(n, rate)
      BY <2>3 DEF ExportAmounts
    <3> QED
      BY <1>1, <2>1, <3>1, DerivedIsRight DEF rate
  <2> QED
    BY <2>2, <2>3 DEF rate
<1> QED
  BY <1>1, <1>2, <1>3, TotalIsTaxed

-----------------------------------------------------------------------------
\* Around the clock: how long ago a was, and when it comes next.
LEMMA AroundTheClock ==
    ASSUME NEW x \in Int, -DayLength < x, x < DayLength
    PROVE  x % DayLength = IF x >= 0 THEN x ELSE x + DayLength
<1>1. DayLength \in Nat \ {0}
  BY FaresAssumption
<1> DEFINE y == IF x >= 0 THEN x ELSE x + DayLength
           q == x \div DayLength
           m == x % DayLength
<1>2. q \in Int /\ m \in 0..(DayLength - 1) /\ x = DayLength * q + m
  BY <1>1
<1> HIDE DEF q, m
<1>3. q = IF x >= 0 THEN 0 ELSE -1
  BY <1>1, <1>2
<1> QED
  BY <1>1, <1>2, <1>3 DEF m

LEMMA WindowCovers ==
    ASSUME NEW a \in Minutes, NEW b \in Minutes, NEW now \in Minutes, NEW w,
           w.start = a, w.end = b
    PROVE  InWindow(w, now) <=> (now - a) % DayLength < (b - a) % DayLength
<1>1. /\ DayLength \in Nat \ {0} /\ a \in 0..(DayLength - 1) /\ b \in 0..(DayLength - 1)
      /\ now \in 0..(DayLength - 1)
  BY FaresAssumption DEF Minutes
<1>2. (now - a) % DayLength = IF now >= a THEN now - a ELSE (now - a) + DayLength
  BY <1>1, AroundTheClock
<1>3. (b - a) % DayLength = IF b >= a THEN b - a ELSE (b - a) + DayLength
  BY <1>1, AroundTheClock
<1> QED
  BY <1>1, <1>2, <1>3 DEF InWindow

LEMMA SurchargeAlways == SurchargeHolds
<1> SUFFICES ASSUME NEW s \in Minutes, NEW e \in Minutes, NEW s2 \in Minutes,
                    NEW e2 \in Minutes, NEW now \in Minutes
    PROVE  LET Covers(a, b) == (now - a) % DayLength < (b - a) % DayLength
               windows == <<[start |-> s, end |-> e, multiplier |-> 13],
                            [start |-> s2, end |-> e2, multiplier |-> 15]>>
           IN  Multiplier(windows, now) = IF Covers(s, e) THEN 13
                                          ELSE IF Covers(s2, e2) THEN 15 ELSE 10
  BY DEF SurchargeHolds
<1> DEFINE Covers(a, b) == (now - a) % DayLength < (b - a) % DayLength
           windows == <<[start |-> s, end |-> e, multiplier |-> 13],
                        [start |-> s2, end |-> e2, multiplier |-> 15]>>
           holding == {i \in DOMAIN windows : InWindow(windows[i], now)
                                              /\ windows[i].multiplier > 0}
           first == CHOOSE i \in holding : \A j \in holding : i <= j
<1>1. /\ InWindow(windows[1], now) <=> Covers(s, e)
      /\ InWindow(windows[2], now) <=> Covers(s2, e2)
  BY WindowCovers
<1>2. /\ DOMAIN windows = {1, 2}
      /\ windows[1].multiplier = 13 /\ windows[2].multiplier = 15
  OBVIOUS
<1> HIDE DEF windows, Covers
<1>3. Multiplier(windows, now) = IF holding = {} THEN 10 ELSE windows[first].multiplier
  BY DEF Multiplier
<1>4. 1 \in holding <=> Covers(s, e)
  BY <1>1, <1>2
<1>5. 2 \in holding <=> Covers(s2, e2)
  BY <1>1, <1>2
<1>6. holding \subseteq {1, 2}
  BY <1>2
<1> HIDE DEF holding
<1>7. CASE Covers(s, e)
  <2>1. 1 \in holding /\ \A j \in holding : 1 <= j
    BY <1>4, <1>6, <1>7
  <2>2. \A i \in holding : (\A j \in holding : i <= j) => i = 1
    BY <1>6, <2>1
  <2>3. first = 1
    BY <2>1, <2>2
  <2> QED
    BY <1>2, <1>3, <1>7, <2>1, <2>3 DEF windows, Covers
<1>8. CASE ~Covers(s, e) /\ Covers(s2, e2)
  <2>1. holding = {2}
    BY <1>4, <1>5, <1>6, <1>8
  <2>2. first = 2
    BY <2>1
  <2> QED
    BY <1>2, <1>3, <1>8, <2>1, <2>2 DEF windows, Covers
<1>9. CASE ~Covers(s, e) /\ ~Covers(s2, e2)
  <2>1. holding = {}
    BY <1>4, <1>5, <1>6, <1>9
  <2> QED
    BY <1>3, <1>9, <2>1 DEF windows, Covers
<1> QED
  BY <1>7, <1>8, <1>9

LEMMA FaresAreMoney ==
    ASSUME NEW a \in Amounts
    PROVE  a.total \in Nat /\ a.subtotal \in Nat /\ AddsUp(a)
<1>1. PICK n \in 0..a.total : a \in {TaxedSubtotal(n), FixedFare(n)}
  BY AmountsAssumption
<1>2. n \in Nat
  OBVIOUS
<1>3. Tax(n) \in 0..n
  BY <1>2, TaxIs
<1> QED
  BY <1>1, <1>2, <1>3 DEF TaxedSubtotal, FixedFare, AddsUp

-----------------------------------------------------------------------------
(***************************************************************************)
(* The tables.                                                             *)
(***************************************************************************)
\* What the columns of a row say of each other, and of what requests have read.
Linked(ride, payment, s) ==
    /\ ride = NoRide => payment.status = "NONE" /\ s = Unseen
    /\ ride # NoRide => ride.status # "NONE" /\ ride.driver # None /\ ride.started # 0
    /\ s.since <= ride.started
    /\ ride.ended = 0 => ride.fare = NoFare /\ s.fares = {}
    /\ ride.ended # 0 => s.since # 0 /\ s.since <= ride.ended
    /\ payment.status = "NONE" => payment = NoPayment /\ ~s.pending
    /\ payment.status # "NONE" => payment.created # 0
    /\ payment.status = "PAID" => payment.captured # 0
    /\ payment.captured # 0 => payment.created <= payment.captured

Tables ==
    /\ rides \in [Rides -> RideRow] /\ payments \in [Rides -> PaymentRow]
    /\ seen \in [Rides -> Seen] /\ hired \subseteq Drivers
    /\ clock \in Times /\ writes \in 0..MaxWrites
    /\ \A r \in Rides : Linked(rides[r], payments[r], seen[r])

\* A write changes one ride and its payment, and the report has heard of it.
Moved(r) ==
    /\ Tables /\ Tables'
    /\ UNCHANGED <<hired, clock>>
    /\ \A x \in Rides \ {r} : rides'[x] = rides[x] /\ payments'[x] = payments[x]

\* What a write does to the report: it is sent, or it counts the writes.
Sent == report' = NoReport
Counted(n) == report.todo # {} /\ report' = [report EXCEPT !.writes = @ + n]
Meanwhile(n) == (report.todo = {} /\ Sent) \/ Counted(n)

LEMMA ClockIs == Tables => clock \in Nat /\ clock # 0 /\ clock <= MaxTime /\ MaxTime \in Nat
BY ReportsAssumption DEF Tables, Times

LEMMA WrittenIs ==
    ASSUME Written, writes \in 0..MaxWrites
    PROVE  UNCHANGED clock /\ writes' \in 0..MaxWrites /\ Meanwhile(1)
<1>1. MaxWrites \in Nat
  BY ReportsAssumption
<1> QED
  BY <1>1 DEF Written, Meanwhile, Sent, Counted

LEMMA RowMoves ==
    ASSUME Tables, NEW r \in Rides, NEW ride \in RideRow, NEW payment \in PaymentRow,
           NEW s \in Seen, Linked(ride, payment, s), Written, UNCHANGED hired,
           rides' = [rides EXCEPT ![r] = ride],
           payments' = [payments EXCEPT ![r] = payment],
           seen' = [seen EXCEPT ![r] = s]
    PROVE  Moved(r) /\ Meanwhile(1)
<1>1. UNCHANGED clock /\ writes' \in 0..MaxWrites /\ Meanwhile(1)
  BY WrittenIs DEF Tables
<1>2. RideRow' = RideRow /\ PaymentRow' = PaymentRow /\ Seen' = Seen
  BY <1>1 DEF RideRow, PaymentRow, Seen
<1>3. /\ rides' \in [Rides -> RideRow'] /\ payments' \in [Rides -> PaymentRow']
      /\ seen' \in [Rides -> Seen']
  BY <1>2 DEF Tables
<1>4. /\ rides'[r] = ride /\ payments'[r] = payment /\ seen'[r] = s
      /\ \A x \in Rides \ {r} : rides'[x] = rides[x] /\ payments'[x] = payments[x] /\ seen'[x] = seen[x]
  BY DEF Tables
<1>5. \A x \in Rides : Linked(rides'[x], payments'[x], seen'[x])
  <2> SUFFICES ASSUME NEW x \in Rides PROVE Linked(rides'[x], payments'[x], seen'[x])
    OBVIOUS
  <2>1. CASE x = r
    BY <1>4, <2>1
  <2>2. CASE x # r
    BY <1>4, <2>2 DEF Tables
  <2> QED
    BY <2>1, <2>2
<1>6. Tables'
  BY <1>1, <1>3, <1>5 DEF Tables
<1> QED
  BY <1>1, <1>4, <1>6 DEF Moved

\* The columns of the rows.
LEMMA RowsAre ==
    ASSUME Tables, NEW r \in Rides
    PROVE  LET ride == rides[r]  payment == payments[r]  s == seen[r]
           IN  /\ ride \in RideRow /\ payment \in PaymentRow /\ s \in Seen
               /\ Linked(ride, payment, s)
               /\ clock \in Nat /\ clock # 0 /\ clock \in 0..clock
               /\ s.since \in 0..clock /\ s.fares \subseteq Amounts
BY ClockIs DEF Tables, Seen

\* Some columns of a row are set, the others are kept.
LEMMA PromotedIs ==
    ASSUME NEW ride \in RideRow, NEW a, NEW b
    PROVE  [ride EXCEPT !.status = a, !.started = b] =
              [status |-> a, driver |-> ride.driver, started |-> b,
               ended |-> ride.ended, fare |-> ride.fare]
<1>1. PICK p : p = [ride EXCEPT !.status = a]
  OBVIOUS
<1>2. p = [status |-> a, driver |-> ride.driver, started |-> ride.started,
          ended |-> ride.ended, fare |-> ride.fare]
  BY <1>1 DEF RideRow
<1>3. [p EXCEPT !.started = b] = [status |-> a, driver |-> ride.driver, started |-> b,
          ended |-> ride.ended, fare |-> ride.fare]
  BY <1>2
<1> QED
  BY <1>1, <1>3

LEMMA EndIs ==
    ASSUME NEW ride \in RideRow, NEW b, NEW c
    PROVE  End(ride, c, b) =
              [status |-> "COMPLETED", driver |-> ride.driver, started |-> ride.started,
               ended |-> b, fare |-> c]
<1>1. PICK p : p = [ride EXCEPT !.status = "COMPLETED"]
  OBVIOUS
<1>2. p = [status |-> "COMPLETED", driver |-> ride.driver, started |-> ride.started,
          ended |-> ride.ended, fare |-> ride.fare]
  BY <1>1 DEF RideRow
<1>3. PICK q : q = [p EXCEPT !.ended = b]
  OBVIOUS
<1>4. q = [status |-> "COMPLETED", driver |-> ride.driver, started |-> ride.started,
          ended |-> b, fare |-> ride.fare]
  BY <1>3, <1>2
<1>5. [q EXCEPT !.fare = c] = [status |-> "COMPLETED", driver |-> ride.driver,
          started |-> ride.started, ended |-> b, fare |-> c]
  BY <1>4
<1> QED
  BY <1>1, <1>3, <1>5 DEF End

LEMMA BillAgainIs ==
    ASSUME NEW payment \in PaymentRow, NEW fare
    PROVE  BillAgain(payment, fare) =
              [status |-> "PENDING", provider |-> payment.provider, amount |-> fare.total,
               net |-> fare.subtotal, created |-> payment.created,
               captured |-> payment.captured]
<1>1. PICK p : p = [payment EXCEPT !.status = "PENDING"]
  OBVIOUS
<1>2. p = [status |-> "PENDING", provider |-> payment.provider, amount |-> payment.amount,
          net |-> payment.net, created |-> payment.created,
          captured |-> payment.captured]
  BY <1>1 DEF PaymentRow
<1>3. PICK q : q = [p EXCEPT !.amount = fare.total]
  OBVIOUS
<1>4. q = [status |-> "PENDING", provider |-> payment.provider, amount |-> fare.total,
          net |-> payment.net, created |-> payment.created,
          captured |-> payment.captured]
  BY <1>3, <1>2
<1>5. [q EXCEPT !.net = fare.subtotal] =
          [status |-> "PENDING", provider |-> payment.provider, amount |-> fare.total,
           net |-> fare.subtotal, created |-> payment.created, captured |-> payment.captured]
  BY <1>4
<1> QED
  BY <1>1, <1>3, <1>5 DEF BillAgain

LEMMA CaptureIs ==
    ASSUME NEW payment \in PaymentRow, NEW v
    PROVE  Capture(payment, v) =
              [status |-> "PAID", provider |-> v, amount |-> payment.amount,
               net |-> payment.net, created |-> payment.created, captured |-> clock]
<1>1. PICK p : p = [payment EXCEPT !.status = "PAID"]
  OBVIOUS
<1>2. p = [status |-> "PAID", provider |-> payment.provider, amount |-> payment.amount,
          net |-> payment.net, created |-> payment.created,
          captured |-> payment.captured]
  BY <1>1 DEF PaymentRow
<1>3. PICK q : q = [p EXCEPT !.captured = clock]
  OBVIOUS
<1>4. q = [status |-> "PAID", provider |-> payment.provider, amount |-> payment.amount,
          net |-> payment.net, created |-> payment.created, captured |-> clock]
  BY <1>3, <1>2
<1>5. [q EXCEPT !.provider = v] = [status |-> "PAID", provider |-> v,
          amount |-> payment.amount, net |-> payment.net, created |-> payment.created,
          captured |-> clock]
  BY <1>4
<1> QED
  BY <1>1, <1>3, <1>5 DEF Capture

LEMMA EndedIs ==
    ASSUME NEW s \in Seen, NEW a
    PROVE  [s EXCEPT !.fares = a] = [draft |-> s.draft, since |-> s.since, fares |-> a,
                                     pending |-> s.pending]
BY DEF Seen

LEMMA UpdatedIs ==
    ASSUME NEW payment \in PaymentRow, NEW a, NEW b
    PROVE  [payment EXCEPT !.amount = a, !.provider = b] =
              [status |-> payment.status, provider |-> b, amount |-> a,
               net |-> payment.net, created |-> payment.created,
               captured |-> payment.captured]
<1>1. PICK p : p = [payment EXCEPT !.amount = a]
  OBVIOUS
<1>2. p = [status |-> payment.status, provider |-> payment.provider, amount |-> a,
          net |-> payment.net, created |-> payment.created,
          captured |-> payment.captured]
  BY <1>1 DEF PaymentRow
<1>3. [p EXCEPT !.provider = b] = [status |-> payment.status, provider |-> b, amount |-> a,
          net |-> payment.net, created |-> payment.created,
          captured |-> payment.captured]
  BY <1>2
<1> QED
  BY <1>1, <1>3

LEMMA StartMoves ==
    ASSUME Tables, NEW r \in Rides, NEW d \in Drivers, NEW status \in RideStatuses,
           StartRide(r, d, status)
    PROVE  Moved(r) /\ Meanwhile(1)
<1> DEFINE ride == [status |-> status, driver |-> d, started |-> clock, ended |-> 0,
                    fare |-> NoFare]
           s == [draft |-> status = "DRAFT", since |-> IF status = "ONGOING" THEN clock ELSE 0,
                 fares |-> {}, pending |-> FALSE]
<1>1. /\ rides[r] = NoRide /\ d \in hired /\ UNCHANGED <<payments, hired>> /\ Written
      /\ rides' = [rides EXCEPT ![r] = ride]
  BY DEF StartRide
<1>2. /\ payments[r] \in PaymentRow /\ seen[r] = Unseen /\ payments[r] = NoPayment
      /\ clock \in Nat /\ clock # 0
  BY <1>1, RowsAre DEF Linked
<1>3. seen' = [seen EXCEPT ![r] = s]
  BY DEF StartRide
<1>4. payments' = [payments EXCEPT ![r] = payments[r]]
  BY <1>1 DEF Tables
<1>5. ride \in RideRow /\ s \in Seen
  BY <1>1, <1>2, ReportsAssumption DEF RideRow, Seen
<1>6. Linked(ride, payments[r], s)
  BY <1>1, <1>2, ReportsAssumption DEF Linked, NoRide, NoPayment, RideStatuses
<1> HIDE DEF ride, s
<1> QED
  BY <1>1, <1>2, <1>3, <1>4, <1>5, <1>6, RowMoves

LEMMA PromoteMoves ==
    ASSUME Tables, NEW r \in Rides, PromoteRide(r)
    PROVE  Moved(r) /\ Meanwhile(1)
<1> DEFINE old == rides[r]
           was == seen[r]
           ride == [old EXCEPT !.status = "ONGOING", !.started = clock]
           s == [was EXCEPT !.since = IF @ = 0 THEN clock ELSE @]
<1>1. /\ was.draft /\ UNCHANGED <<payments, hired>> /\ Written
      /\ rides' = [rides EXCEPT ![r] = ride] /\ seen' = [seen EXCEPT ![r] = s]
  BY DEF PromoteRide, Tables
<1>2. /\ old \in RideRow /\ was \in Seen /\ payments[r] \in PaymentRow
      /\ Linked(old, payments[r], was) /\ clock \in Nat /\ clock # 0
  BY RowsAre
<1>3. payments' = [payments EXCEPT ![r] = payments[r]]
  BY <1>1 DEF Tables
<1>4. /\ ride = [status |-> "ONGOING", driver |-> old.driver, started |-> clock,
                 ended |-> old.ended, fare |-> old.fare]
      /\ s = [draft |-> was.draft, since |-> IF was.since = 0 THEN clock ELSE was.since,
              fares |-> was.fares, pending |-> was.pending]
  <2>1. ride = [status |-> "ONGOING", driver |-> old.driver, started |-> clock,
              ended |-> old.ended, fare |-> old.fare]
    BY ONLY <1>2, PromotedIs
  <2>2. s = [draft |-> was.draft, since |-> IF was.since = 0 THEN clock ELSE was.since,
            fares |-> was.fares, pending |-> was.pending]
    BY <1>2 DEF Seen
  <2> QED
    BY <2>1, <2>2
<1>5. ride \in RideRow /\ s \in Seen
  BY <1>2, <1>4 DEF RideRow, Seen, RideStatuses
<1>6. old # NoRide
  BY <1>1, <1>2 DEF Linked, Unseen
<1>7. was.since \in 0..clock
  BY <1>2 DEF Seen
<1>8. Linked(ride, payments[r], s)
  BY <1>2, <1>4, <1>6, <1>7 DEF Linked, NoRide
<1> HIDE DEF ride, s
<1> QED
  BY <1>1, <1>2, <1>3, <1>5, <1>8, RowMoves

LEMMA CompleteMoves ==
    ASSUME Tables, NEW r \in Rides, NEW fare \in Amounts, NEW ended \in Times,
           CompleteRide(r, fare, ended)
    PROVE  Moved(r) /\ Meanwhile(1)
<1> DEFINE old == rides[r]
           was == seen[r]
           ride == End(old, fare, ended)
           s == [was EXCEPT !.fares = @ \cup {fare}]
<1>1. /\ was.since # 0 /\ was.since <= ended /\ UNCHANGED <<payments, hired>> /\ Written
      /\ rides' = [rides EXCEPT ![r] = ride] /\ seen' = [seen EXCEPT ![r] = s]
  BY DEF CompleteRide, Tables
<1>2. /\ old \in RideRow /\ was \in Seen /\ payments[r] \in PaymentRow
      /\ Linked(old, payments[r], was) /\ clock \in Nat /\ clock # 0
  BY RowsAre
<1>3. payments' = [payments EXCEPT ![r] = payments[r]]
  BY <1>1 DEF Tables
<1>4. /\ ride = [status |-> "COMPLETED", driver |-> old.driver, started |-> old.started,
                 ended |-> ended, fare |-> fare]
      /\ s = [draft |-> was.draft, since |-> was.since,
              fares |-> was.fares \cup {fare}, pending |-> was.pending]
  <2>1. ride = [status |-> "COMPLETED", driver |-> old.driver, started |-> old.started,
              ended |-> ended, fare |-> fare]
    BY <1>2, EndIs
  <2>2. s = [draft |-> was.draft, since |-> was.since,
            fares |-> was.fares \cup {fare}, pending |-> was.pending]
    BY <1>2, EndedIs
  <2> QED
    BY <2>1, <2>2
<1>5. ended \in 0..MaxTime /\ ended # 0
  BY DEF Times
<1>6. ride \in RideRow /\ s \in Seen
  BY <1>2, <1>4, <1>5 DEF RideRow, Seen, RideStatuses
<1>7. old # NoRide
  BY <1>1, <1>2 DEF Linked, Unseen
<1>8. Linked(ride, payments[r], s)
  BY <1>1, <1>2, <1>4, <1>5, <1>7 DEF Linked, NoRide
<1> HIDE DEF ride, s
<1> QED
  BY <1>1, <1>2, <1>3, <1>6, <1>8, RowMoves

\* A write of a payment leaves its ride alone.
LEMMA PaymentMoves ==
    ASSUME Tables, NEW r \in Rides, NEW payment \in PaymentRow, NEW pending \in BOOLEAN,
           WritePayment(r, payment, pending), rides[r] # NoRide,
           payment.status = "NONE" => payment = NoPayment /\ ~pending,
           payment.status # "NONE" => payment.created # 0,
           payment.status = "PAID" => payment.captured # 0,
           payment.captured # 0 => payment.created <= payment.captured
    PROVE  Moved(r) /\ Meanwhile(1)
<1> DEFINE was == seen[r]
           s == [was EXCEPT !.pending = pending]
<1>1. /\ UNCHANGED <<rides, hired>> /\ Written
      /\ payments' = [payments EXCEPT ![r] = payment] /\ seen' = [seen EXCEPT ![r] = s]
  BY DEF WritePayment, Tables
<1>2. /\ rides[r] \in RideRow /\ was \in Seen /\ Linked(rides[r], payments[r], was)
  BY RowsAre
<1>3. rides' = [rides EXCEPT ![r] = rides[r]]
  BY <1>1 DEF Tables
<1>4. s = [draft |-> was.draft, since |-> was.since, fares |-> was.fares, pending |-> pending]
  BY <1>2 DEF Seen
<1>5. s \in Seen
  BY <1>2, <1>4 DEF Seen
<1>6. Linked(rides[r], payment, s)
  BY <1>2, <1>4 DEF Linked
<1> HIDE DEF s
<1> QED
  BY <1>1, <1>2, <1>3, <1>5, <1>6, RowMoves

LEMMA BillMoves ==
    ASSUME Tables, NEW r \in Rides, NEW fare \in Amounts, BillRide(r, fare)
    PROVE  Moved(r) /\ Meanwhile(1)
<1> DEFINE old == payments[r]
           payment == IF Exists(r) THEN BillAgain(old, fare) ELSE Bill(fare, clock)
<1>1. fare \in seen[r].fares /\ WritePayment(r, payment, TRUE)
  BY DEF BillRide
<1>2. /\ old \in PaymentRow /\ Linked(rides[r], old, seen[r]) /\ clock \in Nat /\ clock # 0
  BY RowsAre
<1>3. rides[r] # NoRide
  BY <1>1, <1>2 DEF Linked, Unseen
<1>4. fare.total \in Int /\ fare.subtotal \in Nat
  BY FaresAreMoney
<1>5. payment = IF Exists(r)
        THEN [status |-> "PENDING", provider |-> old.provider, amount |-> fare.total,
              net |-> fare.subtotal, created |-> old.created, captured |-> old.captured]
        ELSE [status |-> "PENDING", provider |-> "VIVA", amount |-> fare.total,
              net |-> fare.subtotal, created |-> clock, captured |-> 0]
  BY <1>2, BillAgainIs DEF Bill
<1>6. payment \in PaymentRow
  BY <1>2, <1>4, <1>5 DEF PaymentRow, Statuses, Providers
<1>7. /\ payment.status = "PENDING" /\ payment.created # 0
      /\ payment.captured # 0 => payment.created <= payment.captured
  BY <1>2, <1>5 DEF Linked, Exists
<1> HIDE DEF payment
<1> QED
  BY <1>1, <1>3, <1>6, <1>7, PaymentMoves

LEMMA SettleMoves ==
    ASSUME Tables, NEW r \in Rides, NEW v \in {payments[r].provider, "CASH"}, SettleRide(r, v)
    PROVE  Moved(r) /\ Meanwhile(1)
<1> DEFINE old == payments[r]
           payment == Capture(old, v)
<1>1. seen[r].pending /\ WritePayment(r, payment, TRUE)
  BY DEF SettleRide
<1>2. /\ old \in PaymentRow /\ Linked(rides[r], old, seen[r]) /\ clock \in Nat /\ clock # 0
  BY RowsAre
<1>3. rides[r] # NoRide /\ old.status # "NONE"
  BY <1>1, <1>2 DEF Linked, Unseen
<1>4. payment = [status |-> "PAID", provider |-> v, amount |-> old.amount,
                 net |-> old.net, created |-> old.created, captured |-> clock]
  BY <1>2, CaptureIs
<1>5. payment \in PaymentRow
  BY <1>2, <1>4 DEF PaymentRow, Statuses, Providers
<1>6. /\ payment.status = "PAID" /\ payment.created # 0 /\ payment.captured # 0
      /\ payment.created <= payment.captured
  BY <1>2, <1>3, <1>4 DEF Linked, PaymentRow
<1> HIDE DEF payment
<1> QED
  BY <1>1, <1>3, <1>5, <1>6, PaymentMoves

LEMMA AdminMoves ==
    ASSUME Tables, NEW r \in Rides,
           \/ \E amount \in AdminAmounts : AdminCreate(r, amount)
           \/ \E amount \in AdminAmounts \cup {payments[r].amount},
                 v \in {payments[r].provider, "CASH"} : AdminUpdate(r, amount, v)
           \/ AdminDelete(r)
    PROVE  Moved(r) /\ Meanwhile(1)
<1> DEFINE old == payments[r]
<1>1. /\ old \in PaymentRow /\ seen[r] \in Seen /\ Linked(rides[r], old, seen[r])
      /\ clock \in Nat /\ clock # 0
  BY RowsAre
<1>2. Exists(r) => rides[r] # NoRide
  BY <1>1 DEF Linked, Exists
<1>3. ASSUME NEW amount \in AdminAmounts, AdminCreate(r, amount) PROVE Moved(r) /\ Meanwhile(1)
  <2> DEFINE payment == [status |-> "PAID", provider |-> "CASH", amount |-> amount, net |-> 0,
                         created |-> clock, captured |-> clock]
  <2>1. rides[r] # NoRide /\ WritePayment(r, payment, FALSE)
    BY <1>3 DEF AdminCreate
  <2>2. payment \in PaymentRow
    BY <1>1, ReportsAssumption DEF PaymentRow, Statuses, Providers
  <2>3. /\ payment.status = "PAID" /\ payment.created # 0 /\ payment.captured # 0
        /\ payment.created <= payment.captured
    BY <1>1
  <2> HIDE DEF payment
  <2> QED
    BY <2>1, <2>2, <2>3, PaymentMoves
<1>4. ASSUME NEW amount \in AdminAmounts \cup {old.amount}, NEW v \in {old.provider, "CASH"},
             AdminUpdate(r, amount, v)
      PROVE  Moved(r) /\ Meanwhile(1)
  <2> DEFINE payment == [old EXCEPT !.amount = amount, !.provider = v]
  <2>1. Exists(r) /\ WritePayment(r, payment, seen[r].pending)
    BY <1>4 DEF AdminUpdate
  <2>2. payment = [status |-> old.status, provider |-> v, amount |-> amount,
                   net |-> old.net, created |-> old.created, captured |-> old.captured]
    BY ONLY <1>1, UpdatedIs
  <2>3. payment \in PaymentRow /\ seen[r].pending \in BOOLEAN
    BY <1>1, <2>2, ReportsAssumption DEF PaymentRow, Statuses, Providers, Seen
  <2>4. /\ payment.status # "NONE" /\ payment.created # 0
        /\ payment.status = "PAID" => payment.captured # 0
        /\ payment.captured # 0 => payment.created <= payment.captured
    BY <1>1, <2>1, <2>2 DEF Linked, Exists
  <2> HIDE DEF payment
  <2> QED
    BY <1>2, <2>1, <2>3, <2>4, PaymentMoves
<1>5. CASE AdminDelete(r)
  <2>1. Exists(r) /\ WritePayment(r, NoPayment, FALSE)
    BY <1>5 DEF AdminDelete
  <2>2. NoPayment \in PaymentRow
    BY <1>1 DEF NoPayment, PaymentRow, Statuses, Providers
  <2>3. NoPayment.status = "NONE" /\ NoPayment.captured = 0
    BY DEF NoPayment
  <2> QED
    BY <1>2, <2>1, <2>2, <2>3, PaymentMoves
<1> QED
  BY <1>3, <1>4, <1>5

\* The writes of rides and payments, together.
WritesOf(r) ==
    \/ \E d \in Drivers, status \in RideStatuses : StartRide(r, d, status)
    \/ PromoteRide(r)
    \/ \E fare \in Amounts, ended \in Times : CompleteRide(r, fare, ended)
    \/ \E fare \in Amounts : BillRide(r, fare)
    \/ \E v \in {payments[r].provider, "CASH"} : SettleRide(r, v)
    \/ \E amount \in AdminAmounts : AdminCreate(r, amount)
    \/ \E amount \in AdminAmounts \cup {payments[r].amount},
         v \in {payments[r].provider, "CASH"} : AdminUpdate(r, amount, v)
    \/ AdminDelete(r)

LEMMA WriteMoves ==
    ASSUME Tables, NEW r \in Rides, WritesOf(r)
    PROVE  Moved(r) /\ Meanwhile(1)
BY StartMoves, PromoteMoves, CompleteMoves, BillMoves, SettleMoves, AdminMoves DEF WritesOf

LEMMA HireIs ==
    ASSUME Tables, NEW d \in Drivers, Hire(d)
    PROVE  Tables' /\ hired \subseteq hired' /\ UNCHANGED <<rides, payments, clock>> /\ Meanwhile(1)
<1>1. /\ hired' = hired \cup {d} /\ UNCHANGED <<rides, payments, seen>> /\ Written
  BY DEF Hire
<1>2. UNCHANGED clock /\ writes' \in 0..MaxWrites /\ Meanwhile(1)
  BY <1>1, WrittenIs DEF Tables
<1>3. RideRow \subseteq RideRow' /\ PaymentRow' = PaymentRow /\ Seen' = Seen
  BY <1>1, <1>2 DEF RideRow, PaymentRow, Seen
<1>4. rides' \in [Rides -> RideRow']
  BY <1>1, <1>3 DEF Tables
<1> QED
  BY <1>1, <1>2, <1>3, <1>4 DEF Tables

LEMMA TickIs ==
    ASSUME Tables, Tick
    PROVE  Tables' /\ UNCHANGED tables /\ (Sent \/ UNCHANGED report)
<1>1. UNCHANGED <<rides, payments, seen, hired, writes>> /\ clock < MaxTime /\ clock' = clock + 1
  BY DEF Tick, tables
<1>2. clock \in Nat /\ clock' \in Times /\ 0..clock \subseteq 0..clock'
  BY <1>1, ClockIs DEF Times
<1>3. RideRow \subseteq RideRow' /\ PaymentRow \subseteq PaymentRow' /\ Seen \subseteq Seen'
  BY <1>1, <1>2 DEF RideRow, PaymentRow, Seen
<1>4. /\ rides' \in [Rides -> RideRow'] /\ payments' \in [Rides -> PaymentRow']
      /\ seen' \in [Rides -> Seen']
  BY <1>1, <1>3 DEF Tables
<1>5. Tables'
  BY <1>1, <1>2, <1>4 DEF Tables
<1> QED
  BY <1>1, <1>5 DEF Tick, tables, Sent


-----------------------------------------------------------------------------
(***************************************************************************)
(* The report in progress.                                                 *)
(***************************************************************************)
Fields ==
    [overview  |-> {"countsByProvider", "countsByStatus", "count"},
     methods   |-> {"payments", "rides"},
     drivers   |-> {"stats", "drivers"},
     dashboard |-> {"rides", "completed", "cancelled", "ongoing", "active"},
     rides     |-> {"count", "byStatus", "payments"},
     live      |-> {"list", "count"},
     history   |-> {"rides", "count"},
     today     |-> {"paid", "active"}]

\* A report is sent with some of its questions answered, in their order.
Asked ==
    /\ report = [kind |-> report.kind, from |-> report.from, to |-> report.to,
                 todo |-> report.todo, answer |-> report.answer, writes |-> report.writes]
    /\ report.writes \in Nat
    /\ report.todo \cap DOMAIN report.answer = {}
    /\ IF report.kind = "none" THEN report = NoReport
       ELSE /\ report.kind \in Kinds
            /\ report.from \in 1..report.to /\ report.to \in 1..clock
            /\ report.todo \cup DOMAIN report.answer = Fields[report.kind]
            /\ \A q \in DOMAIN report.answer : \A p \in Fields[report.kind] :
                 Precedes(report.kind, p, q) => p \in DOMAIN report.answer

LEMMA ScreenFields ==
    ASSUME NEW kind \in Kinds, NEW from, NEW to
    PROVE  DOMAIN Screen(kind, from, to) = Fields[kind]
<1>1. CASE kind = "overview"
  BY <1>1 DEF Screen, Fields
<1>2. CASE kind = "methods"
  BY <1>2 DEF Screen, Fields
<1>3. CASE kind = "drivers"
  BY <1>3 DEF Screen, Fields
<1>4. CASE kind = "dashboard"
  BY <1>4 DEF Screen, Fields
<1>5. CASE kind = "rides"
  BY <1>5 DEF Screen, Fields
<1>6. CASE kind = "live"
  BY <1>6 DEF Screen, Fields
<1>7. CASE kind = "history"
  BY <1>7 DEF Screen, Fields
<1>8. CASE kind = "today"
  BY <1>8 DEF Screen, Fields
<1> QED
  BY <1>1, <1>2, <1>3, <1>4, <1>5, <1>6, <1>7, <1>8 DEF Kinds

LEMMA MeanwhileIs ==
    ASSUME Asked, Meanwhile(1)
    PROVE  Sent \/ (Counted(1) /\ report.kind # "none")
<1>1. report.kind = "none" => report.todo = {}
  BY DEF Asked, NoReport
<1> QED
  BY <1>1 DEF Meanwhile, Sent, Counted

LEMMA SentIsAsked == ASSUME Sent PROVE Asked'
BY DEF Sent, Asked, NoReport

\* A report stays what it is, but for its answers and the number of writes.
Keeps ==
    /\ report.kind # "none" /\ report'.kind = report.kind
    /\ report'.from = report.from /\ report'.to = report.to

LEMMA CountedIsAsked ==
    ASSUME Asked, Counted(1), report.kind # "none", UNCHANGED clock
    PROVE  /\ Asked' /\ Keeps /\ report'.todo = report.todo
           /\ report'.answer = report.answer /\ report'.writes = report.writes + 1
<1>1. /\ Keeps /\ report'.todo = report.todo
      /\ report'.answer = report.answer /\ report'.writes = report.writes + 1
      /\ report' = [kind |-> report'.kind, from |-> report'.from, to |-> report'.to,
                    todo |-> report'.todo, answer |-> report'.answer, writes |-> report'.writes]
  BY DEF Asked, Counted, Keeps
<1>2. report'.writes \in Nat
  BY <1>1 DEF Asked
<1> QED
  BY <1>1, <1>2 DEF Asked, Keeps

LEMMA BegunIsAsked ==
    ASSUME Tables, NEW kind \in Kinds, NEW from \in 1..clock, BeginReport(kind, from)
    PROVE  /\ Asked' /\ report'.kind = kind /\ report'.writes = 0
           /\ DOMAIN report'.answer = {} /\ report'.from = from /\ report'.to = clock
           /\ UNCHANGED <<tables, clock, writes>>
<1>1. /\ report'.kind = kind /\ report'.from = from
      /\ report'.to = clock /\ report'.todo = DOMAIN Screen(kind, from, clock)
      /\ report'.answer = <<>> /\ report'.writes = 0
      /\ report' = [kind |-> report'.kind, from |-> report'.from, to |-> report'.to,
                    todo |-> report'.todo, answer |-> report'.answer, writes |-> report'.writes]
      /\ UNCHANGED <<tables, clock, writes>>
  BY DEF BeginReport
<1>2. DOMAIN report'.answer = {}
  BY <1>1
<1>3. report'.todo = Fields[kind]
  BY <1>1, ScreenFields
<1>4. clock \in Nat /\ from \in 1..clock /\ clock \in 1..clock
  BY ClockIs
<1>5. kind # "none"
  BY DEF Kinds
<1> QED
  BY <1>1, <1>2, <1>3, <1>4, <1>5 DEF Asked

\* What an answer to the questions Q does.
Answered(Q) ==
    /\ Keeps /\ Asked' /\ report'.writes = report.writes
    /\ report'.todo = report.todo \ Q
    /\ DOMAIN report'.answer = DOMAIN report.answer \cup Q
    /\ Q \cap DOMAIN report.answer = {}
    /\ \A q \in Q : report'.answer[q] = Screen(report.kind, report.from, report.to)[q]
    /\ \A p \in DOMAIN report.answer : report'.answer[p] = report.answer[p]

LEMMA AllIsAnswered ==
    ASSUME Asked, NEW Q \in SUBSET report.todo, AnswerAll(Q),
           \A q \in Q : \A p \in report.todo : Precedes(report.kind, p, q) => p \in Q,
           Q # {}
    PROVE  UNCHANGED <<tables, clock, writes>> /\ (Sent \/ Answered(Q))
<1>1. UNCHANGED <<tables, clock, writes>>
  BY DEF AnswerAll
<1> SUFFICES ASSUME ~NothingToCount(Q) PROVE Answered(Q)
  BY <1>1 DEF AnswerAll, Sent
<1> DEFINE now == Screen(report.kind, report.from, report.to)
<1>2. /\ Q \cap DOMAIN report.answer = {} /\ Q \in SUBSET Fields[report.kind]
      /\ report.kind # "none"
  BY DEF Asked, NoReport
<1>3. /\ Keeps /\ report'.todo = report.todo \ Q
      /\ report'.answer = [p \in DOMAIN report.answer \cup Q |->
                              IF p \in Q THEN now[p] ELSE report.answer[p]]
      /\ report'.writes = report.writes
      /\ report' = [kind |-> report'.kind, from |-> report'.from, to |-> report'.to,
                    todo |-> report'.todo, answer |-> report'.answer, writes |-> report'.writes]
  BY <1>2 DEF AnswerAll, Asked, Keeps
<1> HIDE DEF now
<1>4. /\ DOMAIN report'.answer = DOMAIN report.answer \cup Q
      /\ \A q \in Q : report'.answer[q] = now[q]
      /\ \A p \in DOMAIN report.answer : report'.answer[p] = report.answer[p]
  BY <1>2, <1>3
<1>5. \A p \in Fields[report.kind] :
        p \in DOMAIN report'.answer \/ (p \in report.todo /\ p \notin Q)
  BY <1>2, <1>4 DEF Asked
<1>6. ASSUME NEW y \in DOMAIN report'.answer, NEW p \in Fields[report.kind],
             Precedes(report.kind, p, y)
      PROVE  p \in DOMAIN report'.answer
  <2>1. CASE y \in Q
    BY <1>5, <1>6, <2>1
  <2>2. CASE y \notin Q
    BY <1>2, <1>4, <1>6, <2>2 DEF Asked
  <2> QED
    BY <2>1, <2>2
<1>7. report'.todo \cap DOMAIN report'.answer = {}
  BY <1>3, <1>4 DEF Asked
<1>8. report'.todo \cup DOMAIN report'.answer = Fields[report.kind]
  BY <1>2, <1>3, <1>4 DEF Asked
<1>9. Asked'
  BY <1>1, <1>2, <1>3, <1>6, <1>7, <1>8 DEF Asked, Keeps, Precedes
<1> QED
  BY <1>2, <1>3, <1>4, <1>9 DEF Answered, now

LEMMA AnswersAre ==
    ASSUME Asked, (\E q \in report.todo : Answer(q)) \/ AnswerRest
    PROVE  /\ UNCHANGED <<tables, clock, writes>>
           /\ Sent \/ \E Q \in SUBSET report.todo : Answered(Q)
<1>1. ASSUME NEW q \in report.todo, Answer(q)
      PROVE  UNCHANGED <<tables, clock, writes>> /\ (Sent \/ Answered({q}))
  <2>1. AnswerAll({q}) /\ \A p \in report.todo : ~Precedes(report.kind, p, q)
    BY <1>1 DEF Answer
  <2> QED
    BY <2>1, AllIsAnswered
<1>2. CASE AnswerRest
  <2>1. AnswerAll(report.todo) /\ report.todo # {}
    BY <1>2 DEF AnswerRest
  <2> QED
    BY <2>1, AllIsAnswered
<1> QED
  BY <1>1, <1>2

-----------------------------------------------------------------------------
Base == Tables /\ Asked

LEMMA BaseInit == Init => Base
<1> SUFFICES ASSUME Init PROVE Base
  OBVIOUS
<1>1. 1 \in Times /\ 0 \in 0..MaxTime /\ 0 \in 0..MaxWrites
  BY ReportsAssumption DEF Times
<1>2. \A r \in Rides : Linked(rides[r], payments[r], seen[r])
  BY DEF Init, Linked, NoRide, NoPayment, Unseen
<1>3. rides \in [Rides -> RideRow] /\ payments \in [Rides -> PaymentRow] /\ seen \in [Rides -> Seen]
  BY <1>1 DEF Init, NoRide, NoPayment, Unseen, RideRow, PaymentRow, Seen, Providers
<1>4. Tables
  BY <1>1, <1>2, <1>3, ReportsAssumption DEF Init, Tables
<1>5. Asked
  BY DEF Init, Asked, NoReport
<1> QED
  BY <1>4, <1>5 DEF Base

\* Counted or sent, what has been asked stays in order.
LEMMA MeanwhileAsked ==
    ASSUME Asked, UNCHANGED clock, Meanwhile(1)
    PROVE  Asked'
BY MeanwhileIs, SentIsAsked, CountedIsAsked

LEMMA SameTables ==
    ASSUME Tables, UNCHANGED <<tables, clock, writes>>
    PROVE  Tables'
BY DEF Tables, tables, RideRow, PaymentRow, Seen

LEMMA BaseStep == Base /\ [Next]_vars => Base'
<1> SUFFICES ASSUME Tables, Asked, [Next]_vars PROVE Tables' /\ Asked'
  BY DEF Base
<1>1. ASSUME NEW d \in Drivers, Hire(d) PROVE Tables' /\ Asked'
  BY <1>1, HireIs, MeanwhileAsked
<1>2. ASSUME NEW r \in Rides, WritesOf(r) PROVE Tables' /\ Asked'
  BY <1>2, WriteMoves, MeanwhileAsked DEF Moved
<1>3. CASE Tick
  <2>1. Tables' /\ (Sent \/ UNCHANGED report)
    BY <1>3, TickIs
  <2>2. clock \in Nat /\ clock' = clock + 1
    BY <1>3, ClockIs DEF Tick
  <2>3. UNCHANGED report => Asked'
    BY <2>2 DEF Asked
  <2> QED
    BY <2>1, <2>3, SentIsAsked
<1>4. ASSUME NEW kind \in Kinds, NEW from \in 1..clock, BeginReport(kind, from)
      PROVE  Tables' /\ Asked'
  BY <1>4, BegunIsAsked, SameTables
<1>5. CASE (\E q \in report.todo : Answer(q)) \/ AnswerRest
  BY <1>5, AnswersAre, SentIsAsked, SameTables DEF Answered
<1>6. CASE UNCHANGED vars
  <2>1. Asked'
    BY <1>6 DEF vars, Asked
  <2> QED
    BY <1>6, <2>1, SameTables DEF vars
<1> QED
  BY <1>1, <1>2, <1>3, <1>4, <1>5, <1>6 DEF Next, WritesOf

\* The columns of a ride, of its payment and of what requests have read of them say
\* the same of each other; a question of a report is open or answered.
THEOREM ReportsTypeCorrect == Spec => []TypeOK
<1>1. Base => TypeOK
  <2> SUFFICES ASSUME Base PROVE TypeOK
    OBVIOUS
  <2>1. \A r \in Rides : Linked(rides[r], payments[r], seen[r])
    BY DEF Base, Tables
  <2> QED
    BY <2>1 DEF Base, Tables, Asked, TypeOK, Linked, Exists, Paid
<1> QED
  BY <1>1, BaseInit, BaseStep, PTL DEF Spec

\* Fares are right to the cent: those of the rides, whatever starts, ends and
\* promotions did to them, and those of every amount, VAT rate and day length.
THEOREM FaresAreRight == Spec => []FaresHold
<1>1. Base => FaresHold
  <2> SUFFICES ASSUME Base PROVE FaresHold
    OBVIOUS
  <2>1. \A r \in Rides : rides[r].fare \in Amounts \cup {NoFare}
    BY DEF Base, Tables, RideRow
  <2>2. AddsUp(NoFare)
    BY DEF AddsUp, NoFare
  <2>3. \A r \in Rides : AddsUp(rides[r].fare)
    BY <2>1, <2>2, FaresAreMoney
  <2> QED
    BY <2>3, FaresAddUpAlways, SurchargeAlways DEF FaresHold
<1> QED
  BY <1>1, BaseInit, BaseStep, PTL DEF Spec

-----------------------------------------------------------------------------
(***************************************************************************)
(* The screens.                                                            *)
(***************************************************************************)
\* The values that a function takes.
LEMMA ImageIsFinite ==
    ASSUME NEW f, NEW S, IsFiniteSet(S)
    PROVE  IsFiniteSet({f[x] : x \in S}) /\ Cardinality({f[x] : x \in S}) <= Cardinality(S)
<1> DEFINE T == {f[x] : x \in S}
           g == [x \in S |-> f[x]]
<1>1. g \in Surjection(S, T)
  BY DEF Surjection
<1> HIDE DEF T, g
<1> QED
  BY <1>1, FS_Surjection DEF T

\* Elements that add nothing.
LEMMA SumOfPart ==
    ASSUME NEW f, NEW B, IsFiniteSet(B), NEW A \in SUBSET B, \A x \in B : f[x] \in Int,
           \A x \in B \ A : f[x] = 0
    PROVE  Sum(f, A) = Sum(f, B)
<1> DEFINE C == B \ A
           P == {T \in SUBSET C : Sum(f, T) = 0}
<1>1. {} \in P
  BY SumNone
<1>2. ASSUME NEW T \in SUBSET C, NEW x \in T, T \ {x} \in P PROVE T \in P
  <2>1. IsFiniteSet(T) /\ (\A y \in T : f[y] \in Int) /\ f[x] = 0
    BY FS_Subset
  <2>2. Sum(f, T) = f[x] + Sum(f, T \ {x})
    BY <2>1, SumTake
  <2> QED
    BY <1>2, <2>1, <2>2
<1>3. IsFiniteSet(C) /\ IsFiniteSet(A)
  BY FS_Subset
<1>4. Sum(f, C) = 0
  <2> HIDE DEF P
  <2>1. C \in P
    BY <1>1, <1>2, <1>3, FiniteSteps
  <2> QED
    BY <2>1 DEF P
<1>5. A \cup C = B /\ A \cap C = {}
  OBVIOUS
<1> HIDE DEF C, P
<1>6. Sum(f, B) = Sum(f, A) + Sum(f, C) /\ Sum(f, A) \in Int
  BY <1>3, <1>5, SumUnion, SumType
<1> QED
  BY <1>4, <1>6

\* Money and counts as sums.
FareOf   == [r \in Rides |-> rides[r].fare.total]
AmountOf == [r \in Rides |-> payments[r].amount]
NetOf    == [r \in Rides |-> payments[r].net]

LEMMA SumOfIsSum == \A f : SumOf(f) = Sum(f, DOMAIN f)
BY DEF SumOf, Sum

LEMMA SumsAre ==
    ASSUME NEW S \in SUBSET Rides
    PROVE  Fare(S) = Sum(FareOf, S) /\ Amount(S) = Sum(AmountOf, S) /\ Net(S) = Sum(NetOf, S)
<1>1. IsFiniteSet(S)
  BY ReportsAssumption, FS_Subset
<1>2. ASSUME NEW f, NEW g, DOMAIN f = S, \A r \in S : f[r] = g[r] PROVE SumOf(f) = Sum(g, S)
  BY <1>1, <1>2, SumOfIsSum, SumSame
<1>3. Fare(S) = Sum(FareOf, S)
  <2> DEFINE f == [r \in S |-> rides[r].fare.total]
  <2>1. DOMAIN f = S /\ \A r \in S : f[r] = FareOf[r]
    BY DEF FareOf
  <2>2. Fare(S) = SumOf(f)
    BY DEF Fare
  <2> HIDE DEF f
  <2> QED
    BY <1>2, <2>1, <2>2
<1>4. Amount(S) = Sum(AmountOf, S)
  <2> DEFINE f == [r \in S |-> payments[r].amount]
  <2>1. DOMAIN f = S /\ \A r \in S : f[r] = AmountOf[r]
    BY DEF AmountOf
  <2>2. Amount(S) = SumOf(f)
    BY DEF Amount
  <2> HIDE DEF f
  <2> QED
    BY <1>2, <2>1, <2>2
<1>5. Net(S) = Sum(NetOf, S)
  <2> DEFINE f == [r \in S |-> payments[r].net]
  <2>1. DOMAIN f = S /\ \A r \in S : f[r] = NetOf[r]
    BY DEF NetOf
  <2>2. Net(S) = SumOf(f)
    BY DEF Net
  <2> HIDE DEF f
  <2> QED
    BY <1>2, <2>1, <2>2
<1> QED
  BY <1>3, <1>4, <1>5

\* Every row has its money, and a ride without an end costs nothing.
LEMMA MoneyIs ==
    ASSUME Tables, NEW r \in Rides
    PROVE  /\ FareOf[r] \in Int /\ AmountOf[r] \in Int /\ NetOf[r] \in Int
           /\ rides[r].ended = 0 => FareOf[r] = 0
<1>1. rides[r] \in RideRow /\ payments[r] \in PaymentRow /\ Linked(rides[r], payments[r], seen[r])
  BY RowsAre
<1>2. rides[r].fare.total \in Int
  BY <1>1, FaresAreMoney DEF RideRow, NoFare
<1>3. payments[r].amount \in Int /\ payments[r].net \in Int
  BY <1>1 DEF PaymentRow
<1>4. rides[r].ended = 0 => rides[r].fare.total = 0
  BY <1>1 DEF Linked, NoFare
<1> QED
  BY <1>2, <1>3, <1>4 DEF FareOf, AmountOf, NetOf

\* The groups of a set of rides.
LEMMA GroupedSums ==
    ASSUME Tables, NEW S \in SUBSET Rides, NEW D, IsFiniteSet(D),
           NEW key, \A x \in S : key[x] \in D, NEW h, DOMAIN h = D
    PROVE  /\ (\A d \in D : h[d] = Fare({x \in S : key[x] = d})) => SumOf(h) = Fare(S)
           /\ (\A d \in D : h[d] = Amount({x \in S : key[x] = d})) => SumOf(h) = Amount(S)
           /\ (\A d \in D : h[d] = Net({x \in S : key[x] = d})) => SumOf(h) = Net(S)
<1> DEFINE Group(d) == {x \in S : key[x] = d}
<1>1. IsFiniteSet(S) /\ \A d \in D : Group(d) \in SUBSET Rides
  BY ReportsAssumption, FS_Subset
<1>2. ASSUME NEW f, \A x \in S : f[x] \in Int, \A d \in D : h[d] = Sum(f, Group(d))
      PROVE  SumOf(h) = Sum(f, S)
  <2>1. Sum(h, D) = Sum(f, S)
    BY <1>1, <1>2, SumOfGroups
  <2> QED
    BY <2>1, SumOfIsSum
<1>3. /\ \A x \in S : FareOf[x] \in Int
      /\ \A x \in S : AmountOf[x] \in Int
      /\ \A x \in S : NetOf[x] \in Int
  BY MoneyIs
<1> HIDE DEF Group
<1>4. (\A d \in D : h[d] = Fare(Group(d))) => SumOf(h) = Fare(S)
  BY <1>1, <1>2, <1>3, SumsAre
<1>5. (\A d \in D : h[d] = Amount(Group(d))) => SumOf(h) = Amount(S)
  BY <1>1, <1>2, <1>3, SumsAre
<1>6. (\A d \in D : h[d] = Net(Group(d))) => SumOf(h) = Net(S)
  BY <1>1, <1>2, <1>3, SumsAre
<1> QED
  BY <1>4, <1>5, <1>6 DEF Group

LEMMA GroupedCounts ==
    ASSUME NEW S \in SUBSET Rides, NEW D, IsFiniteSet(D),
           NEW key, \A x \in S : key[x] \in D,
           NEW h, DOMAIN h = D, \A d \in D : h[d] = Cardinality({x \in S : key[x] = d})
    PROVE  SumOf(h) = Cardinality(S)
<1> DEFINE ones == [r \in Rides |-> 1]
<1>1. IsFiniteSet(S)
  BY ReportsAssumption, FS_Subset
<1>2. \A x \in S : ones[x] = 1
  OBVIOUS
<1>3. ASSUME NEW d \in D PROVE h[d] = Sum(ones, {x \in S : key[x] = d})
  <2>1. {x \in S : key[x] = d} \in SUBSET S
    OBVIOUS
  <2>2. IsFiniteSet({x \in S : key[x] = d})
    BY <1>1, <2>1, FS_Subset
  <2>3. Sum(ones, {x \in S : key[x] = d}) = Cardinality({x \in S : key[x] = d})
    BY <1>2, <2>2, SumOfOnes
  <2> QED
    BY <2>3
<1> HIDE DEF ones
<1>4. Sum(h, D) = Sum(ones, S)
  BY <1>1, <1>2, <1>3, SumOfGroups
<1>5. Sum(ones, S) = Cardinality(S)
  BY <1>1, <1>2, SumOfOnes
<1> QED
  BY <1>4, <1>5, SumOfIsSum

LEMMA ProvidersAreFinite == IsFiniteSet(Providers)
<1>1. IsFiniteSet({"VIVA"})
  BY FS_Singleton
<1>2. IsFiniteSet({"VIVA"} \cup {"CASH"})
  BY <1>1, FS_AddElement
<1>3. {"VIVA"} \cup {"CASH"} = Providers
  BY DEF Providers
<1> QED
  BY <1>2, <1>3

-----------------------------------------------------------------------------
\* Over all the time there is, a paid payment is selected by any of its dates, and so
\* is a completed ride; the rides that have a fare are those that have an end.
AllPaid == {r \in Rides : Paid(r)}
AllCompleted == {r \in Rides : Completed(r)}
AllEnded == {r \in AllCompleted : rides[r].ended # 0}

LEMMA DatesAre ==
    ASSUME Tables, NEW r \in Rides
    PROVE  /\ Paid(r) => /\ InRange(payments[r].captured, 1, clock)
                         /\ InRange(payments[r].created, 1, clock)
                         /\ InRange(payments[r].created, 1, MaxTime)
           /\ Paid(r) \/ Completed(r) \/ rides[r].ended # 0 => InRange(rides[r].started, 1, clock)
           /\ rides[r].ended # 0 <=> InRange(rides[r].ended, 1, MaxTime)
<1>1. rides[r] \in RideRow /\ payments[r] \in PaymentRow /\ Linked(rides[r], payments[r], seen[r])
  BY RowsAre
<1>2. clock \in Nat /\ clock <= MaxTime /\ MaxTime \in Nat
  BY ClockIs
<1>3. /\ rides[r].started \in 0..clock /\ rides[r].ended \in 0..MaxTime
      /\ payments[r].created \in 0..clock /\ payments[r].captured \in 0..clock
  BY <1>1 DEF RideRow, PaymentRow
<1>4. Paid(r) => payments[r].captured # 0 /\ payments[r].created # 0
  BY <1>1 DEF Linked, Paid
<1>5. Paid(r) \/ Completed(r) \/ rides[r].ended # 0 => rides[r] # NoRide
  BY <1>1 DEF Linked, Paid, Completed, NoRide
<1>6. rides[r] # NoRide => rides[r].started # 0
  BY <1>1 DEF Linked
<1> QED
  BY <1>2, <1>3, <1>4, <1>5, <1>6 DEF InRange

LEMMA AllIsSelected ==
    ASSUME Tables
    PROVE  /\ PaidOf(CapturedIn(1, clock)) = AllPaid
           /\ PaidOf(CreatedIn(1, clock)) = AllPaid /\ PaidOf(CreatedIn(1, MaxTime)) = AllPaid
           /\ PaidOf(StartedIn(1, clock)) = AllPaid
           /\ CompletedOf(StartedIn(1, clock)) = AllCompleted
           /\ CompletedOf(EndedIn(1, MaxTime)) = AllEnded
BY DatesAre DEF CapturedIn, CreatedIn, StartedIn, EndedIn, PaidOf, CompletedOf,
                AllPaid, AllCompleted, AllEnded

\* The money of the single queries, by provider.
LEMMA ProvidersShare ==
    ASSUME Tables, NEW S \in SUBSET Rides, NEW h,
           h = [v \in Providers |-> Amount({r \in S : payments[r].provider = v})]
    PROVE  SumOf(h) = Amount(S)
<1> DEFINE key == [r \in Rides |-> payments[r].provider]
<1>1. \A r \in S : key[r] = payments[r].provider /\ key[r] \in Providers
  BY DEF Tables, PaymentRow
<1>2. DOMAIN h = Providers /\ \A v \in Providers : h[v] = Amount({r \in S : key[r] = v})
  <2>1. \A v : {r \in S : payments[r].provider = v} = {r \in S : key[r] = v}
    BY <1>1
  <2> HIDE DEF key
  <2> QED
    BY <2>1
<1> HIDE DEF key
<1> QED
  BY <1>1, <1>2, GroupedSums, ProvidersAreFinite

LEMMA ProvidersShareRevenue ==
    ASSUME Tables
    PROVE  LET recalled == {r \in CapturedIn(1, clock) : ~Paid(r)}
           IN  /\ Amount(AllPaid) = SumOf(AmountsByProvider(1, clock))
               /\ Amount(AllPaid) = SumOf(DashboardPaid(1, clock))
               /\ Amount(AllPaid) + Amount(recalled) = SumOf(SummaryByProvider(1, clock))
<1> DEFINE captured == CapturedIn(1, clock)
           recalled == {r \in captured : ~Paid(r)}
<1>1. AllPaid \in SUBSET Rides /\ captured \in SUBSET Rides /\ recalled \in SUBSET Rides
  BY DEF AllPaid, CapturedIn
<1>2. /\ Amount(AllPaid) = SumOf(AmountsByProvider(1, clock))
      /\ Amount(AllPaid) = SumOf(DashboardPaid(1, clock))
  BY <1>1, AllIsSelected, ProvidersShare DEF AmountsByProvider, DashboardPaid
<1>3. Amount(captured) = SumOf(SummaryByProvider(1, clock))
  BY <1>1, ProvidersShare DEF SummaryByProvider
<1>4. captured = AllPaid \cup recalled /\ AllPaid \cap recalled = {}
  BY AllIsSelected DEF PaidOf, AllPaid
<1>5. IsFiniteSet(AllPaid) /\ IsFiniteSet(recalled)
  BY <1>1, ReportsAssumption, FS_Subset
<1>6. \A r \in AllPaid \cup recalled : AmountOf[r] \in Int
  BY <1>1, MoneyIs
<1> HIDE DEF captured, recalled
<1>7. Sum(AmountOf, captured) = Sum(AmountOf, AllPaid) + Sum(AmountOf, recalled)
  BY <1>4, <1>5, <1>6, SumUnion
<1>8. Amount(captured) = Amount(AllPaid) + Amount(recalled)
  BY <1>1, <1>7, SumsAre
<1> QED
  BY <1>2, <1>3, <1>8 DEF captured, recalled

LEMMA WeeksShareRevenue ==
    ASSUME Tables
    PROVE  SumOf(RevenueGroups(1, MaxTime)) = Fare(AllCompleted)
<1> DEFINE key == [r \in Rides |-> WeekKey(rides[r].ended)]
           D == {key[r] : r \in AllEnded}
           h == [week \in D |-> Fare({r \in AllEnded : key[r] = week})]
<1>1. AllEnded \in SUBSET AllCompleted /\ AllCompleted \in SUBSET Rides
      /\ IsFiniteSet(AllEnded) /\ IsFiniteSet(AllCompleted)
  BY ReportsAssumption, FS_Subset DEF AllEnded, AllCompleted
<1>2. IsFiniteSet(D)
  BY <1>1, ImageIsFinite
<1>3. RevenueGroups(1, MaxTime) = h
  <2>1. \A r \in AllEnded : key[r] = WeekKey(rides[r].ended)
    BY <1>1
  <2>2. {WeekKey(rides[r].ended) : r \in AllEnded} = D
    BY <2>1
  <2>3. \A week : {r \in AllEnded : WeekKey(rides[r].ended) = week} = {r \in AllEnded : key[r] = week}
    BY <2>1
  <2> HIDE DEF key, D
  <2> QED
    BY <2>2, <2>3, AllIsSelected DEF RevenueGroups
<1>4. \A r \in AllEnded : key[r] \in D
  OBVIOUS
<1> HIDE DEF key, D
<1>5. SumOf(h) = Fare(AllEnded)
  BY <1>1, <1>2, <1>4, GroupedSums
<1>6. \A r \in AllCompleted \ AllEnded : FareOf[r] = 0
  BY <1>1, MoneyIs DEF AllEnded
<1>7. Sum(FareOf, AllEnded) = Sum(FareOf, AllCompleted)
  BY <1>1, <1>6, MoneyIs, SumOfPart
<1> QED
  BY <1>1, <1>3, <1>5, <1>7, SumsAre

\* The fares of all rides are those of the completed ones and of the reopened ones.
LEMMA ReopenedShareFares ==
    ASSUME Tables
    PROVE  Fare(AllCompleted) + Fare(Reopened(1, MaxTime)) = RidesFare(1, clock)
<1> DEFINE A == AllCompleted
           B == Reopened(1, MaxTime)
           S == StartedIn(1, clock)
<1>1. A \in SUBSET Rides /\ B \in SUBSET Rides /\ S \in SUBSET Rides /\ A \cap B = {}
  BY DEF AllCompleted, Reopened, EndedIn, StartedIn
<1>2. A \cup B \in SUBSET S
  BY DatesAre DEF AllCompleted, Reopened, EndedIn, StartedIn
<1>3. \A r \in S \ (A \cup B) : rides[r].ended = 0
  BY DatesAre DEF AllCompleted, Reopened, EndedIn, StartedIn
<1>4. IsFiniteSet(A) /\ IsFiniteSet(B) /\ IsFiniteSet(S) /\ A \cup B \in SUBSET Rides
  BY <1>1, ReportsAssumption, FS_Subset
<1>5. RidesFare(1, clock) = Fare(S)
  BY DEF RidesFare
<1> HIDE DEF A, B, S
<1>6. /\ \A r \in S : FareOf[r] \in Int
      /\ \A r \in A \cup B : FareOf[r] \in Int
      /\ \A r \in S \ (A \cup B) : FareOf[r] = 0
  BY <1>1, <1>3, <1>4, MoneyIs
<1>7. Sum(FareOf, A \cup B) = Sum(FareOf, S)
  BY <1>2, <1>4, <1>6, SumOfPart
<1>8. Sum(FareOf, A \cup B) = Sum(FareOf, A) + Sum(FareOf, B)
  BY <1>1, <1>4, <1>6, SumUnion
<1> QED
  BY <1>1, <1>5, <1>7, <1>8, SumsAre DEF A, B

LEMMA DaysShareTrends ==
    ASSUME Tables
    PROVE  SumOf(Trends(1, clock)) = BusinessStatus(1, clock).completed
<1> DEFINE key == [r \in Rides |-> rides[r].started]
           D == {key[r] : r \in AllCompleted}
           h == [t \in D |-> Cardinality({r \in AllCompleted : key[r] = t})]
<1>1. AllCompleted \in SUBSET Rides /\ IsFiniteSet(AllCompleted)
  BY ReportsAssumption, FS_Subset DEF AllCompleted
<1>2. IsFiniteSet(D)
  BY <1>1, ImageIsFinite
<1>3. \A r \in AllCompleted : key[r] = rides[r].started
  BY <1>1
<1>4. {rides[r].started : r \in AllCompleted} = D
  BY <1>3
<1>5. ASSUME NEW t \in D PROVE CompletedOf(StartedIn(t, t)) = {r \in AllCompleted : key[r] = t}
  <2>1. \A r \in Rides : key[r] = rides[r].started /\ key[r] \in Nat
    BY ClockIs DEF Tables, RideRow
  <2>2. \A r \in AllCompleted : key[r] # 0
    BY <1>1, <2>1, DatesAre DEF AllCompleted, InRange
  <2>3. t \in Nat /\ t # 0
    BY <1>1, <2>1, <2>2
  <2>4. \A r \in Rides : InRange(rides[r].started, t, t) <=> key[r] = t
    <3> HIDE DEF key
    <3> QED
      BY <2>1, <2>3 DEF InRange
  <2> HIDE DEF key
  <2> QED
    BY <2>4 DEF CompletedOf, StartedIn, AllCompleted
<1>6. Trends(1, clock) = h
  <2> HIDE DEF key, D
  <2> QED
    BY <1>4, <1>5, AllIsSelected DEF Trends
<1>7. \A r \in AllCompleted : key[r] \in D
  OBVIOUS
<1> HIDE DEF key, D
<1>8. SumOf(h) = Cardinality(AllCompleted)
  BY <1>1, <1>2, <1>7, GroupedCounts
<1> QED
  BY <1>6, <1>8, AllIsSelected DEF BusinessStatus

\* A week is the seven days from its Monday.
LEMMA WeekIs ==
    ASSUME NEW t \in Nat
    PROVE  \E q \in Int : TruncWeek(t) = 7 * q + 1 /\ 7 * q + 1 <= t /\ t <= 7 * q + 7
<1>1. PICK d : d = t - 1
  OBVIOUS
<1>2. PICK q, m : q = d \div 7 /\ m = d % 7
  OBVIOUS
<1>3. /\ q \in Int /\ m \in 0..6 /\ d = 7 * q + m /\ TruncWeek(t) = t - m
  <2>1. d \in Int
    BY <1>1
  <2>2. d \div 7 \in Int /\ d % 7 \in 0..6 /\ d = 7 * (d \div 7) + (d % 7)
    BY <2>1
  <2> QED
    BY <1>1, <1>2, <2>2 DEF TruncWeek
<1>4. TruncWeek(t) = 7 * q + 1 /\ 7 * q + 1 <= t /\ t <= 7 * q + 7
  BY <1>1, <1>3
<1> QED
  BY <1>3, <1>4

LEMMA WeeksOfRange ==
    ASSUME NEW from \in Nat, NEW to \in Nat, from <= to, NEW t \in Nat, t <= to
    PROVE  TruncWeek(t) \in {TruncWeek(u) : u \in from..to} <=> TruncWeek(from) <= t
<1>1. PICK q \in Int : TruncWeek(t) = 7 * q + 1 /\ 7 * q + 1 <= t /\ t <= 7 * q + 7
  BY WeekIs
<1>2. PICK p \in Int : TruncWeek(from) = 7 * p + 1 /\ 7 * p + 1 <= from /\ from <= 7 * p + 7
  BY WeekIs
<1>3. ASSUME NEW u \in from..to, TruncWeek(t) = TruncWeek(u) PROVE TruncWeek(from) <= t
  <2>1. u \in Nat
    OBVIOUS
  <2>2. PICK o \in Int : TruncWeek(u) = 7 * o + 1 /\ 7 * o + 1 <= u /\ u <= 7 * o + 7
    BY <2>1, WeekIs
  <2> QED
    BY <1>1, <1>2, <1>3, <2>2
<1>4. ASSUME TruncWeek(from) <= t PROVE \E u \in from..to : TruncWeek(t) = TruncWeek(u)
  <2>1. CASE from <= t
    <3>1. t \in from..to
      BY <2>1
    <3> QED
      BY <3>1
  <2>2. CASE t < from
    <3>1. TruncWeek(t) = TruncWeek(from) /\ from \in from..to
      BY <1>1, <1>2, <1>4, <2>2
    <3> QED
      BY <3>1
  <2> QED
    BY <2>1, <2>2
<1> QED
  BY <1>3, <1>4

\* The buckets of the timeline hold the payments created from the first of them on.
LEMMA TimelineIs ==
    ASSUME Tables, NEW from \in 1..clock, NEW bucket, NEW first,
           \A t \in 1..clock : bucket[t] \in {bucket[u] : u \in from..clock} <=> first <= t
    PROVE  SumOf(Timeline(from, clock, bucket)) = Net(PaidOf(CreatedIn(first, clock)))
<1> DEFINE D == {bucket[u] : u \in from..clock}
           key == [r \in Rides |-> bucket[payments[r].created]]
           S == {r \in AllPaid : key[r] \in D}
           h == Timeline(from, clock, bucket)
<1>1. IsFiniteSet(D)
  <2>1. IsFiniteSet(from..clock)
    BY FS_Interval, ClockIs
  <2> QED
    BY <2>1, ImageIsFinite
<1>2. \A r \in AllPaid : payments[r].created \in 1..clock /\ key[r] = bucket[payments[r].created]
  <2>1. \A r \in AllPaid : payments[r].created \in 0..clock /\ payments[r].created # 0
    BY DatesAre DEF AllPaid, Tables, PaymentRow, InRange
  <2>2. \A r \in AllPaid : key[r] = bucket[payments[r].created]
    BY DEF AllPaid
  <2> HIDE DEF key
  <2> QED
    BY <2>1, <2>2, ClockIs
<1>3. S = PaidOf(CreatedIn(first, clock))
  <2>1. ASSUME NEW r \in AllPaid PROVE key[r] \in D <=> InRange(payments[r].created, first, clock)
    <3>1. PICK t : t = payments[r].created
      OBVIOUS
    <3>2. t \in 1..clock /\ key[r] = bucket[t]
      BY <1>2, <3>1
    <3>3. bucket[t] \in D <=> first <= t
      BY <3>2
    <3>4. clock \in Nat
      BY ClockIs
    <3> HIDE DEF key, D
    <3> QED
      BY <3>1, <3>2, <3>3, <3>4 DEF InRange
  <2>2. PaidOf(CreatedIn(first, clock)) = {r \in AllPaid : InRange(payments[r].created, first, clock)}
    BY DEF PaidOf, CreatedIn, AllPaid
  <2> HIDE DEF key, D
  <2> QED
    BY <2>1, <2>2
<1>4. DOMAIN h = D /\ \A d \in D : h[d] = Net({x \in S : key[x] = d})
  <2>1. \A d \in D : {r \in AllPaid : bucket[payments[r].created] = d} = {x \in S : key[x] = d}
    BY <1>2
  <2>2. h = [d \in D |-> Net({r \in AllPaid : bucket[payments[r].created] = d})]
    BY AllIsSelected DEF Timeline
  <2> HIDE DEF D, key, S, h
  <2> QED
    BY <2>1, <2>2
<1>5. S \in SUBSET Rides /\ \A x \in S : key[x] \in D
  BY DEF AllPaid
<1> HIDE DEF D, key, S, h
<1>6. SumOf(h) = Net(S)
  BY <1>1, <1>4, <1>5, GroupedSums
<1> QED
  BY <1>3, <1>6 DEF h

\* Screens that select and group by other dates add up the same money, whatever
\* admins have entered, and whatever has been reopened.
THEOREM ScreensShowTheSame == Spec => []ScreensAgree
<1>1. Base => ScreensAgree
  <2> SUFFICES ASSUME Base PROVE ScreensAgree
    OBVIOUS
  <2>1. Tables /\ clock \in Nat /\ clock # 0 /\ clock \in Times
    BY ClockIs DEF Base, Tables
  <2>2. /\ RevenueOverview(1, clock) = Amount(AllPaid)
        /\ AmountsByStatus(1, clock)["PAID"] = Amount(AllPaid)
        /\ DashboardRevenue(1, clock) = Fare(AllCompleted)
    <3>1. {r \in CreatedIn(1, clock) : payments[r].status = "PAID"} = PaidOf(CreatedIn(1, clock))
      BY DEF PaidOf, Paid
    <3>2. "PAID" \in Statuses
      BY DEF Statuses
    <3> QED
      BY <2>1, <3>1, <3>2, AllIsSelected DEF RevenueOverview, AmountsByStatus, DashboardRevenue
  <2>3. ASSUME NEW from \in 1..clock
        PROVE  /\ SumOf(Timeline(from, clock, [t \in Times |-> t])) =
                    Net(PaidOf(CreatedIn(from, clock)))
               /\ SumOf(Timeline(from, clock, [t \in Times |-> TruncWeek(t)])) =
                    Net(PaidOf(CreatedIn(TruncWeek(from), clock)))
    <3> DEFINE day == [t \in Times |-> t]
               week == [t \in Times |-> TruncWeek(t)]
    <3>1. 1..clock \subseteq Times /\ from..clock \subseteq Times /\ from \in Nat
      BY <2>1, ReportsAssumption DEF Times
    <3>2. \A t \in 1..clock : day[t] \in {day[u] : u \in from..clock} <=> from <= t
      <4>1. {day[u] : u \in from..clock} = from..clock
        BY <3>1
      <4>2. \A t \in 1..clock : day[t] = t
        BY <3>1
      <4> HIDE DEF day
      <4> QED
        BY <2>1, <3>1, <4>1, <4>2
    <3>3. \A t \in 1..clock : week[t] \in {week[u] : u \in from..clock} <=> TruncWeek(from) <= t
      <4>1. {week[u] : u \in from..clock} = {TruncWeek(u) : u \in from..clock}
        BY <3>1
      <4>2. \A t \in 1..clock : week[t] = TruncWeek(t) /\ t \in Nat /\ t <= clock
        BY <2>1, <3>1
      <4> HIDE DEF week
      <4> QED
        BY <2>1, <3>1, <4>1, <4>2, WeeksOfRange
    <3> HIDE DEF day, week
    <3>4. SumOf(Timeline(from, clock, day)) = Net(PaidOf(CreatedIn(from, clock)))
      BY <2>1, <3>2, TimelineIs
    <3>5. SumOf(Timeline(from, clock, week)) = Net(PaidOf(CreatedIn(TruncWeek(from), clock)))
      BY <2>1, <3>3, TimelineIs
    <3> QED
      BY <3>4, <3>5 DEF day, week
  <2> QED
    BY <2>1, <2>2, <2>3, ProvidersShareRevenue, WeeksShareRevenue, ReopenedShareFares,
       DaysShareTrends DEF ScreensAgree
<1> QED
  BY <1>1, BaseInit, BaseStep, PTL DEF Spec

-----------------------------------------------------------------------------
(***************************************************************************)
(* Reports made query by query.  A figure is what has been answered, or    *)
(* what would be answered now: answering does not change the figures, and  *)
(* a write, which changes one ride and its payment, changes only those     *)
(* that are still to be answered, and each of them by one at most.         *)
(***************************************************************************)
LEMMA RidesAreFinite ==
    ASSUME NEW S \in SUBSET Rides
    PROVE  IsFiniteSet(S) /\ Cardinality(S) \in Nat
BY ReportsAssumption, FS_Subset, FS_CardinalityType

LEMMA TwoAreFinite == \A x, y : IsFiniteSet({x, y})
<1> SUFFICES ASSUME NEW x, NEW y PROVE IsFiniteSet({x, y})
  OBVIOUS
<1>1. IsFiniteSet({x} \cup {y})
  BY FS_Singleton, FS_AddElement
<1>2. {x} \cup {y} = {x, y}
  OBVIOUS
<1> QED
  BY <1>1, <1>2

\* The rows that the figures count.
PaidIn(from, to)         == PaidOf(CreatedIn(from, to))
StartedAs(from, to, s)   == {r \in StartedIn(from, to) : rides[r].status = s}
BilledOf(S)              == {r \in S : Exists(r)}
ActiveDrivers(from, to)  == {rides[r].driver : r \in CompletedOf(StartedIn(from, to))}

\* What the columns of a row say where it is selected.
LEMMA SelectedAre ==
    ASSUME Tables, NEW r \in Rides
    PROVE  /\ payments[r].provider \in Providers
           /\ payments[r].created # 0 \/ Exists(r) => payments[r].status \in Statuses
           /\ rides[r].started # 0 => rides[r].status \in RideStatuses
           /\ Completed(r) => rides[r].driver \in hired
<1>1. rides[r] \in RideRow /\ payments[r] \in PaymentRow /\ Linked(rides[r], payments[r], seen[r])
  BY RowsAre
<1>2. payments[r].provider \in Providers /\ payments[r].status \in Statuses \cup {"NONE"}
  BY <1>1 DEF PaymentRow
<1>3. payments[r].created # 0 => payments[r].status # "NONE"
  BY <1>1 DEF Linked, NoPayment
<1>4. rides[r].status \in RideStatuses \cup {"NONE"} /\ rides[r].driver \in hired \cup {None}
  BY <1>1 DEF RideRow
<1>5. rides[r].started # 0 \/ Completed(r) => rides[r] # NoRide
  BY <1>1 DEF NoRide, Completed
<1>6. rides[r] # NoRide => rides[r].status # "NONE" /\ rides[r].driver # None
  BY <1>1 DEF Linked
<1> QED
  BY <1>2, <1>3, <1>4, <1>5, <1>6 DEF Exists

OverviewFact(from, to) ==
    LET a == Screen("overview", from, to)
    IN  /\ SumOf(a["countsByProvider"]) = Cardinality(PaidIn(from, to))
        /\ a["countsByStatus"]["PAID"] = Cardinality(PaidIn(from, to))
        /\ SumOf(a["countsByStatus"]) = Cardinality(CreatedIn(from, to))
        /\ a["count"] = Cardinality(CreatedIn(from, to))

LEMMA OverviewNow == ASSUME Tables, NEW from, NEW to PROVE OverviewFact(from, to)
<1> DEFINE S == CreatedIn(from, to)
           provider == [r \in Rides |-> payments[r].provider]
           status == [r \in Rides |-> payments[r].status]
           h == CountsByProvider(from, to)
           p == CountsByStatus(from, to)
<1>1. S \in SUBSET Rides /\ PaidIn(from, to) \in SUBSET S
  BY DEF CreatedIn, PaidIn, PaidOf
<1>2. \A r \in S : provider[r] \in Providers /\ status[r] \in Statuses
  BY SelectedAre DEF CreatedIn, InRange
<1>3. DOMAIN h = Providers /\ \A v \in Providers :
        h[v] = Cardinality({r \in PaidIn(from, to) : provider[r] = v})
  <2>1. \A v : {r \in PaidIn(from, to) : payments[r].provider = v} =
               {r \in PaidIn(from, to) : provider[r] = v}
    BY <1>1
  <2> HIDE DEF provider
  <2> QED
    BY <2>1 DEF CountsByProvider, PaidIn
<1>4. DOMAIN p = Statuses /\ \A s \in Statuses : p[s] = Cardinality({r \in S : status[r] = s})
  <2>1. \A s : {r \in S : payments[r].status = s} = {r \in S : status[r] = s}
    BY <1>1
  <2> HIDE DEF status
  <2> QED
    BY <2>1 DEF CountsByStatus
<1>5. p["PAID"] = Cardinality(PaidIn(from, to))
  <2>1. {r \in S : payments[r].status = "PAID"} = PaidIn(from, to)
    BY DEF PaidIn, PaidOf, Paid
  <2> QED
    BY <2>1 DEF CountsByStatus, Statuses
<1>6. Screen("overview", from, to) =
        [countsByProvider |-> h, countsByStatus |-> p, count |-> Count(from, to)]
  BY DEF Screen
<1>7. IsFiniteSet(Statuses)
  BY TwoAreFinite DEF Statuses
<1> HIDE DEF S, provider, status, h, p
<1>8. SumOf(h) = Cardinality(PaidIn(from, to))
  BY <1>1, <1>2, <1>3, ProvidersAreFinite, GroupedCounts
<1>9. SumOf(p) = Cardinality(S)
  BY <1>1, <1>2, <1>4, <1>7, GroupedCounts
<1> QED
  BY <1>5, <1>6, <1>8, <1>9 DEF OverviewFact, Count, S

MethodsFact(from, to) ==
    LET a == Screen("methods", from, to)
    IN  /\ SumOf(a["payments"]) = Cardinality(BilledOf(EndedIn(from, to)))
        /\ Cardinality(BilledOf(EndedIn(from, to))) \in Nat
        /\ Cardinality(BilledOf(EndedIn(from, to))) <= Cardinality(EndedIn(from, to))
        /\ a["rides"] + Cardinality(Reopened(from, to)) = Cardinality(EndedIn(from, to))

LEMMA MethodsNow == ASSUME Tables, NEW from, NEW to PROVE MethodsFact(from, to)
<1> DEFINE S == EndedIn(from, to)
           B == BilledOf(S)
           A == CompletedOf(S)
           C == Reopened(from, to)
           key == [r \in Rides |-> payments[r].provider]
           h == PaymentStats(from, to)
<1>1. S \in SUBSET Rides /\ B \in SUBSET S /\ A \cup C = S /\ A \cap C = {} /\ A \in SUBSET S
      /\ C \in SUBSET S
  BY DEF EndedIn, BilledOf, CompletedOf, Reopened
<1>2. \A r \in B : key[r] \in Providers
  BY <1>1, SelectedAre
<1>3. DOMAIN h = Providers /\ \A v \in Providers : h[v] = Cardinality({r \in B : key[r] = v})
  <2>1. \A v : {r \in S : Exists(r) /\ payments[r].provider = v} = {r \in B : key[r] = v}
    BY <1>1 DEF BilledOf
  <2> HIDE DEF key, B
  <2> QED
    BY <2>1 DEF PaymentStats
<1>4. Screen("methods", from, to) = [payments |-> h, rides |-> CompletedCount(from, to)]
  BY DEF Screen
<1>5. CompletedCount(from, to) = Cardinality(A)
  BY DEF CompletedCount
<1> HIDE DEF S, B, A, C, key, h
<1>6. SumOf(h) = Cardinality(B)
  BY <1>1, <1>2, <1>3, ProvidersAreFinite, GroupedCounts
<1>7. IsFiniteSet(S) /\ IsFiniteSet(A) /\ IsFiniteSet(C)
  BY <1>1, RidesAreFinite
<1>8. Cardinality(B) \in Nat /\ Cardinality(B) <= Cardinality(S)
  BY <1>1, <1>7, RidesAreFinite, FS_Subset
<1>9. Cardinality(S) = Cardinality(A) + Cardinality(C)
  <2>1. Cardinality(A \cup C) = Cardinality(A) + Cardinality(C) - Cardinality(A \cap C)
    BY <1>7, FS_Union
  <2>2. Cardinality(A \cap C) = 0 /\ Cardinality(A) \in Nat /\ Cardinality(C) \in Nat
    BY <1>1, <1>7, FS_EmptySet, FS_CardinalityType
  <2>3. PICK a, c, m, n : /\ a = Cardinality(A) /\ c = Cardinality(C) /\ n = Cardinality(A \cap C)
                          /\ m = Cardinality(A \cup C)
    OBVIOUS
  <2>4. m = a + c
    BY <2>1, <2>2, <2>3
  <2>5. Cardinality(S) = m
    BY <1>1, <2>3
  <2> QED
    BY <2>3, <2>4, <2>5
<1> QED
  BY <1>4, <1>5, <1>6, <1>8, <1>9 DEF MethodsFact, S, B, C

DriversFact(from, to) ==
    LET a == Screen("drivers", from, to)
    IN  DOMAIN a["stats"] \subseteq hired /\ a["drivers"] = Cardinality(hired)

LEMMA DriversNow == ASSUME Tables, NEW from, NEW to PROVE DriversFact(from, to)
<1>1. DOMAIN DriverStats(from, to) = {rides[r].driver : r \in CompletedOf(EndedIn(from, to))}
  BY DEF DriverStats
<1>2. DOMAIN DriverStats(from, to) \subseteq hired
  BY <1>1, SelectedAre DEF CompletedOf, EndedIn
<1>3. Screen("drivers", from, to) = [stats |-> DriverStats(from, to), drivers |-> TotalDrivers]
  BY DEF Screen
<1> QED
  BY <1>2, <1>3 DEF DriversFact, TotalDrivers

DashboardFact(from, to) ==
    LET a == Screen("dashboard", from, to)
    IN  /\ a["rides"] = Cardinality(StartedIn(from, to))
        /\ a["completed"] = Cardinality(StartedAs(from, to, "COMPLETED"))
        /\ a["cancelled"] = Cardinality(StartedAs(from, to, "CANCELLED"))
        /\ a["ongoing"] = Cardinality(StartedAs(from, to, "ONGOING"))
        /\ a["active"] = Cardinality(ActiveDrivers(from, to))
        /\ IsFiniteSet(ActiveDrivers(from, to)) /\ a["active"] \in Nat
        /\ a["active"] <= a["completed"]

LEMMA DashboardNow == ASSUME Tables, NEW from, NEW to PROVE DashboardFact(from, to)
<1> DEFINE S == StartedAs(from, to, "COMPLETED")
           f == [r \in Rides |-> rides[r].driver]
<1>1. S = CompletedOf(StartedIn(from, to)) /\ S \in SUBSET Rides
  BY DEF StartedAs, CompletedOf, Completed, StartedIn
<1>2. ActiveDrivers(from, to) = {f[r] : r \in S}
  BY <1>1 DEF ActiveDrivers
<1>3. Screen("dashboard", from, to) =
        [rides     |-> DashboardRides(from, to),
         completed |-> DashboardStatus(from, to, "COMPLETED"),
         cancelled |-> DashboardStatus(from, to, "CANCELLED"),
         ongoing   |-> DashboardStatus(from, to, "ONGOING"),
         active    |-> DashboardActiveDrivers(from, to)]
  BY DEF Screen
<1>4. /\ DashboardRides(from, to) = Cardinality(StartedIn(from, to))
      /\ \A s : DashboardStatus(from, to, s) = Cardinality(StartedAs(from, to, s))
      /\ DashboardActiveDrivers(from, to) = Cardinality(ActiveDrivers(from, to))
  BY DEF DashboardRides, DashboardStatus, StartedAs, DashboardActiveDrivers, ActiveDrivers
<1> HIDE DEF S, f
<1>5. /\ IsFiniteSet(ActiveDrivers(from, to)) /\ Cardinality(ActiveDrivers(from, to)) \in Nat
      /\ Cardinality(ActiveDrivers(from, to)) <= Cardinality(S)
  BY <1>1, <1>2, RidesAreFinite, ImageIsFinite, FS_CardinalityType
<1> QED
  BY <1>3, <1>4, <1>5 DEF DashboardFact, S

RidesFact(from, to) ==
    LET a == Screen("rides", from, to)
    IN  /\ a["count"] = Cardinality(StartedIn(from, to))
        /\ SumOf(a["byStatus"]) = Cardinality(StartedIn(from, to))
        /\ SumOf(a["payments"]) = Cardinality(BilledOf(StartedIn(from, to)))

LEMMA RidesNow == ASSUME Tables, NEW from, NEW to PROVE RidesFact(from, to)
<1> DEFINE S == StartedIn(from, to)
           B == BilledOf(S)
           key == [r \in Rides |-> rides[r].status]
           status == [r \in Rides |-> payments[r].status]
           h == RidesByStatus(from, to)
           p == PaymentsOfRides(from, to)
<1>1. S \in SUBSET Rides /\ B \in SUBSET Rides
  BY DEF StartedIn, BilledOf
<1>2. (\A r \in S : key[r] \in RideStatuses) /\ \A r \in B : status[r] \in Statuses
  BY SelectedAre DEF StartedIn, InRange, BilledOf
<1>3. DOMAIN h = RideStatuses /\ \A s \in RideStatuses : h[s] = Cardinality({r \in S : key[r] = s})
  <2>1. \A s : {r \in S : rides[r].status = s} = {r \in S : key[r] = s}
    BY <1>1
  <2> HIDE DEF key
  <2> QED
    BY <2>1 DEF RidesByStatus
<1>4. DOMAIN p = Statuses /\ \A s \in Statuses : p[s] = Cardinality({r \in B : status[r] = s})
  <2>1. \A s \in Statuses : {r \in S : payments[r].status = s} = {r \in B : status[r] = s}
    BY <1>1 DEF BilledOf, Exists, Statuses
  <2> HIDE DEF status, B
  <2> QED
    BY <2>1 DEF PaymentsOfRides
<1>5. IsFiniteSet(RideStatuses) /\ IsFiniteSet(Statuses)
  <2>1. {"DRAFT", "ONGOING"} \cup {"COMPLETED", "CANCELLED"} = RideStatuses
    BY DEF RideStatuses
  <2>2. IsFiniteSet({"DRAFT", "ONGOING"} \cup {"COMPLETED", "CANCELLED"})
    BY TwoAreFinite, FS_Union
  <2> QED
    BY <2>1, <2>2, TwoAreFinite DEF Statuses
<1>6. Screen("rides", from, to) =
        [count |-> DashboardRides(from, to), byStatus |-> h, payments |-> p]
  BY DEF Screen
<1> HIDE DEF S, B, key, status, h, p
<1>7. SumOf(h) = Cardinality(S)
  BY <1>1, <1>2, <1>3, <1>5, GroupedCounts
<1>8. SumOf(p) = Cardinality(B)
  BY <1>1, <1>2, <1>4, <1>5, GroupedCounts
<1> QED
  BY <1>6, <1>7, <1>8 DEF DashboardRides, S, B, RidesFact

ListsFact(from, to) ==
    /\ Screen("live", from, to)["list"] = OngoingList
    /\ Screen("live", from, to)["count"] = Cardinality(OngoingList)
    /\ Screen("history", from, to)["rides"] = HistoryRides(from)
    /\ Screen("history", from, to)["count"] = Cardinality(HistoryRides(from))
    /\ Screen("today", from, to)["paid"] = PaidToday(to)
    /\ Screen("today", from, to)["active"] = ActiveRide
    /\ PaidToday(to) \cap ActiveRide = {}

LEMMA ListsNow == ASSUME NEW from, NEW to PROVE ListsFact(from, to)
<1>1. Screen("live", from, to) = [list |-> OngoingList, count |-> Cardinality(OngoingList)]
  BY DEF Screen
<1>2. Screen("history", from, to) =
         [rides |-> HistoryRides(from), count |-> Cardinality(HistoryRides(from))]
  BY DEF Screen
<1>3. Screen("today", from, to) = [paid |-> PaidToday(to), active |-> ActiveRide]
  BY DEF Screen
<1>4. PaidToday(to) \cap ActiveRide = {}
  BY DEF PaidToday, Mine, CompletedOf, Completed, ActiveRide
<1> QED
  BY <1>1, <1>2, <1>3, <1>4 DEF ListsFact

\* The same, after a step.
ReportsFact == Tables => \A from, to :
    /\ OverviewFact(from, to) /\ MethodsFact(from, to) /\ DriversFact(from, to)
    /\ DashboardFact(from, to) /\ RidesFact(from, to) /\ ListsFact(from, to)

LEMMA ReportsNow == ReportsFact /\ ReportsFact'
<1>1. ReportsFact
  BY OverviewNow, MethodsNow, DriversNow, DashboardNow, RidesNow, ListsNow DEF ReportsFact
<1> QED
  BY <1>1, PTL

-----------------------------------------------------------------------------
\* Sets of rides that are the same but for one ride.
Turned(S, T, r) == S \in SUBSET Rides /\ T \in SUBSET Rides /\ S \ {r} = T \ {r}

Bit(r, S) == IF r \in S THEN 1 ELSE 0

LEMMA TurnedCount ==
    ASSUME NEW S, NEW T, NEW r, Turned(S, T, r)
    PROVE  /\ Cardinality(S) \in Nat /\ Cardinality(T) \in Nat
           /\ Cardinality(T) = Cardinality(S) + (Bit(r, T) - Bit(r, S))
           /\ Bit(r, S) \in 0..1 /\ Bit(r, T) \in 0..1
<1>1. IsFiniteSet(S) /\ IsFiniteSet(T) /\ Cardinality(S) \in Nat /\ Cardinality(T) \in Nat
  BY RidesAreFinite DEF Turned
<1>2. PICK n : n = Cardinality(S \ {r}) /\ n = Cardinality(T \ {r})
  BY DEF Turned
<1>3. n = IF r \in S THEN Cardinality(S) - 1 ELSE Cardinality(S)
  BY <1>1, <1>2, FS_RemoveElement
<1>4. n = IF r \in T THEN Cardinality(T) - 1 ELSE Cardinality(T)
  BY <1>1, <1>2, FS_RemoveElement
<1> QED
  BY <1>1, <1>3, <1>4 DEF Bit

\* What one write does to the rows that are counted.
Changed(r, from, to) ==
    /\ Tables /\ Tables' /\ hired \subseteq hired'
    /\ Turned(CreatedIn(from, to), CreatedIn(from, to)', r)
    /\ Turned(PaidIn(from, to), PaidIn(from, to)', r)
    /\ Turned(EndedIn(from, to), EndedIn(from, to)', r)
    /\ Turned(StartedIn(from, to), StartedIn(from, to)', r)
    /\ \A s \in RideStatuses : Turned(StartedAs(from, to, s), StartedAs(from, to, s)', r)
    /\ Turned(BilledOf(StartedIn(from, to)), BilledOf(StartedIn(from, to))', r)
    /\ Turned(OngoingList, OngoingList', r)
    /\ Turned(HistoryRides(from), HistoryRides(from)', r)
    /\ Turned(PaidToday(to), PaidToday(to)', r)
    /\ Turned(ActiveRide, ActiveRide', r)
    /\ \E d : ActiveDrivers(from, to)' \subseteq ActiveDrivers(from, to) \cup {d}

LEMMA WriteChanges ==
    ASSUME Tables, Tables', hired \subseteq hired', NEW r,
           \A x \in Rides \ {r} : rides'[x] = rides[x] /\ payments'[x] = payments[x],
           NEW from, NEW to
    PROVE  Changed(r, from, to)
<1> USE DEF Turned
<1>1. Turned(CreatedIn(from, to), CreatedIn(from, to)', r)
  BY DEF CreatedIn, InRange
<1>2. Turned(PaidIn(from, to), PaidIn(from, to)', r)
  BY DEF PaidIn, PaidOf, Paid, CreatedIn, InRange
<1>3. Turned(EndedIn(from, to), EndedIn(from, to)', r)
  BY DEF EndedIn, InRange
<1>4. Turned(StartedIn(from, to), StartedIn(from, to)', r)
  BY DEF StartedIn, InRange
<1>5. ASSUME NEW s \in RideStatuses PROVE Turned(StartedAs(from, to, s), StartedAs(from, to, s)', r)
  BY <1>4 DEF StartedAs, StartedIn
<1>6. Turned(BilledOf(StartedIn(from, to)), BilledOf(StartedIn(from, to))', r)
  BY <1>4 DEF BilledOf, Exists, StartedIn
<1>7. Turned(OngoingList, OngoingList', r)
  BY DEF OngoingList, Ongoing
<1>8. Turned(HistoryRides(from), HistoryRides(from)', r)
  BY DEF HistoryRides, Mine, StartedIn, InRange
<1>9. Turned(PaidToday(to), PaidToday(to)', r)
  BY DEF PaidToday, Mine, CompletedOf, Completed, PaidOf, Paid, StartedIn, InRange
<1>10. Turned(ActiveRide, ActiveRide', r)
  BY DEF ActiveRide, Mine
<1>11. ActiveDrivers(from, to)' \subseteq ActiveDrivers(from, to) \cup {rides'[r].driver}
  <2>1. PICK S, T : S = CompletedOf(StartedIn(from, to)) /\ T = CompletedOf(StartedIn(from, to))'
    OBVIOUS
  <2>2. T \subseteq Rides /\ T \ {r} \subseteq S
    BY <2>1 DEF CompletedOf, Completed, StartedIn, InRange
  <2>3. /\ ActiveDrivers(from, to) = {rides[x].driver : x \in S}
        /\ ActiveDrivers(from, to)' = {rides'[x].driver : x \in T}
    BY <2>1 DEF ActiveDrivers
  <2> QED
    BY <2>2, <2>3
<1> QED
  BY <1>1, <1>2, <1>3, <1>4, <1>5, <1>6, <1>7, <1>8, <1>9, <1>10, <1>11 DEF Changed

-----------------------------------------------------------------------------
(***************************************************************************)
(* Figures, and how far apart they are.                                    *)
(***************************************************************************)
Figure(q) ==
    IF q \in DOMAIN report.answer THEN report.answer[q]
    ELSE Screen(report.kind, report.from, report.to)[q]

AtMost(m, n, k) == m \in Int /\ n \in Int /\ m <= n + k
Close(m, n, k)  == AtMost(m, n, k) /\ AtMost(n, m, k)

OverviewInv == report.kind = "overview" =>
    /\ Close(SumOf(Figure("countsByProvider")), Figure("countsByStatus")["PAID"], report.writes)
    /\ Close(SumOf(Figure("countsByStatus")), Figure("count"), report.writes)

MethodsInv == report.kind = "methods" =>
    AtMost(SumOf(Figure("payments")),
           Figure("rides") + Cardinality(Reopened(report.from, report.to)), report.writes)

DriversInv == report.kind = "drivers" =>
    /\ DOMAIN Figure("stats") \subseteq hired
    /\ Cardinality(DOMAIN Figure("stats")) <= Figure("drivers")

DashboardInv == report.kind = "dashboard" =>
    /\ {Figure("completed"), Figure("cancelled"), Figure("ongoing")} \subseteq Int
    /\ AtMost(Figure("completed") + Figure("cancelled") + Figure("ongoing"), Figure("rides"),
              report.writes)
    /\ AtMost(Figure("active"), Figure("completed"), report.writes)

RidesInv == report.kind = "rides" =>
    /\ Close(SumOf(Figure("byStatus")), Figure("count"), report.writes)
    /\ AtMost(SumOf(Figure("payments")), Figure("count"), report.writes)

LiveInv == report.kind = "live" =>
    Close(Cardinality(Figure("list")), Figure("count"), report.writes)

HistoryInv == report.kind = "history" =>
    Close(Cardinality(Figure("rides")), Figure("count"), report.writes)

TodayInv == report.kind = "today" =>
    /\ Figure("paid") \in SUBSET Rides
    /\ AtMost(Cardinality(Figure("paid") \cap Figure("active")), 0, report.writes)

FiguresInv ==
    /\ OverviewInv /\ MethodsInv /\ DriversInv /\ DashboardInv
    /\ RidesInv /\ LiveInv /\ HistoryInv /\ TodayInv

-----------------------------------------------------------------------------
LEMMA ScreenStays ==
    ASSUME UNCHANGED tables, NEW kind, NEW from, NEW to
    PROVE  Screen(kind, from, to)' = Screen(kind, from, to)
BY DEF tables, Screen, Exists, Paid, Completed, Ongoing, Fare, StartedIn, EndedIn, CreatedIn,
       PaidOf, CompletedOf, InRange, CountsByProvider, CountsByStatus, Count, PaymentStats,
       CompletedCount, DriverStats, TotalDrivers, DashboardRides, DashboardStatus,
       DashboardActiveDrivers, RidesByStatus, PaymentsOfRides, OngoingList, Mine,
       HistoryRides, PaidToday, ActiveRide

\* Without a write all figures are kept.
Kept ==
    /\ report'.kind = report.kind /\ report'.writes = report.writes
    /\ report'.from = report.from /\ report'.to = report.to
    /\ \A q : Figure(q)' = Figure(q)
    /\ UNCHANGED tables

LEMMA FiguresStay ==
    ASSUME UNCHANGED tables,
           report'.kind = report.kind, report'.writes = report.writes,
           report'.from = report.from, report'.to = report.to,
           \A q : \/ /\ q \in DOMAIN report.answer <=> q \in DOMAIN report'.answer
                     /\ q \in DOMAIN report.answer => report'.answer[q] = report.answer[q]
                  \/ /\ q \notin DOMAIN report.answer /\ q \in DOMAIN report'.answer
                     /\ report'.answer[q] = Screen(report.kind, report.from, report.to)[q]
    PROVE  Kept
<1> SUFFICES ASSUME NEW q PROVE Figure(q)' = Figure(q)
  BY DEF Kept
<1>1. PICK k, f, t : k = report.kind /\ f = report.from /\ t = report.to
  OBVIOUS
<1>2. Screen(k, f, t)' = Screen(k, f, t)
  BY ScreenStays
<1>3. Figure(q) = IF q \in DOMAIN report.answer THEN report.answer[q] ELSE Screen(k, f, t)[q]
  BY <1>1 DEF Figure
<1>4. Figure(q)' = IF q \in DOMAIN report'.answer THEN report'.answer[q] ELSE Screen(k, f, t)'[q]
  BY <1>1 DEF Figure
<1> QED
  BY <1>1, <1>2, <1>3, <1>4

\* A write changes the figures still to be answered, of which there is one.
Rewritten(k, f, t) ==
    /\ report.kind = k /\ report'.kind = k
    /\ report.from = f /\ report.to = t /\ report'.from = f /\ report'.to = t
    /\ report.writes \in Nat /\ report'.writes = report.writes + 1
    /\ \E q \in Fields[k] : q \notin DOMAIN report.answer
    /\ \A p, q : /\ p \in Fields[k] /\ q \in DOMAIN report.answer /\ Precedes(k, p, q)
                    => p \in DOMAIN report.answer
    /\ \A q : IF q \in DOMAIN report.answer THEN Figure(q)' = Figure(q)
              ELSE Figure(q) = Screen(k, f, t)[q] /\ Figure(q)' = Screen(k, f, t)'[q]

LEMMA WriteRewrites ==
    ASSUME Asked, Counted(1), report.kind # "none", UNCHANGED clock,
           NEW k, NEW f, NEW t, report.kind = k, report.from = f, report.to = t
    PROVE  Rewritten(k, f, t)
<1>1. /\ report'.kind = k /\ report'.from = f /\ report'.to = t
      /\ report'.answer = report.answer /\ report'.writes = report.writes + 1
  BY CountedIsAsked DEF Keeps
<1>2. ASSUME NEW q, q \in DOMAIN report.answer PROVE Figure(q)' = Figure(q)
  BY <1>1, <1>2 DEF Figure
<1>3. ASSUME NEW q, q \notin DOMAIN report.answer
      PROVE  Figure(q) = Screen(k, f, t)[q] /\ Figure(q)' = Screen(k, f, t)'[q]
  BY <1>1, <1>3 DEF Figure
<1>4. \E q \in Fields[k] : q \notin DOMAIN report.answer
  BY DEF Asked, Counted
<1> QED
  BY <1>1, <1>2, <1>3, <1>4 DEF Rewritten, Asked

\* Figures that have been answered, or that have changed by no more than one.
LEMMA OneApart ==
    ASSUME NEW m, NEW n, NEW k \in Nat, AtMost(m, n, k),
           NEW b \in 0..1, NEW c \in 0..1, NEW b2 \in 0..1, NEW c2 \in 0..1,
           b <= c, b2 <= c2,
           NEW m2, NEW n2, m2 = m \/ m2 = m + (b2 - b), n2 = n \/ n2 = n + (c2 - c)
    PROVE  AtMost(m2, n2, k + 1)
BY DEF AtMost

LEMMA OneNear ==
    ASSUME NEW m, NEW n, NEW k \in Nat, Close(m, n, k), NEW b \in 0..1, NEW b2 \in 0..1,
           NEW m2, NEW n2, m2 = m \/ m2 = m + (b2 - b), n2 = n \/ n2 = n + (b2 - b)
    PROVE  Close(m2, n2, k + 1)
BY DEF Close, AtMost

LEMMA OverviewWritten ==
    ASSUME NEW r, NEW f, NEW t, Changed(r, f, t), Rewritten("overview", f, t), OverviewInv
    PROVE  OverviewInv'
<1>1. OverviewFact(f, t) /\ OverviewFact(f, t)'
  BY ReportsNow DEF ReportsFact, Changed
<1>2. PICK p, p2, n, n2 :
        /\ p = Cardinality(PaidIn(f, t)) /\ p2 = Cardinality(PaidIn(f, t)')
        /\ n = Cardinality(CreatedIn(f, t)) /\ n2 = Cardinality(CreatedIn(f, t)')
  OBVIOUS
<1>3. PICK b, b2, c, c2 : /\ b \in 0..1 /\ b2 \in 0..1 /\ p2 = p + (b2 - b)
                          /\ c \in 0..1 /\ c2 \in 0..1 /\ n2 = n + (c2 - c)
  BY <1>2, TurnedCount DEF Changed
<1>4. PICK h, s, u, m, h2, s2, u2, m2, k :
        /\ h = SumOf(Figure("countsByProvider")) /\ s = Figure("countsByStatus")["PAID"]
        /\ u = SumOf(Figure("countsByStatus")) /\ m = Figure("count")
        /\ h2 = SumOf(Figure("countsByProvider")') /\ s2 = Figure("countsByStatus")'["PAID"]
        /\ u2 = SumOf(Figure("countsByStatus")') /\ m2 = Figure("count")' /\ k = report.writes
  OBVIOUS
<1>5. /\ Close(h, s, k) /\ Close(u, m, k) /\ k \in Nat /\ report'.writes = k + 1
      /\ h2 = h \/ h2 = h + (b2 - b)
      /\ s2 = s \/ s2 = s + (b2 - b)
      /\ u2 = u \/ u2 = u + (c2 - c)
      /\ m2 = m \/ m2 = m + (c2 - c)
  BY <1>1, <1>2, <1>3, <1>4 DEF OverviewInv, OverviewFact, Rewritten
<1>6. Close(h2, s2, k + 1) /\ Close(u2, m2, k + 1)
  BY <1>3, <1>5, OneNear
<1> QED
  BY <1>4, <1>5, <1>6 DEF OverviewInv

LEMMA MethodsWritten ==
    ASSUME NEW r, NEW f, NEW t, Changed(r, f, t), Rewritten("methods", f, t), MethodsInv
    PROVE  MethodsInv'
<1>1. "rides" \notin DOMAIN report.answer
  BY DEF Rewritten, Precedes, Order, Fields
<1>2. MethodsFact(f, t) /\ MethodsFact(f, t)'
  BY ReportsNow DEF ReportsFact, Changed
<1>3. PICK p2, n, n2 :
        /\ p2 = Cardinality(BilledOf(EndedIn(f, t))')
        /\ n = Cardinality(EndedIn(f, t)) /\ n2 = Cardinality(EndedIn(f, t)')
  OBVIOUS
<1>4. PICK b, b2 : b \in 0..1 /\ b2 \in 0..1 /\ n2 = n + (b2 - b) /\ n \in Nat /\ n2 \in Nat
  BY <1>3, TurnedCount DEF Changed
<1>5. PICK l, u, l2, u2, k :
        /\ l = SumOf(Figure("payments")) /\ l2 = SumOf(Figure("payments")')
        /\ u = Figure("rides") + Cardinality(Reopened(f, t))
        /\ u2 = Figure("rides")' + Cardinality(Reopened(f, t)') /\ k = report.writes
  OBVIOUS
<1>6. AtMost(l, u, k) /\ k \in Nat /\ report'.writes = k + 1
  BY <1>5 DEF MethodsInv, Rewritten
<1>7. u = n /\ u2 = n2 /\ p2 \in Nat /\ p2 <= n2 /\ (l2 = l \/ l2 = p2)
  BY <1>1, <1>2, <1>3, <1>5 DEF MethodsFact, Rewritten
<1>8. AtMost(l2, u2, k + 1)
  BY <1>4, <1>6, <1>7 DEF AtMost
<1> QED
  BY <1>5, <1>6, <1>8 DEF MethodsInv, Rewritten

LEMMA DriversWritten ==
    ASSUME NEW r, NEW f, NEW t, Changed(r, f, t), Rewritten("drivers", f, t), DriversInv
    PROVE  DriversInv'
<1>1. "drivers" \notin DOMAIN report.answer
  <2>1. Order("drivers") = <<"stats", "drivers">> /\ Fields["drivers"] = {"stats", "drivers"}
    BY DEF Order, Fields
  <2>2. Precedes("drivers", "stats", "drivers")
    BY <2>1 DEF Precedes
  <2> QED
    BY <2>1, <2>2 DEF Rewritten
<1>2. DriversFact(f, t) /\ DriversFact(f, t)'
  BY ReportsNow DEF ReportsFact, Changed
<1>3. PICK S : S = DOMAIN Figure("stats")'
  OBVIOUS
<1>4. S \subseteq hired'
  <2>1. "stats" \in DOMAIN report.answer => S = DOMAIN Figure("stats")
    BY <1>3 DEF Rewritten
  <2>2. "stats" \notin DOMAIN report.answer => S = DOMAIN Screen("drivers", f, t)'["stats"]
    BY <1>3 DEF Rewritten
  <2> QED
    BY <1>2, <2>1, <2>2 DEF DriversInv, DriversFact, Rewritten, Changed
<1>5. IsFiniteSet(hired')
  BY ReportsAssumption, FS_Subset DEF Changed, Tables
<1>6. Cardinality(S) <= Cardinality(hired')
  BY <1>4, <1>5, FS_Subset
<1>7. Figure("drivers")' = Cardinality(hired')
  BY <1>1, <1>2 DEF DriversFact, Rewritten
<1> QED
  BY <1>3, <1>4, <1>6, <1>7 DEF DriversInv

LEMMA RidesWritten ==
    ASSUME NEW r, NEW f, NEW t, Changed(r, f, t), Rewritten("rides", f, t), RidesInv
    PROVE  RidesInv'
<1>1. RidesFact(f, t) /\ RidesFact(f, t)'
  BY ReportsNow DEF ReportsFact, Changed
<1>2. PICK p, p2, n, n2 :
        /\ p = Cardinality(BilledOf(StartedIn(f, t)))
        /\ p2 = Cardinality(BilledOf(StartedIn(f, t))')
        /\ n = Cardinality(StartedIn(f, t)) /\ n2 = Cardinality(StartedIn(f, t)')
  OBVIOUS
<1>3. PICK b, b2, c, c2 : /\ b \in 0..1 /\ b2 \in 0..1 /\ p2 = p + (b2 - b)
                          /\ c \in 0..1 /\ c2 \in 0..1 /\ n2 = n + (c2 - c)
                          /\ b <= c /\ b2 <= c2
  <2>1. PICK S, T, B, C : /\ S = StartedIn(f, t) /\ T = StartedIn(f, t)'
                          /\ B = BilledOf(StartedIn(f, t)) /\ C = BilledOf(StartedIn(f, t))'
    OBVIOUS
  <2>2. Turned(S, T, r) /\ Turned(B, C, r)
    BY <2>1 DEF Changed
  <2>3. B \subseteq S /\ C \subseteq T
    BY <2>1 DEF BilledOf
  <2>4. Bit(r, B) <= Bit(r, S) /\ Bit(r, C) <= Bit(r, T)
    BY <2>3 DEF Bit
  <2> QED
    BY <1>2, <2>1, <2>2, <2>4, TurnedCount
<1>4. PICK s, u, m, s2, u2, m2, k :
        /\ s = SumOf(Figure("byStatus")) /\ u = SumOf(Figure("payments")) /\ m = Figure("count")
        /\ s2 = SumOf(Figure("byStatus")') /\ u2 = SumOf(Figure("payments")')
        /\ m2 = Figure("count")' /\ k = report.writes
  OBVIOUS
<1>5. /\ Close(s, m, k) /\ AtMost(u, m, k) /\ k \in Nat /\ report'.writes = k + 1
      /\ s2 = s \/ s2 = s + (c2 - c)
      /\ u2 = u \/ u2 = u + (b2 - b)
      /\ m2 = m \/ m2 = m + (c2 - c)
  BY <1>1, <1>2, <1>3, <1>4 DEF RidesInv, RidesFact, Rewritten
<1>6. Close(s2, m2, k + 1)
  BY <1>3, <1>5, OneNear
<1>7. AtMost(u2, m2, k + 1)
  BY <1>3, <1>5, OneApart
<1> QED
  BY <1>4, <1>5, <1>6, <1>7 DEF RidesInv

\* A list and its length.
LEMMA ListWritten ==
    ASSUME NEW S, NEW T, NEW r, Turned(S, T, r), NEW k \in Nat,
           NEW l, NEW n, Close(Cardinality(l), n, k), NEW l2, NEW n2,
           l2 = l \/ (l = S /\ l2 = T), n2 = n \/ (n = Cardinality(S) /\ n2 = Cardinality(T))
    PROVE  Close(Cardinality(l2), n2, k + 1)
<1>1. PICK c, d, b, b2 : /\ c = Cardinality(S) /\ d = Cardinality(T)
                         /\ b \in 0..1 /\ b2 \in 0..1 /\ d = c + (b2 - b)
  BY TurnedCount
<1>2. PICK m, m2 : m = Cardinality(l) /\ m2 = Cardinality(l2)
  OBVIOUS
<1>3. Close(m, n, k) /\ (m2 = m \/ m2 = m + (b2 - b)) /\ (n2 = n \/ n2 = n + (b2 - b))
  BY <1>1, <1>2
<1> QED
  BY <1>1, <1>2, <1>3, OneNear

LEMMA LiveWritten ==
    ASSUME NEW r, NEW f, NEW t, Changed(r, f, t), Rewritten("live", f, t), LiveInv
    PROVE  LiveInv'
<1>1. ListsFact(f, t) /\ ListsFact(f, t)'
  BY ReportsNow DEF ReportsFact, Changed
<1>2. PICK S, T, l, n, l2, n2, k :
        /\ S = OngoingList /\ T = OngoingList' /\ k = report.writes
        /\ l = Figure("list") /\ n = Figure("count")
        /\ l2 = Figure("list")' /\ n2 = Figure("count")'
  OBVIOUS
<1>3. /\ Turned(S, T, r) /\ Close(Cardinality(l), n, k) /\ k \in Nat /\ report'.writes = k + 1
      /\ l2 = l \/ (l = S /\ l2 = T)
      /\ n2 = n \/ (n = Cardinality(S) /\ n2 = Cardinality(T))
  BY <1>1, <1>2 DEF LiveInv, ListsFact, Rewritten, Changed
<1>4. Close(Cardinality(l2), n2, k + 1)
  BY <1>3, ListWritten
<1> QED
  BY <1>2, <1>3, <1>4 DEF LiveInv

LEMMA HistoryWritten ==
    ASSUME NEW r, NEW f, NEW t, Changed(r, f, t), Rewritten("history", f, t), HistoryInv
    PROVE  HistoryInv'
<1>1. ListsFact(f, t) /\ ListsFact(f, t)'
  BY ReportsNow DEF ReportsFact, Changed
<1>2. PICK S, T, l, n, l2, n2, k :
        /\ S = HistoryRides(f) /\ T = HistoryRides(f)' /\ k = report.writes
        /\ l = Figure("rides") /\ n = Figure("count")
        /\ l2 = Figure("rides")' /\ n2 = Figure("count")'
  OBVIOUS
<1>3. /\ Turned(S, T, r) /\ Close(Cardinality(l), n, k) /\ k \in Nat /\ report'.writes = k + 1
      /\ l2 = l \/ (l = S /\ l2 = T)
      /\ n2 = n \/ (n = Cardinality(S) /\ n2 = Cardinality(T))
  BY <1>1, <1>2 DEF HistoryInv, ListsFact, Rewritten, Changed
<1>4. Close(Cardinality(l2), n2, k + 1)
  BY <1>3, ListWritten
<1> QED
  BY <1>2, <1>3, <1>4 DEF HistoryInv

LEMMA TodayWritten ==
    ASSUME NEW r, NEW f, NEW t, Changed(r, f, t), Rewritten("today", f, t), TodayInv
    PROVE  TodayInv'
<1>1. ListsFact(f, t) /\ ListsFact(f, t)'
  BY ReportsNow DEF ReportsFact, Changed
<1>2. PICK P, A, P2, A2, k :
        /\ P = Figure("paid") /\ A = Figure("active") /\ k = report.writes
        /\ P2 = Figure("paid")' /\ A2 = Figure("active")'
  OBVIOUS
<1>3. /\ P \in SUBSET Rides /\ AtMost(Cardinality(P \cap A), 0, k) /\ k \in Nat
      /\ report'.writes = k + 1
  BY <1>2 DEF TodayInv, Rewritten
<1>4. P2 = P \/ Turned(P, P2, r)
  BY <1>1, <1>2 DEF ListsFact, Rewritten, Changed
<1>5. A2 = A \/ Turned(A, A2, r)
  BY <1>1, <1>2 DEF ListsFact, Rewritten, Changed
<1>6. P2 \in SUBSET Rides
  BY <1>3, <1>4 DEF Turned
<1>7. PICK I, J : I = P \cap A /\ J = P2 \cap A2
  OBVIOUS
<1>8. I \in SUBSET Rides /\ J \in SUBSET Rides /\ I \ {r} = J \ {r}
  BY <1>3, <1>4, <1>5, <1>6, <1>7 DEF Turned
<1>9. PICK m, m2, b, b2 : /\ m = Cardinality(I) /\ m2 = Cardinality(J)
                          /\ b \in 0..1 /\ b2 \in 0..1 /\ m2 = m + (b2 - b)
  <2>1. Turned(I, J, r)
    BY <1>8 DEF Turned
  <2> QED
    BY <2>1, TurnedCount
<1>10. AtMost(m2, 0, k + 1)
  BY <1>3, <1>7, <1>9 DEF AtMost
<1> QED
  BY <1>2, <1>3, <1>6, <1>7, <1>9, <1>10 DEF TodayInv

\* A ride is counted as one of the three at most, and only if it is counted at all.
LEMMA ShareOfRides ==
    ASSUME NEW r, NEW f, NEW t
    PROVE  LET B(s) == Bit(r, StartedAs(f, t, s))
           IN  B("COMPLETED") + B("CANCELLED") + B("ONGOING") <= Bit(r, StartedIn(f, t))
<1>1. \A s : r \in StartedAs(f, t, s) <=> r \in StartedIn(f, t) /\ rides[r].status = s
  BY DEF StartedAs
<1> QED
  BY <1>1 DEF Bit

LEMMA DashboardWritten ==
    ASSUME NEW r, NEW f, NEW t, Changed(r, f, t), Rewritten("dashboard", f, t), DashboardInv
    PROVE  DashboardInv'
<1>1. DashboardFact(f, t) /\ DashboardFact(f, t)'
  BY ReportsNow DEF ReportsFact, Changed
<1>2. PICK X, Y, Z, N, X2, Y2, Z2, N2 :
        /\ X = StartedAs(f, t, "COMPLETED") /\ X2 = StartedAs(f, t, "COMPLETED")'
        /\ Y = StartedAs(f, t, "CANCELLED") /\ Y2 = StartedAs(f, t, "CANCELLED")'
        /\ Z = StartedAs(f, t, "ONGOING")   /\ Z2 = StartedAs(f, t, "ONGOING")'
        /\ N = StartedIn(f, t) /\ N2 = StartedIn(f, t)'
  OBVIOUS
<1>3. Turned(X, X2, r) /\ Turned(Y, Y2, r) /\ Turned(Z, Z2, r) /\ Turned(N, N2, r)
  BY <1>2 DEF Changed, RideStatuses
<1>4. /\ Bit(r, X) + Bit(r, Y) + Bit(r, Z) <= Bit(r, N)
      /\ Bit(r, X2) + Bit(r, Y2) + Bit(r, Z2) <= Bit(r, N2)
  <2>1. Bit(r, X) + Bit(r, Y) + Bit(r, Z) <= Bit(r, N)
    BY <1>2, ShareOfRides
  <2>2. \A s : r \in StartedAs(f, t, s)' <=> r \in StartedIn(f, t)' /\ rides'[r].status = s
    BY DEF StartedAs
  <2>3. Bit(r, X2) + Bit(r, Y2) + Bit(r, Z2) <= Bit(r, N2)
    BY <1>2, <2>2 DEF Bit
  <2> QED
    BY <2>1, <2>3
<1>5. PICK bx, by, bz, bn, cx, cy, cz, cn :
        /\ bx = Bit(r, X) /\ by = Bit(r, Y) /\ bz = Bit(r, Z) /\ bn = Bit(r, N)
        /\ cx = Bit(r, X2) /\ cy = Bit(r, Y2) /\ cz = Bit(r, Z2) /\ cn = Bit(r, N2)
  OBVIOUS
<1>6. PICK x, y, z, n, a, x2, y2, z2, n2, a2, k :
        /\ x = Figure("completed") /\ y = Figure("cancelled") /\ z = Figure("ongoing")
        /\ n = Figure("rides") /\ a = Figure("active") /\ x2 = Figure("completed")'
        /\ y2 = Figure("cancelled")' /\ z2 = Figure("ongoing")' /\ n2 = Figure("rides")'
        /\ a2 = Figure("active")' /\ k = report.writes
  OBVIOUS
<1>7. /\ x \in Int /\ y \in Int /\ z \in Int /\ n \in Int /\ a \in Int /\ k \in Nat
      /\ x + y + z <= n + k /\ a <= x + k /\ report'.writes = k + 1
  BY <1>6 DEF DashboardInv, AtMost, Rewritten
<1>8. PICK vx, vy, vz, vn, wx, wy, wz, wn :
        /\ vx = Cardinality(X) /\ vy = Cardinality(Y) /\ vz = Cardinality(Z)
        /\ vn = Cardinality(N) /\ wx = Cardinality(X2) /\ wy = Cardinality(Y2)
        /\ wz = Cardinality(Z2) /\ wn = Cardinality(N2)
  OBVIOUS
<1>9. /\ wx = vx + (cx - bx) /\ bx \in 0..1 /\ cx \in 0..1 /\ vx \in Nat /\ wx \in Nat
      /\ wy = vy + (cy - by) /\ by \in 0..1 /\ cy \in 0..1
      /\ wz = vz + (cz - bz) /\ bz \in 0..1 /\ cz \in 0..1
      /\ wn = vn + (cn - bn) /\ bn \in 0..1 /\ cn \in 0..1
  BY <1>3, <1>5, <1>8, TurnedCount
<1>10. /\ x2 = x \/ (x = vx /\ x2 = wx)
       /\ y2 = y \/ (y = vy /\ y2 = wy)
       /\ z2 = z \/ (z = vz /\ z2 = wz)
       /\ n2 = n \/ (n = vn /\ n2 = wn)
  BY <1>1, <1>2, <1>6, <1>8 DEF DashboardFact, Rewritten
<1>11. bx + by + bz <= bn /\ cx + cy + cz <= cn
  BY <1>4, <1>5
<1>12. /\ x2 \in Int /\ y2 \in Int /\ z2 \in Int /\ n2 \in Int
       /\ x2 + y2 + z2 <= n2 + (k + 1)
  <2>1. /\ x2 = x \/ x2 = x + (cx - bx)
        /\ y2 = y \/ y2 = y + (cy - by)
        /\ z2 = z \/ z2 = z + (cz - bz)
        /\ n2 = n \/ n2 = n + (cn - bn)
    BY <1>9, <1>10
  <2> QED
    BY <1>7, <1>9, <1>11, <2>1
<1>13. a2 \in Int /\ a2 <= x2 + (k + 1)
  <2>1. PICK D, D2, d : /\ D = ActiveDrivers(f, t) /\ D2 = ActiveDrivers(f, t)'
                        /\ D2 \subseteq D \cup {d}
    BY DEF Changed
  <2>2. PICK c, c2 : c = Cardinality(D) /\ c2 = Cardinality(D2)
    OBVIOUS
  <2>3. IsFiniteSet(D) /\ c \in Nat /\ c2 \in Nat /\ c2 <= wx
    BY <1>1, <1>2, <1>8, <2>1, <2>2 DEF DashboardFact
  <2>4. c2 <= c + 1
    <3>1. PICK e : e = Cardinality(D \cup {d})
      OBVIOUS
    <3>2. IsFiniteSet(D \cup {d}) /\ e \in Nat /\ e <= c + 1
      <4>1. /\ IsFiniteSet(D \cup {d})
            /\ Cardinality(D \cup {d}) = IF d \in D THEN Cardinality(D) ELSE Cardinality(D) + 1
        BY <2>3, FS_AddElement
      <4>2. e = IF d \in D THEN c ELSE c + 1
        BY <2>2, <3>1, <4>1
      <4> QED
        BY <2>3, <4>1, <4>2
    <3>3. c2 <= e
      BY <2>1, <2>2, <3>1, <3>2, FS_Subset
    <3> QED
      BY <2>3, <3>2, <3>3
  <2>5. a2 = a \/ (a = c /\ a2 = c2)
    BY <1>1, <1>6, <2>1, <2>2 DEF DashboardFact, Rewritten
  <2>6. /\ "active" \in DOMAIN report.answer => a2 = a
        /\ "active" \notin DOMAIN report.answer => a = c /\ a2 = c2
        /\ "completed" \in DOMAIN report.answer => x2 = x
        /\ "completed" \notin DOMAIN report.answer => x2 = wx
    BY <1>1, <1>2, <1>6, <1>8, <2>1, <2>2 DEF DashboardFact, Rewritten
  <2>7. CASE a2 = a
    <3>1. x2 = x \/ x2 = x + (cx - bx)
      BY <1>9, <1>10
    <3> QED
      BY <1>7, <1>9, <2>7, <3>1
  <2>8. CASE a = c /\ a2 = c2 /\ x2 = x
    BY <1>7, <2>3, <2>4, <2>8
  <2>9. CASE a2 = c2 /\ x2 = wx
    BY <1>7, <1>9, <2>3, <2>9
  <2> QED
    BY <2>6, <2>7, <2>8, <2>9
<1> QED
  BY <1>6, <1>7, <1>12, <1>13 DEF DashboardInv, AtMost

-----------------------------------------------------------------------------
LEMMA KeptFigures == ASSUME Kept, FiguresInv PROVE FiguresInv'
<1>1. \A f, t : Reopened(f, t)' = Reopened(f, t)
  BY DEF Kept, tables, Reopened, EndedIn, InRange, Completed
<1>2. hired' = hired
  BY DEF Kept, tables
<1> QED
  BY <1>1, <1>2 DEF Kept, FiguresInv, OverviewInv, MethodsInv, DriversInv, DashboardInv,
                    RidesInv, LiveInv, HistoryInv, TodayInv

LEMMA SentFigures == ASSUME Sent PROVE FiguresInv'
BY DEF Sent, NoReport, FiguresInv, OverviewInv, MethodsInv, DriversInv, DashboardInv, RidesInv,
       LiveInv, HistoryInv, TodayInv

LEMMA SameIsNear == \A n \in Nat : AtMost(n, n, 0) /\ Close(n, n, 0)
BY DEF AtMost, Close

LEMMA BegunFigures ==
    ASSUME Tables, UNCHANGED tables, Tables', NEW kind, NEW f, NEW t,
           report'.kind = kind, report'.from = f, report'.to = t, report'.writes = 0,
           DOMAIN report'.answer = {}
    PROVE  FiguresInv'
<1>1. \A q : Figure(q)' = Screen(kind, f, t)'[q]
  BY DEF Figure
<1>2. /\ OverviewFact(f, t)' /\ MethodsFact(f, t)' /\ DriversFact(f, t)'
      /\ DashboardFact(f, t)' /\ RidesFact(f, t)' /\ ListsFact(f, t)'
  BY ReportsNow DEF ReportsFact
<1>3. \E r : Changed(r, f, t)
  <2>1. PICK r : \A x \in Rides \ {r} : rides'[x] = rides[x] /\ payments'[x] = payments[x]
    BY DEF tables
  <2> QED
    BY <2>1, WriteChanges DEF tables
<1>4. PICK r : Changed(r, f, t)
  BY <1>3
<1>5. OverviewInv'
  <2>1. Cardinality(PaidIn(f, t)') \in Nat /\ Cardinality(CreatedIn(f, t)') \in Nat
    BY <1>4, TurnedCount DEF Changed
  <2> QED
    BY <1>1, <1>2, <2>1, SameIsNear DEF OverviewInv, OverviewFact
<1>6. MethodsInv'
  <2>1. Cardinality(EndedIn(f, t)') \in Nat
    BY <1>4, TurnedCount DEF Changed
  <2> QED
    BY <1>1, <1>2, <2>1 DEF MethodsInv, MethodsFact, AtMost
<1>7. DriversInv'
  <2> SUFFICES ASSUME kind = "drivers" PROVE DriversInv'
    BY DEF DriversInv
  <2>1. PICK S : S = DOMAIN Figure("stats")'
    OBVIOUS
  <2>2. S \subseteq hired' /\ Figure("drivers")' = Cardinality(hired')
    BY <1>1, <1>2, <2>1 DEF DriversFact
  <2>3. IsFiniteSet(hired')
    BY ReportsAssumption, FS_Subset DEF Tables
  <2>4. Cardinality(S) <= Cardinality(hired')
    BY <2>2, <2>3, FS_Subset
  <2> QED
    BY <2>1, <2>2, <2>4 DEF DriversInv
<1>8. DashboardInv'
  <2> SUFFICES ASSUME kind = "dashboard" PROVE DashboardInv'
    BY DEF DashboardInv
  <2>1. PICK X, Y, Z, N : /\ X = StartedAs(f, t, "COMPLETED")' /\ Y = StartedAs(f, t, "CANCELLED")'
                          /\ Z = StartedAs(f, t, "ONGOING")' /\ N = StartedIn(f, t)'
    OBVIOUS
  <2>2. /\ X \subseteq N /\ Y \subseteq N /\ Z \subseteq N /\ N \in SUBSET Rides
        /\ X \cap Y = {} /\ (X \cup Y) \cap Z = {}
    <3>1. \A x, s : x \in StartedAs(f, t, s)' <=> x \in StartedIn(f, t)' /\ rides'[x].status = s
      BY DEF StartedAs
    <3>2. N \in SUBSET Rides
      BY <2>1 DEF StartedIn
    <3> QED
      BY <2>1, <3>1, <3>2
  <2>3. PICK x, y, z, n, u, v : /\ x = Cardinality(X) /\ y = Cardinality(Y) /\ z = Cardinality(Z)
                                /\ n = Cardinality(N) /\ u = Cardinality(X \cup Y)
                                /\ v = Cardinality((X \cup Y) \cup Z)
    OBVIOUS
  <2>4. /\ IsFiniteSet(X) /\ IsFiniteSet(Y) /\ IsFiniteSet(Z) /\ IsFiniteSet(N)
        /\ IsFiniteSet(X \cup Y) /\ x \in Nat /\ y \in Nat /\ z \in Nat /\ n \in Nat
    BY <2>2, <2>3, RidesAreFinite
  <2>5. u = x + y
    <3>1. Cardinality(X \cup Y) = Cardinality(X) + Cardinality(Y) - Cardinality(X \cap Y)
      BY <2>4, FS_Union
    <3>2. Cardinality(X \cap Y) = 0
      BY <2>2, FS_EmptySet
    <3> QED
      BY <2>3, <2>4, <3>1, <3>2
  <2>6. v = u + z
    <3>1. Cardinality((X \cup Y) \cup Z) =
            Cardinality(X \cup Y) + Cardinality(Z) - Cardinality((X \cup Y) \cap Z)
      BY <2>4, FS_Union
    <3>2. PICK w : w = Cardinality((X \cup Y) \cap Z)
      OBVIOUS
    <3>3. w = 0
      BY <2>2, <3>2, FS_EmptySet
    <3>4. v = u + z - w
      BY <2>3, <3>1, <3>2
    <3> QED
      BY <2>4, <2>5, <3>3, <3>4
  <2>7. v <= n
    <3>1. (X \cup Y) \cup Z \subseteq N
      BY <2>2
    <3> QED
      BY <2>3, <2>4, <3>1, FS_Subset
  <2>8. /\ Figure("completed")' = x /\ Figure("cancelled")' = y /\ Figure("ongoing")' = z
        /\ Figure("rides")' = n /\ Figure("active")' \in Nat /\ Figure("active")' <= x
    BY <1>1, <1>2, <2>1, <2>3 DEF DashboardFact
  <2>9. x + y + z <= n
    BY <2>4, <2>5, <2>6, <2>7
  <2> QED
    BY <2>4, <2>8, <2>9 DEF DashboardInv, AtMost
<1>9. RidesInv'
  <2> SUFFICES ASSUME kind = "rides" PROVE RidesInv'
    BY DEF RidesInv
  <2>1. PICK S, B : S = StartedIn(f, t)' /\ B = BilledOf(StartedIn(f, t))'
    OBVIOUS
  <2>2. B \subseteq S /\ S \in SUBSET Rides
    BY <2>1 DEF BilledOf, StartedIn
  <2>3. PICK n, b : n = Cardinality(S) /\ b = Cardinality(B)
    OBVIOUS
  <2>4. n \in Nat /\ b \in Nat /\ b <= n
    BY <2>2, <2>3, RidesAreFinite, FS_Subset
  <2>5. /\ SumOf(Figure("byStatus")') = n /\ Figure("count")' = n
        /\ SumOf(Figure("payments")') = b
    BY <1>1, <1>2, <2>1, <2>3 DEF RidesFact
  <2> QED
    BY <2>4, <2>5 DEF RidesInv, AtMost, Close
<1>10. LiveInv' /\ HistoryInv'
  <2>1. Cardinality(OngoingList') \in Nat /\ Cardinality(HistoryRides(f)') \in Nat
    BY <1>4, TurnedCount DEF Changed
  <2> QED
    BY <1>1, <1>2, <2>1, SameIsNear DEF LiveInv, HistoryInv, ListsFact
<1>11. TodayInv'
  <2>1. PaidToday(t)' \in SUBSET Rides
    BY <1>4 DEF Changed, Turned
  <2>2. kind = "today" => Cardinality(Figure("paid")' \cap Figure("active")') = 0
    BY <1>1, <1>2, FS_EmptySet DEF ListsFact
  <2> QED
    BY <1>1, <1>2, <2>1, <2>2 DEF TodayInv, ListsFact, AtMost
<1> QED
  BY <1>5, <1>6, <1>7, <1>8, <1>9, <1>10, <1>11 DEF FiguresInv

LEMMA WrittenFigures ==
    ASSUME Asked, FiguresInv, Meanwhile(1), UNCHANGED clock,
           NEW r, \A f, t : Changed(r, f, t)
    PROVE  FiguresInv'
<1>1. CASE Sent
  BY <1>1, SentFigures
<1>2. CASE Counted(1) /\ report.kind # "none"
  <2>1. PICK k, f, t : k = report.kind /\ f = report.from /\ t = report.to
    OBVIOUS
  <2>2. Rewritten(k, f, t)
    BY <1>2, <2>1, WriteRewrites
  <2>3. Changed(r, f, t)
    OBVIOUS
  <2>4. report'.kind = k
    BY <2>2 DEF Rewritten
  <2>5. k = "overview" => OverviewInv'
    BY <2>2, <2>3, OverviewWritten DEF FiguresInv
  <2>6. k = "methods" => MethodsInv'
    BY <2>2, <2>3, MethodsWritten DEF FiguresInv
  <2>7. k = "drivers" => DriversInv'
    BY <2>2, <2>3, DriversWritten DEF FiguresInv
  <2>8. k = "dashboard" => DashboardInv'
    BY <2>2, <2>3, DashboardWritten DEF FiguresInv
  <2>9. k = "rides" => RidesInv'
    BY <2>2, <2>3, RidesWritten DEF FiguresInv
  <2>10. k = "live" => LiveInv'
    BY <2>2, <2>3, LiveWritten DEF FiguresInv
  <2>11. k = "history" => HistoryInv'
    BY <2>2, <2>3, HistoryWritten DEF FiguresInv
  <2>12. k = "today" => TodayInv'
    BY <2>2, <2>3, TodayWritten DEF FiguresInv
  <2>13. /\ k # "overview" => OverviewInv'
         /\ k # "methods" => MethodsInv'
         /\ k # "drivers" => DriversInv'
         /\ k # "dashboard" => DashboardInv'
         /\ k # "rides" => RidesInv'
         /\ k # "live" => LiveInv'
         /\ k # "history" => HistoryInv'
         /\ k # "today" => TodayInv'
    BY <2>4 DEF OverviewInv, MethodsInv, DriversInv, DashboardInv, RidesInv, LiveInv,
                HistoryInv, TodayInv
  <2> QED
    BY <2>5, <2>6, <2>7, <2>8, <2>9, <2>10, <2>11, <2>12, <2>13 DEF FiguresInv
<1> QED
  BY <1>1, <1>2, MeanwhileIs

\* The steps, by what they do to the report.
LEMMA FiguresStep == Base /\ FiguresInv /\ [Next]_vars => FiguresInv'
<1> SUFFICES ASSUME Base, FiguresInv, [Next]_vars PROVE FiguresInv'
  OBVIOUS
<1>1. Tables /\ Tables' /\ Asked
  BY BaseStep DEF Base
<1>2. ASSUME NEW d \in Drivers, Hire(d) PROVE FiguresInv'
  <2>1. hired \subseteq hired' /\ UNCHANGED <<rides, payments, clock>> /\ Meanwhile(1)
    BY <1>1, <1>2, HireIs
  <2>2. \A f, t : Changed(d, f, t)
    BY <1>1, <2>1, WriteChanges
  <2> QED
    BY <1>1, <2>1, <2>2, WrittenFigures
<1>3. ASSUME NEW r \in Rides, WritesOf(r) PROVE FiguresInv'
  <2>1. Moved(r) /\ Meanwhile(1)
    BY <1>1, <1>3, WriteMoves
  <2>2. \A f, t : Changed(r, f, t)
    BY <2>1, WriteChanges DEF Moved
  <2> QED
    BY <1>1, <2>1, <2>2, WrittenFigures DEF Moved
<1>4. ASSUME UNCHANGED <<tables, report>> PROVE FiguresInv'
  <2>1. Kept
    BY <1>4, FiguresStay
  <2> QED
    BY <2>1, KeptFigures
<1>5. CASE Tick
  BY <1>1, <1>4, <1>5, TickIs, SentFigures
<1>6. ASSUME NEW kind \in Kinds, NEW from \in 1..clock, BeginReport(kind, from)
      PROVE  FiguresInv'
  <2>1. PICK t : t = clock
    OBVIOUS
  <2>2. /\ report'.kind = kind /\ report'.writes = 0 /\ UNCHANGED tables
        /\ DOMAIN report'.answer = {} /\ report'.from = from /\ report'.to = t
    BY <1>1, <1>6, <2>1, BegunIsAsked
  <2> QED
    BY <1>1, <2>2, BegunFigures
<1>7. CASE (\E q \in report.todo : Answer(q)) \/ AnswerRest
  <2>1. UNCHANGED tables /\ (Sent \/ \E Q \in SUBSET report.todo : Answered(Q))
    BY <1>1, <1>7, AnswersAre
  <2>2. ASSUME NEW Q \in SUBSET report.todo, Answered(Q) PROVE Kept
    BY <2>1, <2>2, FiguresStay DEF Answered, Keeps
  <2> QED
    BY <2>1, <2>2, SentFigures, KeptFigures
<1> QED
  BY <1>2, <1>3, <1>4, <1>5, <1>6, <1>7 DEF Next, WritesOf, vars

LEMMA FiguresInit == Init => FiguresInv
BY DEF Init, NoReport, FiguresInv, OverviewInv, MethodsInv, DriversInv, DashboardInv, RidesInv,
       LiveInv, HistoryInv, TodayInv

\* All questions answered, the figures are the answer.
LEMMA DoneIsAnswered ==
    ASSUME Asked, NEW kind \in Kinds, Done(kind)
    PROVE  report.kind = kind /\ \A q \in Fields[kind] : Figure(q) = report.answer[q]
<1>1. report.kind = kind /\ report.kind # "none" /\ report.todo = {}
  BY DEF Done, Kinds
<1> QED
  BY <1>1 DEF Asked, Figure

LEMMA FiguresAreNear == Base /\ FiguresInv => ApartByWritesOnly
<1> SUFFICES ASSUME Asked, FiguresInv PROVE ApartByWritesOnly
  BY DEF Base
<1> DEFINE a == report.answer
<1>0. report.writes \in Nat
  BY DEF Asked
<1>1. ASSUME Done("overview")
      PROVE  /\ Close(SumOf(a["countsByProvider"]), a["countsByStatus"]["PAID"], report.writes)
             /\ Close(SumOf(a["countsByStatus"]), a["count"], report.writes)
  <2>1. /\ report.kind = "overview" /\ Figure("countsByProvider") = a["countsByProvider"]
        /\ Figure("countsByStatus") = a["countsByStatus"] /\ Figure("count") = a["count"]
    BY <1>1, DoneIsAnswered DEF Kinds, Fields
  <2> QED
    BY <2>1 DEF FiguresInv, OverviewInv
<1>2. ASSUME Done("methods")
      PROVE  AtMost(SumOf(a["payments"]),
                    a["rides"] + Cardinality(Reopened(report.from, report.to)), report.writes)
  <2>1. /\ report.kind = "methods" /\ Figure("payments") = a["payments"]
        /\ Figure("rides") = a["rides"]
    BY <1>2, DoneIsAnswered DEF Kinds, Fields
  <2> QED
    BY <2>1 DEF FiguresInv, MethodsInv
<1>3. ASSUME Done("drivers") PROVE Cardinality(DOMAIN a["stats"]) <= a["drivers"]
  <2>1. /\ report.kind = "drivers" /\ Figure("stats") = a["stats"]
        /\ Figure("drivers") = a["drivers"]
    BY <1>3, DoneIsAnswered DEF Kinds, Fields
  <2> QED
    BY <2>1 DEF FiguresInv, DriversInv
<1>4. ASSUME Done("dashboard")
      PROVE  /\ AtMost(a["completed"] + a["cancelled"] + a["ongoing"], a["rides"], report.writes)
             /\ AtMost(a["active"], a["completed"], report.writes)
  <2>1. /\ report.kind = "dashboard" /\ Figure("completed") = a["completed"]
        /\ Figure("cancelled") = a["cancelled"] /\ Figure("ongoing") = a["ongoing"]
        /\ Figure("rides") = a["rides"] /\ Figure("active") = a["active"]
    BY <1>4, DoneIsAnswered DEF Kinds, Fields
  <2> QED
    BY <2>1 DEF FiguresInv, DashboardInv
<1>5. ASSUME Done("rides")
      PROVE  /\ Close(SumOf(a["byStatus"]), a["count"], report.writes)
             /\ AtMost(SumOf(a["payments"]), a["count"], report.writes)
  <2>1. /\ report.kind = "rides" /\ Figure("byStatus") = a["byStatus"]
        /\ Figure("count") = a["count"] /\ Figure("payments") = a["payments"]
    BY <1>5, DoneIsAnswered DEF Kinds, Fields
  <2> QED
    BY <2>1 DEF FiguresInv, RidesInv
<1>6. ASSUME Done("live") PROVE Close(Cardinality(a["list"]), a["count"], report.writes)
  <2>1. report.kind = "live" /\ Figure("list") = a["list"] /\ Figure("count") = a["count"]
    BY <1>6, DoneIsAnswered DEF Kinds, Fields
  <2> QED
    BY <2>1 DEF FiguresInv, LiveInv
<1>7. ASSUME Done("history") PROVE Close(Cardinality(a["rides"]), a["count"], report.writes)
  <2>1. report.kind = "history" /\ Figure("rides") = a["rides"] /\ Figure("count") = a["count"]
    BY <1>7, DoneIsAnswered DEF Kinds, Fields
  <2> QED
    BY <2>1 DEF FiguresInv, HistoryInv
<1>8. ASSUME Done("today")
      PROVE  AtMost(Cardinality(a["paid"] \cap a["active"]), 0, report.writes)
  <2>1. report.kind = "today" /\ Figure("paid") = a["paid"] /\ Figure("active") = a["active"]
    BY <1>8, DoneIsAnswered DEF Kinds, Fields
  <2> QED
    BY <2>1 DEF FiguresInv, TodayInv
<1> QED
  BY <1>1, <1>2, <1>3, <1>4, <1>5, <1>6, <1>7, <1>8 DEF ApartByWritesOnly, AtMost, Close

\* Whatever starts, late promotions, ends, reopened, deleted and changed payments do
\* between its queries, the counts of one answer are apart by the writes at most.
THEOREM AnswersAreApartByWrites == Spec => []ApartByWritesOnly
<1>1. Init => Base /\ FiguresInv
  BY BaseInit, FiguresInit
<1>2. Base /\ FiguresInv /\ [Next]_vars => (Base /\ FiguresInv)'
  BY BaseStep, FiguresStep
<1> QED
  BY <1>1, <1>2, FiguresAreNear, PTL DEF Spec

=============================================================================
