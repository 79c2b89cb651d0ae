---- MODULE CountingTheorems ----
EXTENDS Naturals, Functions, FiniteSetTheorems, WellFoundedInduction, TLAPS

-----------------------------------------------------------------------------
(* Induction over the naturals *)

\* A set of naturals has a least element.
LEMMA LeastNat == ASSUME NEW S, S \subseteq Nat, S # {} PROVE \E m \in S : \A n \in S : m <= n
<1> DEFINE R == {ss \in Nat \X Nat : ss[1] < ss[2]}
<1>1. OpToRel(<, Nat) = R
  BY Zenon DEF OpToRel
<1>2. IsWellFoundedOn(OpToRel(<, Nat), Nat)
  BY Zenon, NatLessThanWellFounded
<1>3. IsWellFoundedOn(R, Nat)
  BY <1>1, <1>2, Zenon
<1>4. ASSUME NEW x \in Nat, NEW y \in Nat, x < y PROVE <<x, y>> \in R
  BY <1>4
<1> HIDE DEF R
<1>5. PICK m \in S : \A y \in S : ~ (<<y, m>> \in R)
  BY <1>3, WFMin
<1>6. ASSUME NEW n \in S PROVE m <= n
  <2>1. m \in Nat /\ n \in Nat
    OBVIOUS
  <2>2. ~(n < m)
    BY <1>4, <1>5, <2>1
  <2> QED
    BY <2>1, <2>2
<1> QED
  BY <1>6

\* Induction over the naturals, stated for a set.
LEMMA NatInductionOnSet ==
    ASSUME NEW S, 0 \in S, \A n \in Nat : n \in S => n + 1 \in S
    PROVE  Nat \subseteq S
<1> DEFINE Bad == {n \in Nat : n \notin S}
<1>1. SUFFICES ASSUME Bad # {} PROVE FALSE
  OBVIOUS
<1>2. PICK m \in Bad : \A n \in Bad : m <= n
  BY <1>1, LeastNat
<1>3. m \in Nat /\ m # 0
  BY <1>2
<1>4. m - 1 \in Nat /\ ~(m <= m - 1)
  BY <1>3
<1>5. m - 1 \in S
  BY <1>2, <1>4
<1>6. (m - 1) + 1 \in S
  BY <1>4, <1>5
<1> QED
  BY <1>2, <1>3, <1>6

-----------------------------------------------------------------------------
(* Sums over finite sets *)

\* One step of the fold, given the sums of the smaller sets.
SumStep(f, g, s) == IF s = {} THEN 0 ELSE f[CHOOSE x \in s : TRUE] + g[s \ {CHOOSE x \in s : TRUE}]

\* g has the sums of f over the members of D.
SumsOn(f, g, D) == g = [s \in D |-> SumStep(f, g, s)]

\* The fold is the sum that its last call returns, if such a function exists.
LEMMA SumIsFold ==
    ASSUME NEW f, NEW T
    PROVE  SumFunctionOnSet(f, T) = (CHOOSE g : SumsOn(f, g, SUBSET T))[T]
BY Zenon DEF SumFunctionOnSet, FoldFunctionOnSet, MapThenFoldSet, SumsOn, SumStep

\* The part of a finite set that is left is smaller.
LEMMA SmallerSet ==
    ASSUME NEW s, IsFiniteSet(s), NEW x \in s
    PROVE  /\ IsFiniteSet(s \ {x}) /\ Cardinality(s) \in Nat \ {0}
           /\ Cardinality(s \ {x}) = Cardinality(s) - 1
<1>1. IsFiniteSet(s \ {x}) /\ Cardinality(s \ {x}) = Cardinality(s) - 1
  BY FS_RemoveElement
<1>2. Cardinality(s) \in Nat /\ Cardinality(s \ {x}) \in Nat
  BY <1>1, FS_CardinalityType
<1> QED
  BY <1>1, <1>2

\* What holds of a finite set as soon as it holds of all smaller ones.
LEMMA SetInduction ==
    ASSUME NEW T, IsFiniteSet(T), NEW S,
           \A s \in SUBSET T : (\A r \in SUBSET s : r # s => r \in S) => s \in S
    PROVE  T \in S
<1> DEFINE Good == {n \in Nat : \A s \in SUBSET T : Cardinality(s) <= n => s \in S}
<1>1. \A s \in SUBSET T : IsFiniteSet(s) /\ Cardinality(s) \in Nat
  BY FS_Subset, FS_CardinalityType
<1>2. \A s \in SUBSET T : \A r \in SUBSET s : r # s => Cardinality(r) < Cardinality(s)
  <2> SUFFICES ASSUME NEW s \in SUBSET T, NEW r \in SUBSET s, r # s PROVE Cardinality(r) < Cardinality(s)
    OBVIOUS
  <2>1. IsFiniteSet(s) /\ Cardinality(s) \in Nat /\ Cardinality(r) \in Nat
    BY <1>1
  <2>2. Cardinality(r) <= Cardinality(s) /\ (Cardinality(r) = Cardinality(s) => r = s)
    BY <2>1, FS_Subset
  <2> QED
    BY <2>1, <2>2
<1>3. 0 \in Good
  <2>1. ASSUME NEW s \in SUBSET T, Cardinality(s) <= 0 PROVE s \in S
    <3>1. \A r \in SUBSET s : r = s
      <4> SUFFICES ASSUME NEW r \in SUBSET s, r # s PROVE FALSE
        OBVIOUS
      <4>1. Cardinality(r) < Cardinality(s) /\ Cardinality(r) \in Nat /\ Cardinality(s) \in Nat
        BY <1>1, <1>2
      <4> QED
        BY <2>1, <4>1
    <3> QED
      BY <3>1
  <2> QED
    BY <2>1
<1>4. ASSUME NEW n \in Nat, n \in Good PROVE n + 1 \in Good
  <2> SUFFICES ASSUME NEW s \in SUBSET T, Cardinality(s) <= n + 1 PROVE s \in S
    OBVIOUS
  <2>1. ASSUME NEW r \in SUBSET s, r # s PROVE r \in S
    <3>1. Cardinality(r) < Cardinality(s) /\ Cardinality(r) \in Nat /\ Cardinality(s) \in Nat
      BY <1>1, <1>2, <2>1
    <3>2. Cardinality(r) <= n
      BY <3>1
    <3> QED
      BY <1>4, <3>2
  <2> QED
    BY <2>1
<1>5. Nat \subseteq Good
  <2> HIDE DEF Good
  <2> QED
    BY <1>3, <1>4, NatInductionOnSet
<1> QED
  BY <1>1, <1>5

\* Each finite set has the function that the fold unfolds.
LEMMA SumsExist ==
    ASSUME NEW f, NEW T, IsFiniteSet(T)
    PROVE  \E g : SumsOn(f, g, SUBSET T)
<1> DEFINE D(k) == {s \in SUBSET T : Cardinality(s) <= k}
           Good == {k \in Nat : \E g : SumsOn(f, g, D(k))}
<1>1. \A s \in SUBSET T : /\ IsFiniteSet(s) /\ Cardinality(s) \in Nat
                          /\ Cardinality(s) <= Cardinality(T)
  BY FS_Subset, FS_CardinalityType
<1>2. 0 \in Good
  <2>1. \A s \in D(0) : s = {}
    <3> SUFFICES ASSUME NEW s \in D(0) PROVE s = {}
      OBVIOUS
    <3>1. IsFiniteSet(s) /\ Cardinality(s) = 0
      BY <1>1
    <3> QED
      BY <3>1, FS_EmptySet
  <2> DEFINE g == [s \in D(0) |-> 0]
  <2>2. g = [s \in D(0) |-> SumStep(f, g, s)]
    BY <2>1 DEF SumStep
  <2> QED
    BY <2>2 DEF SumsOn
<1>3. ASSUME NEW k \in Nat, k \in Good PROVE k + 1 \in Good
  <2>1. PICK g : SumsOn(f, g, D(k))
    BY <1>3
  <2> DEFINE h == [s \in D(k + 1) |-> SumStep(f, g, s)]
  <2>2. ASSUME NEW s \in D(k + 1) PROVE h[s] = SumStep(f, h, s)
    <3>1. CASE s = {}
      BY <2>2, <3>1 DEF SumStep
    <3>2. CASE s # {}
      <4>1. PICK x \in s : x = CHOOSE y \in s : TRUE
        BY <3>2
      <4>2. PICK r : r = s \ {x}
        OBVIOUS
      <4>3. r \in D(k) /\ r \in D(k + 1)
        <5>1. /\ IsFiniteSet(s) /\ Cardinality(s) <= k + 1 /\ Cardinality(s) \in Nat
          BY <1>1
        <5>2. Cardinality(r) = Cardinality(s) - 1
          BY <4>2, <5>1, SmallerSet
        <5> QED
          BY <4>2, <5>1, <5>2
      <4>4. h[r] = SumStep(f, g, r) /\ g[r] = SumStep(f, g, r)
        BY <2>1, <4>3 DEF SumsOn
      <4>5. SumStep(f, h, s) = f[x] + h[r] /\ SumStep(f, g, s) = f[x] + g[r]
        BY <3>2, <4>1, <4>2 DEF SumStep
      <4>6. h[s] = SumStep(f, g, s)
        OBVIOUS
      <4> HIDE DEF h
      <4> QED
        BY <4>4, <4>5, <4>6
    <3> QED
      BY <3>1, <3>2
  <2>3. h = [s \in D(k + 1) |-> h[s]]
    OBVIOUS
  <2>4. SumsOn(f, h, D(k + 1))
    <3> HIDE DEF h, D
    <3> QED
      BY <2>2, <2>3 DEF SumsOn
  <2> HIDE DEF h, D
  <2> QED
    BY <2>4
<1>4. Nat \subseteq Good
  <2> HIDE DEF Good
  <2> QED
    BY <1>2, <1>3, NatInductionOnSet
<1>5. Cardinality(T) \in Nat /\ D(Cardinality(T)) = SUBSET T
  BY <1>1, FS_CardinalityType
<1>6. PICK g : SumsOn(f, g, D(Cardinality(T)))
  BY <1>4, <1>5
<1> QED
  BY <1>5, <1>6

\* The function of a set and the one of a larger set agree.
LEMMA SumsAgree ==
    ASSUME NEW f, NEW T, NEW U, IsFiniteSet(U), U \subseteq T
    PROVE  \A g, h : SumsOn(f, g, SUBSET T) /\ SumsOn(f, h, SUBSET U) => g[U] = h[U]
<1> SUFFICES ASSUME NEW g, NEW h, SumsOn(f, g, SUBSET T), SumsOn(f, h, SUBSET U)
             PROVE  g[U] = h[U]
  OBVIOUS
<1> DEFINE S == {s \in SUBSET U : g[s] = h[s]}
<1>1. ASSUME NEW s \in SUBSET U, \A r \in SUBSET s : r # s => r \in S PROVE s \in S
  <2>1. g[s] = SumStep(f, g, s) /\ h[s] = SumStep(f, h, s)
    BY DEF SumsOn
  <2>2. CASE s = {}
    BY <2>1, <2>2 DEF SumStep
  <2>3. CASE s # {}
    <3>1. PICK x \in s : x = CHOOSE y \in s : TRUE
      BY <2>3
    <3>2. s \ {x} \in S
      BY <1>1
    <3>3. g[s \ {x}] = h[s \ {x}]
      BY <3>2
    <3> QED
      BY <2>1, <2>3, <3>1, <3>3 DEF SumStep
  <2> QED
    BY <2>2, <2>3
<1>2. U \in S
  <2> HIDE DEF S
  <2> QED
    BY <1>1, SetInduction
<1> QED
  BY <1>2

\* The sum over a finite set: one member, and the sum over the rest.
LEMMA SumUnfolds ==
    ASSUME NEW f, NEW T, IsFiniteSet(T)
    PROVE  SumFunctionOnSet(f, T) =
             IF T = {} THEN 0
             ELSE f[CHOOSE x \in T : TRUE] + SumFunctionOnSet(f, T \ {CHOOSE x \in T : TRUE})
<1>1. PICK g : g = CHOOSE h : SumsOn(f, h, SUBSET T)
  OBVIOUS
<1>2. SumsOn(f, g, SUBSET T)
  BY <1>1, SumsExist
<1>3. SumFunctionOnSet(f, T) = g[T] /\ g[T] = SumStep(f, g, T)
  <2>1. SumFunctionOnSet(f, T) = g[T]
    BY <1>1, SumIsFold
  <2>2. T \in SUBSET T
    OBVIOUS
  <2> QED
    BY <1>2, <2>1, <2>2 DEF SumsOn
<1>4. CASE T = {}
  BY <1>3, <1>4 DEF SumStep
<1>5. CASE T # {}
  <2>1. PICK x \in T : x = CHOOSE y \in T : TRUE
    BY <1>5
  <2>2. PICK U : U = T \ {x} /\ U \subseteq T
    OBVIOUS
  <2>3. IsFiniteSet(U)
    BY <2>2, FS_Subset
  <2>4. PICK h : h = CHOOSE k : SumsOn(f, k, SUBSET U)
    OBVIOUS
  <2>5. SumsOn(f, h, SUBSET U)
    BY <2>3, <2>4, SumsExist
  <2>6. SumFunctionOnSet(f, U) = h[U]
    BY <2>4, SumIsFold
  <2>7. g[U] = h[U]
    <3>1. U \subseteq T
      BY <2>2
    <3>2. \A e, k : SumsOn(f, e, SUBSET T) /\ SumsOn(f, k, SUBSET U) => e[U] = k[U]
      BY <2>3, <3>1, SumsAgree
    <3> QED
      BY <1>2, <2>5, <3>2
  <2> QED
    BY <1>3, <1>5, <2>1, <2>2, <2>6, <2>7 DEF SumStep
<1> QED
  BY <1>4, <1>5

LEMMA SumEmpty == ASSUME NEW f PROVE SumFunctionOnSet(f, {}) = 0
BY SumUnfolds, FS_EmptySet

\* A sum of naturals is a natural.
LEMMA SumIsNat ==
    ASSUME NEW f, NEW T, IsFiniteSet(T), \A x \in T : f[x] \in Nat
    PROVE  SumFunctionOnSet(f, T) \in Nat
<1> DEFINE S == {s \in SUBSET T : SumFunctionOnSet(f, s) \in Nat}
<1>1. ASSUME NEW s \in SUBSET T, \A r \in SUBSET s : r # s => r \in S PROVE s \in S
  <2>1. IsFiniteSet(s)
    BY FS_Subset
  <2>2. CASE s = {}
    BY <2>2, SumEmpty
  <2>3. CASE s # {}
    <3>1. PICK x \in s : x = CHOOSE y \in s : TRUE
      BY <2>3
    <3>2. SumFunctionOnSet(f, s) = f[x] + SumFunctionOnSet(f, s \ {x})
      BY <2>1, <2>3, <3>1, SumUnfolds
    <3>3. s \ {x} \in S
      BY <1>1
    <3> QED
      BY <3>2, <3>3
  <2> QED
    BY <2>2, <2>3
<1>2. T \in S
  <2> HIDE DEF S
  <2> QED
    BY <1>1, SetInduction
<1> QED
  BY <1>2

\* The sum depends on the values of the function on the set only.
LEMMA SumSame ==
    ASSUME NEW f, NEW g, NEW T, IsFiniteSet(T), \A x \in T : f[x] = g[x]
    PROVE  SumFunctionOnSet(f, T) = SumFunctionOnSet(g, T)
<1> DEFINE S == {s \in SUBSET T : SumFunctionOnSet(f, s) = SumFunctionOnSet(g, s)}
<1>1. ASSUME NEW s \in SUBSET T, \A r \in SUBSET s : r # s => r \in S PROVE s \in S
  <2>1. IsFiniteSet(s)
    BY FS_Subset
  <2>2. CASE s = {}
    BY <2>2, SumEmpty
  <2>3. CASE s # {}
    <3>1. PICK x \in s : x = CHOOSE y \in s : TRUE
      BY <2>3
    <3>2. /\ SumFunctionOnSet(f, s) = f[x] + SumFunctionOnSet(f, s \ {x})
          /\ SumFunctionOnSet(g, s) = g[x] + SumFunctionOnSet(g, s \ {x})
      <4>1. SumFunctionOnSet(f, s) = f[x] + SumFunctionOnSet(f, s \ {x})
        BY <2>1, <2>3, <3>1, SumUnfolds
      <4>2. SumFunctionOnSet(g, s) = g[x] + SumFunctionOnSet(g, s \ {x})
        BY <2>1, <2>3, <3>1, SumUnfolds
      <4> QED
        BY <4>1, <4>2
    <3>3. s \ {x} \in S
      BY <1>1
    <3> QED
      BY <3>2, <3>3
  <2> QED
    BY <2>2, <2>3
<1>2. T \in S
  <2> HIDE DEF S
  <2> QED
    BY <1>1, SetInduction
<1> QED
  BY <1>2

\* Whichever member is taken out first, the sum is the same.
LEMMA SumRemove ==
    ASSUME NEW f, NEW T, IsFiniteSet(T), \A x \in T : f[x] \in Nat, NEW z \in T
    PROVE  SumFunctionOnSet(f, T) = f[z] + SumFunctionOnSet(f, T \ {z})
<1> DEFINE S == {s \in SUBSET T : \A y \in s : SumFunctionOnSet(f, s) = f[y] + SumFunctionOnSet(f, s \ {y})}
<1>1. ASSUME NEW s \in SUBSET T, \A r \in SUBSET s : r # s => r \in S PROVE s \in S
  <2> SUFFICES ASSUME NEW y \in s PROVE SumFunctionOnSet(f, s) = f[y] + SumFunctionOnSet(f, s \ {y})
    OBVIOUS
  <2>1. IsFiniteSet(s)
    BY FS_Subset
  <2>2. PICK x \in s : x = CHOOSE w \in s : TRUE
    OBVIOUS
  <2>3. SumFunctionOnSet(f, s) = f[x] + SumFunctionOnSet(f, s \ {x})
    BY <2>1, <2>2, SumUnfolds
  <2>4. CASE x = y
    BY <2>3, <2>4
  <2>5. CASE x # y
    <3>1. s \ {x} \in S /\ s \ {y} \in S
      BY <1>1
    <3>2. PICK r : r = (s \ {x}) \ {y}
      OBVIOUS
    <3>3. r = (s \ {y}) \ {x} /\ r \in SUBSET T
      BY <3>2
    <3>4. SumFunctionOnSet(f, s \ {x}) = f[y] + SumFunctionOnSet(f, r)
      BY <2>5, <3>1, <3>2
    <3>5. SumFunctionOnSet(f, s \ {y}) = f[x] + SumFunctionOnSet(f, r)
      BY <2>5, <3>1, <3>3
    <3>6. IsFiniteSet(r)
      BY <3>3, FS_Subset
    <3>7. SumFunctionOnSet(f, r) \in Nat /\ f[x] \in Nat /\ f[y] \in Nat
      BY <3>3, <3>6, SumIsNat
    <3> QED
      BY <2>3, <3>4, <3>5, <3>7
  <2> QED
    BY <2>4, <2>5
<1>2. T \in S
  <2> HIDE DEF S
  <2> QED
    BY <1>1, SetInduction
<1> QED
  BY <1>2

\* One value is exchanged for another.
LEMMA SumExchange ==
    ASSUME NEW f, NEW g, NEW T, IsFiniteSet(T), NEW z \in T,
           \A x \in T : f[x] \in Nat /\ g[x] \in Nat,
           \A x \in T : x # z => g[x] = f[x]
    PROVE  /\ SumFunctionOnSet(f, T) \in Nat /\ SumFunctionOnSet(g, T) \in Nat
           /\ SumFunctionOnSet(g, T) = SumFunctionOnSet(f, T) - f[z] + g[z]
<1>1. PICK U : U = T \ {z}
  OBVIOUS
<1>2. IsFiniteSet(U) /\ U \in SUBSET T
  BY <1>1, FS_Subset
<1>3. SumFunctionOnSet(f, U) = SumFunctionOnSet(g, U)
  BY <1>1, <1>2, SumSame
<1>4. SumFunctionOnSet(f, T) = f[z] + SumFunctionOnSet(f, U) /\ SumFunctionOnSet(g, T) = g[z] + SumFunctionOnSet(g, U)
  BY <1>1, SumRemove
<1>5. SumFunctionOnSet(f, U) \in Nat /\ f[z] \in Nat /\ g[z] \in Nat
  BY <1>2, SumIsNat
<1> QED
  BY <1>3, <1>4, <1>5

\* A sum of values that are limited is limited.
LEMMA SumBound ==
    ASSUME NEW f, NEW T, IsFiniteSet(T), NEW b \in Nat, \A x \in T : f[x] \in 0..b
    PROVE  SumFunctionOnSet(f, T) <= Cardinality(T) * b
<1> DEFINE S == {s \in SUBSET T : SumFunctionOnSet(f, s) <= Cardinality(s) * b}
<1>1. ASSUME NEW s \in SUBSET T, \A r \in SUBSET s : r # s => r \in S PROVE s \in S
  <2>1. IsFiniteSet(s)
    BY FS_Subset
  <2>2. CASE s = {}
    <3>1. SumFunctionOnSet(f, s) = 0 /\ Cardinality(s) = 0
      BY <2>2, SumEmpty, FS_EmptySet
    <3> QED
      BY <3>1
  <2>3. CASE s # {}
    <3>1. PICK x \in s : x = CHOOSE y \in s : TRUE
      BY <2>3
    <3>2. PICK r \in SUBSET s : r = s \ {x}
      OBVIOUS
    <3>3. SumFunctionOnSet(f, s) = f[x] + SumFunctionOnSet(f, r)
      BY <2>1, <2>3, <3>1, <3>2, SumUnfolds
    <3>4. IsFiniteSet(r) /\ Cardinality(s) \in Nat \ {0} /\ Cardinality(r) = Cardinality(s) - 1
      BY <2>1, <3>2, SmallerSet
    <3>5. SumFunctionOnSet(f, r) <= Cardinality(r) * b
      BY <1>1, <3>2
    <3>6. SumFunctionOnSet(f, r) \in Nat /\ f[x] \in 0..b
      BY <3>4, SumIsNat
    <3>7. PICK n \in Nat : Cardinality(r) = n /\ Cardinality(s) = n + 1
      BY <3>4
    <3>8. (n + 1) * b = n * b + b /\ n * b \in Nat
      OBVIOUS
    <3> QED
      BY <3>3, <3>5, <3>6, <3>7, <3>8
  <2> QED
    BY <2>2, <2>3
<1>2. T \in S
  <2> HIDE DEF S
  <2> QED
    BY <1>1, SetInduction
<1> QED
  BY <1>2

-----------------------------------------------------------------------------
(* Enumerations of finite sets *)

\* The enumerations of S, in which no member comes twice.
Enumerations(S) ==
    {q \in [1..Cardinality(S) -> S] : \A i, k \in 1..Cardinality(S) : i # k => q[i] # q[k]}

\* An enumeration of a finite set misses no member.
LEMMA EnumerationIsWhole ==
    ASSUME NEW S, IsFiniteSet(S), NEW q \in Enumerations(S)
    PROVE  /\ Cardinality(S) \in Nat
           /\ \A x \in S : \E i \in 1..Cardinality(S) : q[i] = x
<1> DEFINE n == Cardinality(S)
<1>1. n \in Nat
  BY FS_CardinalityType
<1>2. IsFiniteSet(1..n) /\ Cardinality(1..n) = n
  BY <1>1, FS_Interval
<1>3. q \in Injection(1..n, S)
  BY DEF Enumerations, Injection, IsInjective
<1>4. q \in Surjection(1..n, S)
  BY <1>2, <1>3, FS_Injection
<1> QED
  BY <1>1, <1>4 DEF Surjection

\* R puts the members of S in a line.
Lines(S, R) ==
    /\ \A x, y \in S : x # y => <<x, y>> \in R \/ <<y, x>> \in R
    /\ \A x, y, z \in S : <<x, y>> \in R /\ <<y, z>> \in R => <<x, z>> \in R
    /\ \A x \in S : <<x, x>> \notin R

\* A finite set that is not empty has a last member.
LEMMA LastExists ==
    ASSUME NEW S, IsFiniteSet(S), S # {}, NEW R, Lines(S, R)
    PROVE  \E x \in S : \A y \in S : y # x => <<y, x>> \in R
<1> DEFINE Good == {T \in SUBSET S : T # {} => \E x \in T : \A y \in T : y # x => <<y, x>> \in R}
<1>1. ASSUME NEW T \in SUBSET S, \A U \in SUBSET T : U # T => U \in Good PROVE T \in Good
  <2>1. CASE T = {}
    BY <2>1
  <2>2. CASE T # {}
    <3>1. PICK a \in T : TRUE
      BY <2>2
    <3>2. T \ {a} \in Good
      BY <1>1, <3>1
    <3>3. CASE T \ {a} = {}
      BY <3>1, <3>3
    <3>4. CASE T \ {a} # {}
      <4>1. PICK b \in T \ {a} : \A y \in T \ {a} : y # b => <<y, b>> \in R
        BY <3>2, <3>4
      <4>2. a \in S /\ b \in S /\ a # b
        BY <4>1
      <4>3. CASE <<a, b>> \in R
        <5>1. \A y \in T : y # b => <<y, b>> \in R
          BY <4>1, <4>3
        <5> QED
          BY <5>1, <4>1
      <4>4. CASE <<b, a>> \in R
        <5>1. \A y \in T : y # a => <<y, a>> \in R
          BY <4>1, <4>2, <4>4 DEF Lines
        <5> QED
          BY <5>1
      <4> QED
        BY <4>2, <4>3, <4>4 DEF Lines
    <3> QED
      BY <3>3, <3>4
  <2> QED
    BY <2>1, <2>2
<1>2. S \in Good
  <2> HIDE DEF Good
  <2> QED
    BY <1>1, SetInduction
<1> QED
  BY <1>2

\* A finite set in a line can be enumerated along it.
LEMMA SortExists ==
    ASSUME NEW S, IsFiniteSet(S), NEW R, Lines(S, R)
    PROVE  \E q \in Enumerations(S) : \A i, k \in 1..Cardinality(S) : i < k => <<q[i], q[k]>> \in R
<1> DEFINE Sorted(T, q) == \A i, k \in 1..Cardinality(T) : i < k => <<q[i], q[k]>> \in R
           Good == {T \in SUBSET S : \E q \in Enumerations(T) : Sorted(T, q)}
<1>1. ASSUME NEW T \in SUBSET S, \A U \in SUBSET T : U # T => U \in Good PROVE T \in Good
  <2>0. IsFiniteSet(T)
    BY FS_Subset
  <2>1. CASE T = {}
    <3>1. Cardinality(T) = 0 /\ 1..0 = {}
      BY <2>1, FS_EmptySet
    <3>2. [i \in 1..0 |-> 0] \in Enumerations(T) /\ Sorted(T, [i \in 1..0 |-> 0])
      BY <3>1 DEF Enumerations
    <3> QED
      BY <3>2
  <2>2. CASE T # {}
    <3>1. Lines(T, R)
      BY DEF Lines
    <3>2. PICK x \in T : \A y \in T : y # x => <<y, x>> \in R
      BY <2>0, <2>2, <3>1, LastExists
    <3>3. T \ {x} \in Good
      BY <1>1, <3>2
    <3>4. PICK p \in Enumerations(T \ {x}) : Sorted(T \ {x}, p)
      BY <3>3
    <3> DEFINE m == Cardinality(T \ {x})
               q == [i \in 1..m+1 |-> IF i = m + 1 THEN x ELSE p[i]]
    <3>5. m \in Nat /\ Cardinality(T) = m + 1
      BY <2>0, <3>2, SmallerSet, FS_CardinalityType
    <3>6. \A i \in 1..m : p[i] \in T /\ p[i] # x
      BY <3>4 DEF Enumerations
    <3>7. \A i, k \in 1..m : i # k => p[i] # p[k]
      BY <3>4 DEF Enumerations
    <3>8. q \in [1..m+1 -> T]
      BY <3>2, <3>5, <3>6
    <3>9. ASSUME NEW i \in 1..m+1, NEW k \in 1..m+1, i < k
          PROVE  q[i] # q[k] /\ <<q[i], q[k]>> \in R
      <4>1. i \in 1..m /\ q[i] = p[i]
        BY <3>5, <3>9
      <4>2. CASE k = m + 1
        <5>1. q[k] = x
          BY <3>5, <4>2
        <5> QED
          BY <3>2, <3>6, <4>1, <5>1
      <4>3. CASE k # m + 1
        <5>1. k \in 1..m /\ q[k] = p[k]
          BY <3>5, <4>3
        <5> QED
          BY <3>4, <3>7, <3>9, <4>1, <5>1
      <4> QED
        BY <4>2, <4>3
    <3>10. ASSUME NEW i \in 1..m+1, NEW k \in 1..m+1, i # k PROVE q[i] # q[k]
      <4>1. i < k \/ k < i
        BY <3>5, <3>10
      <4> QED
        BY <3>9, <4>1
    <3> HIDE DEF q
    <3>11. q \in Enumerations(T)
      BY <3>5, <3>8, <3>10 DEF Enumerations
    <3>12. Sorted(T, q)
      BY <3>5, <3>9
    <3> QED
      BY <3>11, <3>12
  <2> QED
    BY <2>1, <2>2
<1>2. S \in Good
  <2> HIDE DEF Good
  <2> QED
    BY <1>1, SetInduction
<1> QED
  BY <1>2

====
