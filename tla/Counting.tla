------------------------------ MODULE Counting ------------------------------
(***************************************************************************)
(* Lemmas the proofs of several components cite: the least element of a    *)
(* set of naturals and of a family of finite sets, from which the proofs   *)
(* about recursive definitions argue by a least counterexample, and the    *)
(* sum of a function over a finite set as the number of its units.         *)
(***************************************************************************)
EXTENDS Integers, FiniteSetsExt, FiniteSetTheorems, WellFoundedInduction, TLAPS

-----------------------------------------------------------------------------
(* Least elements.                                                         *)

\* A nonempty set of naturals has a least one.
LEMMA LeastNatural ==
  ASSUME NEW D \in SUBSET Nat, D # {}
  PROVE  \E x \in D : \A y \in D : x <= y
<1> DEFINE R == OpToRel(<, Nat)
<1>1. IsWellFoundedOn(R, Nat)
  BY NatLessThanWellFounded
<1>2. \E x \in D : \A y \in D : ~ (<<y, x>> \in R)
  <2> HIDE DEF R
  <2> QED
    BY <1>1, WFMin
<1>3. \A x, y \in Nat : x < y => <<x, y>> \in R
  BY DEF OpToRel
<1> HIDE DEF R
<1>4. PICK x \in D : \A y \in D : ~ (<<y, x>> \in R)
  BY <1>2
<1>5. ASSUME NEW y \in D
      PROVE  x <= y
  <2>1. ~ (y < x)
    BY <1>3, <1>4
  <2> QED
    BY <2>1
<1> QED
  BY <1>5

\* Induction, for a set of naturals.
LEMMA UpTo ==
  ASSUME NEW n \in Nat, NEW T, 0 \in T, \A m \in 0 .. n - 1 : m \in T => m + 1 \in T
  PROVE  n \in T
<1> SUFFICES ASSUME n \notin T PROVE FALSE
  OBVIOUS
<1> DEFINE D == {m \in 0 .. n : m \notin T}
<1>1. D \in SUBSET Nat /\ n \in D
  OBVIOUS
<1>2. PICK x \in D : \A y \in D : x <= y
  <2> HIDE DEF D
  <2> QED
    BY <1>1, LeastNatural
<1>3. x \in 0 .. n /\ x \notin T /\ x # 0
  OBVIOUS
<1>4. x - 1 \in 0 .. n - 1 /\ ~ (x <= x - 1)
  BY <1>3
<1>5. x - 1 \in T
  BY <1>2, <1>4
<1>6. (x - 1) + 1 \in T
  BY <1>4, <1>5
<1> QED
  BY <1>3, <1>6

\* A nonempty set of indexes has a greatest one.
LEMMA GreatestIndex ==
  ASSUME NEW n \in Nat, NEW T \in SUBSET (1 .. n), T # {}
  PROVE  \E i \in T : \A j \in T : j <= i
<1> DEFINE D == {n - i : i \in T}
<1>1. PICK i \in T : TRUE
  OBVIOUS
<1>2. n - i \in D
  OBVIOUS
<1>3. D \in SUBSET Nat
  OBVIOUS
<1>4. PICK x \in D : \A y \in D : x <= y
  <2> HIDE DEF D
  <2> QED BY <1>2, <1>3, LeastNatural
<1>5. PICK m \in T : x = n - m
  OBVIOUS
<1>6. ASSUME NEW j \in T
      PROVE  j <= m
  <2>1. n - m <= n - j
    BY <1>4, <1>5
  <2> QED
    BY <2>1
<1> QED
  BY <1>6

-----------------------------------------------------------------------------
(* Folds.                                                                  *)

\* The greatest of a nonempty set of the first n naturals.
LEMMA MaxOfIndexes ==
  ASSUME NEW n \in Nat, NEW s \in SUBSET (1 .. n), s # {}
  PROVE  Max(s) \in s /\ \A y \in s : y <= Max(s)
<1>1. \E i \in s : \A j \in s : j <= i
  BY GreatestIndex
<1>2. \E i \in s : \A j \in s : i >= j
  BY <1>1
<1>3. Max(s) \in s /\ \A y \in s : Max(s) >= y
  BY <1>2 DEF Max
<1> QED
  BY <1>3

\* A table of the folds of the subsets of the first n naturals, each taken in
\* order, and its values for the first k.
FoldTable(g, n, T, base, step) ==
  /\ g \in [SUBSET (1 .. n) -> T]
  /\ g[{}] = base
  /\ \A s \in SUBSET (1 .. n) : s # {} => g[s] = step[<<Max(s), g[s \ {Max(s)}]>>]
FoldRun(iter, n, T, base, step) ==
  /\ iter[{}] = base
  /\ \A s \in SUBSET (1 .. n) : (s # {} /\ iter[s \ {Max(s)}] \in T) =>
       iter[s] = step[<<Max(s), iter[s \ {Max(s)}]>>]
StepRun(f, n, T, base, step) ==
  /\ f[0] = base
  /\ \A k \in 1 .. n : f[k - 1] \in T => f[k] = step[<<k, f[k - 1]>>]
FoldSteps(h, n, T, base, step, value) ==
  /\ n \in Nat /\ h[n] = value
  /\ h \in [0 .. n -> T]
  /\ h[0] = base
  /\ \A k \in 1 .. n : h[k] = step[<<k, h[k - 1]>>]

\* A recursion over the subsets of the first n naturals, by their greatest
\* element, is a definition: step is any function.
LEMMA FoldIsDefined ==
  ASSUME NEW n \in Nat, NEW T, NEW base \in T, NEW step \in [(1 .. n) \X T -> T]
  PROVE  \E g : FoldTable(g, n, T, base, step)
<1> DEFINE Good == {m \in 0 .. n : \E g : FoldTable(g, m, T, base, step)}
<1>1. 0 \in Good
  <2> DEFINE g == [s \in SUBSET (1 .. 0) |-> base]
  <2>1. \A s \in SUBSET (1 .. 0) : s = {}
    OBVIOUS
  <2>2. g \in [SUBSET (1 .. 0) -> T] /\ g[{}] = base
    OBVIOUS
  <2> HIDE DEF g
  <2>3. FoldTable(g, 0, T, base, step)
    <3>1. \A s \in SUBSET (1 .. 0) : s # {} => g[s] = step[<<Max(s), g[s \ {Max(s)}]>>]
      BY <2>1
    <3> QED
      BY <2>2, <3>1 DEF FoldTable
  <2> QED
    BY <2>3
<1>2. ASSUME NEW m \in 0 .. n - 1, m \in Good
      PROVE  m + 1 \in Good
  <2>0. m \in Nat /\ m + 1 \in Nat
    OBVIOUS
  <2>1. PICK g : FoldTable(g, m, T, base, step)
    BY <1>2
  <2> DEFINE f == [s \in SUBSET (1 .. m + 1) |->
                     IF m + 1 \in s THEN step[<<m + 1, g[s \ {m + 1}]>>] ELSE g[s]]
  <2>2. ASSUME NEW s \in SUBSET (1 .. m + 1)
        PROVE  /\ f[s] \in T
               /\ s # {} => f[s] = step[<<Max(s), f[s \ {Max(s)}]>>]
    <3>1. CASE m + 1 \in s
      <4>1. Max(s) = m + 1
        <5>1. m + 1 \in Nat /\ s # {}
          BY <3>1
        <5>2. Max(s) \in s /\ \A y \in s : y <= Max(s)
          BY <2>0, <5>1, MaxOfIndexes
        <5>3. m + 1 <= Max(s) /\ Max(s) \in 1 .. m + 1
          BY <3>1, <5>2
        <5> QED
          BY <2>0, <5>3
      <4>2. s \ {m + 1} \in SUBSET (1 .. m) /\ s \ {m + 1} \in SUBSET (1 .. m + 1)
        OBVIOUS
      <4>3. f[s \ {m + 1}] = g[s \ {m + 1}] /\ g[s \ {m + 1}] \in T
        BY <2>1, <4>2 DEF FoldTable
      <4>4. f[s] = step[<<m + 1, g[s \ {m + 1}]>>]
        BY <3>1
      <4>5. m + 1 \in 1 .. n
        OBVIOUS
      <4> HIDE DEF f
      <4> QED
        BY <4>1, <4>3, <4>4, <4>5
    <3>2. CASE m + 1 \notin s
      <4>1. s \in SUBSET (1 .. m) /\ f[s] = g[s]
        BY <3>2
      <4>2. CASE s # {}
        <5>1. Max(s) \in s
          BY <2>0, <4>1, <4>2, MaxOfIndexes
        <5>2. s \ {Max(s)} \in SUBSET (1 .. m + 1) /\ m + 1 \notin s \ {Max(s)}
          BY <3>2
        <5>3. f[s \ {Max(s)}] = g[s \ {Max(s)}]
          BY <5>2
        <5> HIDE DEF f
        <5> QED
          BY <2>1, <4>1, <4>2, <5>1, <5>3 DEF FoldTable
      <4>3. f[s] \in T
        BY <2>1, <4>1 DEF FoldTable
      <4> HIDE DEF f
      <4> QED
        BY <4>2, <4>3
    <3> QED
      BY <3>1, <3>2
  <2>3. f[{}] = base
    BY <2>1 DEF FoldTable
  <2>4. f = [s \in SUBSET (1 .. m + 1) |-> f[s]]
    OBVIOUS
  <2> HIDE DEF f
  <2>5. f \in [SUBSET (1 .. m + 1) -> T]
    BY <2>2, <2>4
  <2>6. FoldTable(f, m + 1, T, base, step)
    BY <2>2, <2>3, <2>5 DEF FoldTable
  <2>7. m + 1 \in 0 .. n
    OBVIOUS
  <2> QED
    BY <2>6, <2>7
<1> HIDE DEF Good
<1>3. n \in Good
  BY <1>1, <1>2, UpTo
<1> QED
  BY <1>3 DEF Good

\* What a recursion over the first n naturals computes, step by step.
LEMMA StepsAdvance ==
  ASSUME NEW n \in Nat, NEW T, NEW base \in T, NEW step \in [(1 .. n) \X T -> T],
         NEW f, NEW value, value = f[n], StepRun(f, n, T, base, step)
  PROVE  \E h : FoldSteps(h, n, T, base, step, value)
<1> DEFINE h == [k \in 0 .. n |-> f[k]]
           Good == {k \in 0 .. n : h[k] \in T}
<1>1. h[0] = base /\ h[n] = value
  BY DEF StepRun
<1>2. ASSUME NEW k \in 1 .. n, h[k - 1] \in T
      PROVE  h[k] = step[<<k, h[k - 1]>>]
  <2>1. h[k - 1] = f[k - 1] /\ h[k] = f[k]
    OBVIOUS
  <2> HIDE DEF h
  <2> QED
    BY <1>2, <2>1 DEF StepRun
<1>3. h = [k \in 0 .. n |-> h[k]]
  OBVIOUS
<1> HIDE DEF h
<1>4. 0 \in Good
  BY <1>1
<1>5. ASSUME NEW m \in 0 .. n - 1, m \in Good
      PROVE  m + 1 \in Good
  <2>1. m + 1 \in 1 .. n /\ (m + 1) - 1 = m
    OBVIOUS
  <2>2. h[m + 1] = step[<<m + 1, h[m]>>]
    BY <1>2, <1>5, <2>1
  <2> QED
    BY <1>5, <2>1, <2>2
<1>6. ASSUME NEW m \in 0 .. n
      PROVE  m \in Good
  <2> HIDE DEF Good
  <2>1. m \in Nat /\ \A j \in 0 .. m - 1 : j \in 0 .. n - 1
    OBVIOUS
  <2> QED
    BY <1>4, <1>5, <2>1, UpTo
<1>7. h \in [0 .. n -> T]
  BY <1>3, <1>6
<1>8. \A k \in 1 .. n : h[k] = step[<<k, h[k - 1]>>]
  BY <1>2, <1>7
<1> QED
  BY <1>1, <1>7, <1>8 DEF FoldSteps

\* The folds of the first k, for each k, are the steps.
LEMMA FoldAdvances ==
  ASSUME NEW n \in Nat, NEW T, NEW base \in T, NEW step \in [(1 .. n) \X T -> T],
         NEW iter, NEW value, value = iter[1 .. n], FoldRun(iter, n, T, base, step)
  PROVE  \E h : FoldSteps(h, n, T, base, step, value)
<1> DEFINE f == [k \in 0 .. n |-> iter[1 .. k]]
<1>1. f[0] = base /\ f[n] = value
  <2>1. 1 .. 0 = {}
    OBVIOUS
  <2> QED
    BY <2>1 DEF FoldRun
<1>2. ASSUME NEW k \in 1 .. n, f[k - 1] \in T
      PROVE  f[k] = step[<<k, f[k - 1]>>]
  <2>1. 1 .. k \in SUBSET (1 .. n) /\ 1 .. k # {} /\ k \in Nat /\ k - 1 \in 0 .. n
    OBVIOUS
  <2>2. Max(1 .. k) \in 1 .. k /\ \A y \in 1 .. k : y <= Max(1 .. k)
    BY <2>1, MaxOfIndexes
  <2>3. Max(1 .. k) = k /\ (1 .. k) \ {k} = 1 .. k - 1
    BY <2>1, <2>2
  <2>4. f[k - 1] = iter[1 .. k - 1] /\ f[k] = iter[1 .. k]
    BY <2>1
  <2> HIDE DEF f
  <2> QED
    BY <1>2, <2>1, <2>3, <2>4 DEF FoldRun
<1> HIDE DEF f
<1>3. StepRun(f, n, T, base, step)
  BY <1>1, <1>2 DEF StepRun
<1> QED
  BY <1>1, <1>3, StepsAdvance

\* A recursion over the first n naturals is one, too: the steps exist.
LEMMA StepsExist ==
  ASSUME NEW n \in Nat, NEW T, NEW base \in T, NEW step \in [(1 .. n) \X T -> T]
  PROVE  \E h, value : FoldSteps(h, n, T, base, step, value)
<1>1. PICK g : FoldTable(g, n, T, base, step)
  BY FoldIsDefined
<1>2. FoldRun(g, n, T, base, step)
  BY <1>1 DEF FoldTable, FoldRun
<1> DEFINE value == g[1 .. n]
<1> HIDE DEF value
<1>3. value = g[1 .. n]
  BY DEF value
<1>4. \E h : FoldSteps(h, n, T, base, step, value)
  BY <1>2, <1>3, FoldAdvances
<1> QED
  BY <1>4

-----------------------------------------------------------------------------
(* Sums.                                                                   *)

\* The units that f counts in U.
Units(f, U) == {u \in U \X Nat : u[2] \in 1 .. f[u[1]]}

\* A nonempty family of subsets of a finite set has a smallest one.
LEMMA MinimalSet ==
  ASSUME NEW S, IsFiniteSet(S), NEW F \in SUBSET (SUBSET S), F # {}
  PROVE  \E M \in F : \A X \in F : X \subseteq M => X = M
<1>1. FiniteSubsetsOf(S) = SUBSET S
  BY FS_FiniteSubsetsOfFinite
<1>2. IsWellFoundedOn(StrictSubsetOrdering(S), SUBSET S)
  BY <1>1, FS_StrictSubsetOrderingWellFounded
<1>3. \E M \in F : \A X \in F : ~ (<<X, M>> \in StrictSubsetOrdering(S))
  BY <1>2, WFMin
<1>4. \A X, M \in F : X \subseteq M /\ X # M => <<X, M>> \in StrictSubsetOrdering(S)
  BY DEF StrictSubsetOrdering
<1> QED
  BY <1>3, <1>4

\* An element adds the units it counts.
LEMMA UnitsStep ==
  ASSUME NEW U, NEW f, NEW x \in U, f[x] \in Nat, IsFiniteSet(Units(f, U \ {x}))
  PROVE  /\ IsFiniteSet(Units(f, U))
         /\ Cardinality(Units(f, U)) = f[x] + Cardinality(Units(f, U \ {x}))
<1> DEFINE A == Units(f, U \ {x})
           B == {x} \X (1 .. f[x])
<1>1. Units(f, U) = A \cup B
  <2>1. 1 .. f[x] \subseteq Nat
    OBVIOUS
  <2> QED
    BY <2>1 DEF Units
<1>2. A \cap B = {}
  BY DEF Units
<1>3. IsFiniteSet({x}) /\ Cardinality({x}) = 1
  BY FS_Singleton
<1>4. IsFiniteSet(1 .. f[x]) /\ Cardinality(1 .. f[x]) = f[x]
  <2>1. PICK n \in Nat : n = f[x]
    OBVIOUS
  <2>2. 1 \in Int /\ n \in Int /\ n - 1 + 1 = n /\ (1 > n <=> n = 0)
    OBVIOUS
  <2>3. IsFiniteSet(1 .. n) /\ Cardinality(1 .. n) = IF 1 > n THEN 0 ELSE n - 1 + 1
    BY <2>2, FS_Interval
  <2> QED
    BY <2>1, <2>2, <2>3
<1>5. IsFiniteSet(B) /\ Cardinality(B) = f[x]
  <2> DEFINE I == 1 .. f[x]
  <2>1. IsFiniteSet(I) /\ Cardinality(I) = f[x]
    BY <1>4
  <2> HIDE DEF I
  <2>2. IsFiniteSet({x} \X I) /\ Cardinality({x} \X I) = Cardinality({x}) * Cardinality(I)
    BY <1>3, <2>1, FS_Product
  <2>3. Cardinality({x} \X I) = f[x]
    <3>1. Cardinality({x} \X I) = 1 * f[x]
      BY <1>3, <2>1, <2>2
    <3> QED
      BY <3>1
  <2> QED
    BY <2>2, <2>3 DEF I
<1>6. Cardinality({}) = 0
  BY FS_EmptySet
<1>7. IsFiniteSet(A) /\ Cardinality(A) \in Nat
  BY FS_CardinalityType
<1> HIDE DEF A, B
<1>8. /\ IsFiniteSet(A \cup B)
      /\ Cardinality(A \cup B) = Cardinality(A) + Cardinality(B) - Cardinality(A \cap B)
  BY <1>5, <1>7, FS_Union
<1>9. Cardinality(A \cup B) = f[x] + Cardinality(A)
  <2>1. Cardinality(A \cap B) = 0
    BY <1>2, <1>6
  <2>2. Cardinality(A \cup B) = Cardinality(A) + f[x] - 0
    BY <1>5, <1>8, <2>1
  <2> QED
    BY <1>7, <2>2
<1> QED
  BY <1>1, <1>8, <1>9 DEF A

LEMMA UnitsAreFinite ==
  ASSUME NEW S, IsFiniteSet(S), NEW f, \A d \in S : f[d] \in Nat
  PROVE  \A U \in SUBSET S : IsFiniteSet(Units(f, U))
<1> DEFINE F == {U \in SUBSET S : ~IsFiniteSet(Units(f, U))}
<1> SUFFICES ASSUME F # {} PROVE FALSE
  OBVIOUS
<1>1. PICK M \in F : \A X \in F : X \subseteq M => X = M
  <2>1. F \in SUBSET (SUBSET S)
    OBVIOUS
  <2> HIDE DEF F
  <2> QED
    BY <2>1, MinimalSet
<1>2. M # {}
  <2>1. Units(f, {}) = {}
    BY DEF Units
  <2> QED
    BY <2>1, FS_EmptySet
<1>3. PICK x \in M : TRUE
  BY <1>2
<1>4. M \ {x} \in SUBSET S /\ M \ {x} \subseteq M /\ M \ {x} # M
  BY <1>3
<1>5. IsFiniteSet(Units(f, M \ {x}))
  BY <1>1, <1>4
<1>6. IsFiniteSet(Units(f, M))
  <2>1. f[x] \in Nat
    BY <1>3
  <2> QED
    BY <1>3, <1>5, <2>1, UnitsStep
<1> QED
  BY <1>6

\* The sum of a set is the number of its units.
LEMMA SumIsCount ==
  ASSUME NEW S, IsFiniteSet(S), NEW f, \A d \in S : f[d] \in Nat
  PROVE  MapThenSumSet(LAMBDA d : f[d], S) = Cardinality(Units(f, S))
<1> DEFINE Sums(g) == g = [s \in SUBSET S |->
                        IF s = {} THEN 0
                        ELSE f[CHOOSE x \in s : TRUE] + g[s \ {CHOOSE x \in s : TRUE}]]
           sum == CHOOSE g : Sums(g)
           count == [s \in SUBSET S |-> Cardinality(Units(f, s))]
<1>1. MapThenSumSet(LAMBDA d : f[d], S) = sum[S]
  BY DEF MapThenSumSet, MapThenFoldSet
<1>2. \A U \in SUBSET S : IsFiniteSet(Units(f, U))
  BY UnitsAreFinite
<1>3. ASSUME NEW s \in SUBSET S, s # {}
      PROVE  /\ (CHOOSE x \in s : TRUE) \in s
             /\ Cardinality(Units(f, s)) =
                  f[CHOOSE x \in s : TRUE] + Cardinality(Units(f, s \ {CHOOSE x \in s : TRUE}))
  <2> DEFINE c == CHOOSE x \in s : TRUE
  <2>1. c \in s
    BY <1>3
  <2> HIDE DEF c
  <2>2. Cardinality(Units(f, s)) = f[c] + Cardinality(Units(f, s \ {c}))
    BY <1>2, <2>1, UnitsStep
  <2> QED
    BY <2>1, <2>2 DEF c
<1>4. Cardinality(Units(f, {})) = 0
  <2>1. Units(f, {}) = {}
    BY DEF Units
  <2> QED
    BY <2>1, FS_EmptySet
<1>5. ASSUME NEW s \in SUBSET S
      PROVE  count[s] = IF s = {} THEN 0
                        ELSE f[CHOOSE x \in s : TRUE] + count[s \ {CHOOSE x \in s : TRUE}]
  BY <1>3, <1>4
<1>6. Sums(count)
  <2> DEFINE rec == [s \in SUBSET S |-> IF s = {} THEN 0
                        ELSE f[CHOOSE x \in s : TRUE] + count[s \ {CHOOSE x \in s : TRUE}]]
  <2>1. DOMAIN count = SUBSET S /\ DOMAIN rec = SUBSET S
    OBVIOUS
  <2>2. \A s \in SUBSET S : count[s] = rec[s]
    BY <1>5
  <2>3. count = [s \in SUBSET S |-> count[s]] /\ rec = [s \in SUBSET S |-> rec[s]]
    OBVIOUS
  <2>4. count = rec
    <3> HIDE DEF count, rec
    <3> QED
    BY <2>1, <2>2, <2>3
  <2> QED
    BY <2>4
<1>7. Sums(sum)
  <2> HIDE DEF Sums, count
  <2> QED
    BY <1>6
<1> DEFINE F == {U \in SUBSET S : sum[U] # count[U]}
<1> HIDE DEF sum
<1>8. ASSUME F # {} PROVE FALSE
  <2>1. PICK M \in F : \A X \in F : X \subseteq M => X = M
    <3>1. F \in SUBSET (SUBSET S)
      OBVIOUS
    <3> HIDE DEF F
    <3> QED
      BY <1>8, <3>1, MinimalSet
  <2>2. sum[M] = IF M = {} THEN 0 
                        ELSE f[CHOOSE x \in M : TRUE] + sum[M \ {CHOOSE x \in M : TRUE}]
    BY <1>7
  <2>3. M # {}
    BY <1>5, <2>2
  <2>4. (CHOOSE x \in M : TRUE) \in M
    BY <1>3, <2>3
  <2>5. M \ {CHOOSE x \in M : TRUE} \notin F
    BY <2>1, <2>4
  <2>6. sum[M \ {CHOOSE x \in M : TRUE}] = count[M \ {CHOOSE x \in M : TRUE}]
    BY <2>5
  <2> HIDE DEF count
  <2> QED
    BY <1>5, <2>2, <2>3, <2>6
<1>9. S \in SUBSET S
  OBVIOUS
<1>10. sum[S] = count[S]
  BY <1>8, <1>9
<1> QED
  BY <1>1, <1>9, <1>10

LEMMA SumFunctionIsCount ==
  ASSUME NEW f, IsFiniteSet(DOMAIN f), \A d \in DOMAIN f : f[d] \in Nat
  PROVE  SumFunction(f) = Cardinality(Units(f, DOMAIN f))
<1>1. SumFunction(f) = MapThenSumSet(LAMBDA d : f[d], DOMAIN f)
  BY DEF SumFunction, SumFunctionOnSet, FoldFunctionOnSet, MapThenSumSet
<1>2. PICK S : S = DOMAIN f
  OBVIOUS
<1>3. MapThenSumSet(LAMBDA d : f[d], S) = Cardinality(Units(f, S))
  BY <1>2, SumIsCount
<1> QED
  BY <1>1, <1>2, <1>3

\* An argument more adds its value to the sum of a function.
LEMMA SumOfOneMore ==
  ASSUME NEW f, NEW g, NEW x, x \notin DOMAIN f, DOMAIN g = DOMAIN f \union {x},
         IsFiniteSet(DOMAIN f), g[x] \in Nat,
         \A d \in DOMAIN f : f[d] \in Nat /\ g[d] = f[d]
  PROVE  SumFunction(g) = SumFunction(f) + g[x]
<1> DEFINE S == DOMAIN f
           T == DOMAIN g
<1>1. IsFiniteSet(T)
  BY FS_AddElement
<1>2. \A d \in T : g[d] \in Nat
  OBVIOUS
<1>3. x \in T /\ T \ {x} = S
  OBVIOUS
<1>4. Units(g, S) = Units(f, S)
  BY DEF Units
<1>5. IsFiniteSet(Units(f, S)) /\ Cardinality(Units(f, S)) \in Nat
  <2>1. IsFiniteSet(Units(f, S))
    BY UnitsAreFinite
  <2> QED
    BY <2>1, FS_CardinalityType
<1>6. SumFunction(f) = Cardinality(Units(f, S)) /\ SumFunction(g) = Cardinality(Units(g, T))
  BY <1>1, <1>2, SumFunctionIsCount
<1>7. Cardinality(Units(g, T)) = g[x] + Cardinality(Units(g, T \ {x}))
  <2>1. IsFiniteSet(Units(g, T \ {x}))
    BY <1>3, <1>4, <1>5
  <2> HIDE DEF T
  <2> QED
    BY <1>2, <1>3, <2>1, UnitsStep
<1> HIDE DEF S, T
<1>8. Cardinality(Units(g, T)) = g[x] + Cardinality(Units(f, S))
  BY <1>3, <1>4, <1>7
<1>9. SumFunction(g) = g[x] + SumFunction(f) /\ SumFunction(f) \in Nat
  BY <1>5, <1>6, <1>8
<1> QED
  BY <1>9
=============================================================================
