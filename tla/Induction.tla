----------------------------- MODULE Induction ------------------------------
(***************************************************************************)
(* Induction and recursion for the proofs of the other modules.  Provers   *)
(* that cannot instantiate the induction theorems of the library, whose    *)
(* parameter is an operator, can use these, whose parameters are sets and  *)
(* functions.                                                              *)
(***************************************************************************)
EXTENDS Integers, FiniteSetsExt, SequencesExt, Filters, FiniteSetTheorems,
        WellFoundedInduction, TLAPS

Below == {p \in Nat \X Nat : p[1] < p[2]}

LEMMA BelowWellFounded == IsWellFoundedOn(Below, Nat)
  BY NatLessThanWellFounded DEF OpToRel, Below

\* A set of numbers that has 0, and with each number the next, has them all.
LEMMA NatSetInduction ==
  ASSUME NEW K, 0 \in K, \A n \in Nat : n \in K => n + 1 \in K
  PROVE  Nat \subseteq K
<1> SUFFICES ASSUME Nat \ K # {} PROVE FALSE
  OBVIOUS
<1>1. PICK x \in Nat \ K : \A y \in Nat \ K : <<y, x>> \notin Below
  BY WFMin, BelowWellFounded
<1>2. x - 1 \in Nat
  BY <1>1
<1>3. <<x - 1, x>> \in Below
  BY <1>2 DEF Below
<1> QED
  BY <1>1, <1>2, <1>3

\* A set of numbers has a least one, and a greatest if it is bounded.
LEMMA MinExists ==
  ASSUME NEW S \in SUBSET Nat, S # {}
  PROVE  Min(S) \in S /\ \A y \in S : Min(S) <= y
<1>1. PICK x \in S : \A y \in S : <<y, x>> \notin Below
  BY WFMin, BelowWellFounded
<1>2. x \in Nat /\ \A y \in S : y \in Nat
  OBVIOUS
<1>3. ASSUME NEW y \in S PROVE x <= y
  <2>1. <<y, x>> \notin Below /\ <<y, x>> \in Nat \X Nat
    BY <1>1, <1>2
  <2>2. ~(y < x)
    BY <2>1 DEF Below
  <2> QED
    BY <1>2, <2>2
<1> QED
  BY <1>2, <1>3 DEF Min

LEMMA MaxExists ==
  ASSUME NEW n \in Nat, NEW S \in SUBSET (0..n), S # {}
  PROVE  Max(S) \in S /\ \A y \in S : Max(S) >= y
<1> DEFINE T == {n - y : y \in S}
<1>1. \A y \in S : y \in Nat /\ y <= n /\ n - y \in Nat
  OBVIOUS
<1>0. T \in SUBSET Nat /\ T # {}
  BY <1>1
<1> DEFINE m == Min(T)
<1> HIDE DEF m
<1>2. m \in T /\ \A z \in T : m <= z
  BY <1>0, MinExists DEF m
<1>3. PICK x \in S : m = n - x
  BY <1>2
<1>4. \A y \in S : n - x <= n - y
  BY <1>2, <1>3
<1>5. \A y \in S : x >= y
  BY <1>1, <1>4
<1>6. \A z \in S : (\A y \in S : z >= y) => z = x
  BY <1>1, <1>5
<1> QED
  BY <1>5, <1>6 DEF Max

\* A set of subsets of a finite set that has the empty one, and with each of them
\* those that have one element more, has the finite set.
LEMMA SubsetInduction ==
  ASSUME NEW S, IsFiniteSet(S), NEW K, {} \in K,
         \A T \in SUBSET S : \A x \in S \ T : T \in K => T \cup {x} \in K
  PROVE  S \in K
<1> DEFINE N == {n \in Nat : \A T \in SUBSET S : Cardinality(T) = n => T \in K}
<1>1. 0 \in N
  BY FS_Subset, FS_EmptySet
<1>2. ASSUME NEW n \in Nat, n \in N PROVE n + 1 \in N
  <2> SUFFICES ASSUME NEW T \in SUBSET S, Cardinality(T) = n + 1 PROVE T \in K
    OBVIOUS
  <2>1. IsFiniteSet(T)
    BY FS_Subset
  <2>2. PICK x : x \in T
    BY <2>1, FS_EmptySet
  <2>3. Cardinality(T \ {x}) = n
    <3>1. Cardinality(T \ {x}) = Cardinality(T) - 1
      BY <2>1, <2>2, FS_RemoveElement
    <3> QED
      BY <3>1
  <2>4. T \ {x} \in K
    BY <2>3, <1>2
  <2>5. (T \ {x}) \cup {x} = T /\ x \in S \ (T \ {x}) /\ T \ {x} \in SUBSET S
    BY <2>2
  <2>6. (T \ {x}) \cup {x} \in K
    BY <2>4, <2>5
  <2> QED
    BY <2>5, <2>6
<1> HIDE DEF N
<1>3. Cardinality(S) \in N
  BY <1>1, <1>2, NatSetInduction, FS_CardinalityType
<1> QED
  BY <1>3 DEF N

\* f is a function of 0..n given by its first value and by what leads from each
\* value to the next.
Iterates(f, n, V, base, step) ==
    /\ f \in [0..n -> V]
    /\ f[0] = base
    /\ \A i \in 1..n : f[i] = step[<<i, f[i - 1]>>]

\* There is such a function.
LEMMA Recursion ==
  ASSUME NEW n \in Nat, NEW V, NEW base \in V, NEW step \in [(1..n) \X V -> V]
  PROVE  \E f : Iterates(f, n, V, base, step)
<1> DEFINE Upto(m) == \E f \in [0..m -> V] :
                        f[0] = base /\ \A i \in 1..m : f[i] = step[<<i, f[i - 1]>>]
           N == {m \in Nat : m <= n => Upto(m)}
<1>1. 0 \in N
  <2> DEFINE f == [i \in 0..0 |-> base]
  <2>1. f \in [0..0 -> V] /\ f[0] = base /\ \A i \in 1..0 : f[i] = step[<<i, f[i - 1]>>]
    OBVIOUS
  <2> HIDE DEF f
  <2>2. Upto(0)
    BY <2>1
  <2> QED
    BY <2>2
<1>2. ASSUME NEW m \in Nat, m \in N PROVE m + 1 \in N
  <2> SUFFICES ASSUME m + 1 <= n PROVE Upto(m + 1)
    OBVIOUS
  <2>1. PICK f \in [0..m -> V] :
            f[0] = base /\ \A i \in 1..m : f[i] = step[<<i, f[i - 1]>>]
    BY <1>2
  <2> DEFINE g == [i \in 0..m + 1 |-> IF i <= m THEN f[i] ELSE step[<<m + 1, f[m]>>]]
  <2>2. <<m + 1, f[m]>> \in (1..n) \X V
    BY <2>1
  <2>3. step[<<m + 1, f[m]>>] \in V
    BY <2>2
  <2>4. g \in [0..m + 1 -> V] /\ g[0] = base
    BY <2>1, <2>3
  <2>5. ASSUME NEW i \in 1..m + 1 PROVE g[i] = step[<<i, g[i - 1]>>]
    <3>1. g[i - 1] = f[i - 1]
      OBVIOUS
    <3>2. CASE i <= m
      <4>1. g[i] = f[i]
        BY <3>2
      <4>2. i \in 1..m
        BY <3>2
      <4> HIDE DEF g
      <4> QED
        BY <2>1, <3>1, <4>1, <4>2
    <3>3. CASE i = m + 1
      <4>1. g[i] = step[<<m + 1, f[m]>>] /\ i - 1 = m
        BY <3>3
      <4> HIDE DEF g
      <4> QED
        BY <3>1, <3>3, <4>1
    <3> QED
      BY <3>2, <3>3
  <2> QED
    BY <2>4, <2>5
<1> HIDE DEF N
<1>3. n \in N
  BY <1>1, <1>2, NatSetInduction
<1>4. Upto(n)
  BY <1>3 DEF N
<1> QED
  BY <1>4 DEF Iterates

-----------------------------------------------------------------------------
(* Sums.                                                                    *)

Total(w, S) == MapThenSumSet(LAMBDA x : w[x], S)

Some(S) == CHOOSE x \in S : TRUE

SumUpTo(w, S) ==
    CHOOSE f : f = [T \in SUBSET S |-> IF T = {} THEN 0
                                       ELSE w[Some(T)] + f[T \ {Some(T)}]]

LEMMA TotalUnfolded == ASSUME NEW w, NEW S PROVE Total(w, S) = SumUpTo(w, S)[S]
  BY DEF Total, MapThenSumSet, MapThenFoldSet, SumUpTo, Some

LEMMA SumUpToDefined ==
  ASSUME NEW S, IsFiniteSet(S), NEW w, \A x \in S : w[x] \in Int
  PROVE  /\ SumUpTo(w, S) \in [SUBSET S -> Int]
         /\ \A T \in SUBSET S :
               SumUpTo(w, S)[T] = IF T = {} THEN 0
                                  ELSE w[Some(T)] + SumUpTo(w, S)[T \ {Some(T)}]
<1> DEFINE Step(f, T) == IF T = {} THEN 0 ELSE w[Some(T)] + f[T \ {Some(T)}]
           Upto(n) == \E f \in [SUBSET S -> Int] :
                        \A T \in SUBSET S : Cardinality(T) <= n => f[T] = Step(f, T)
           N == {n \in Nat : Upto(n)}
<1>0. \A T \in SUBSET S : IsFiniteSet(T) /\ Cardinality(T) \in Nat
                          /\ Cardinality(T) <= Cardinality(S)
  BY FS_Subset, FS_CardinalityType
<1>a. ASSUME NEW T \in SUBSET S, T # {}
      PROVE  /\ Some(T) \in T /\ w[Some(T)] \in Int
             /\ T \ {Some(T)} \in SUBSET S
             /\ Cardinality(T \ {Some(T)}) = Cardinality(T) - 1
  <2>1. Some(T) \in T
    BY <1>a DEF Some
  <2> QED
    BY <2>1, <1>0, FS_RemoveElement
<1>1. 0 \in N
  <2> DEFINE f == [T \in SUBSET S |-> 0]
  <2>1. f \in [SUBSET S -> Int]
    OBVIOUS
  <2>2. \A T \in SUBSET S : Cardinality(T) <= 0 => f[T] = Step(f, T)
    BY <1>0, FS_EmptySet
  <2> HIDE DEF f, Step
  <2>3. Upto(0)
    BY <2>1, <2>2
  <2> QED
    BY <2>3
<1>2. ASSUME NEW n \in Nat, n \in N PROVE n + 1 \in N
  <2>1. PICK f \in [SUBSET S -> Int] :
            \A T \in SUBSET S : Cardinality(T) <= n => f[T] = Step(f, T)
    BY <1>2
  <2> DEFINE g == [T \in SUBSET S |-> Step(f, T)]
  <2>2. g \in [SUBSET S -> Int]
    <3>1. ASSUME NEW T \in SUBSET S PROVE Step(f, T) \in Int
      <4>1. CASE T = {}
        BY <4>1
      <4>2. CASE T # {}
        <5>1. w[Some(T)] \in Int /\ f[T \ {Some(T)}] \in Int
          BY <4>2, <1>a
        <5> QED
          BY <4>2, <5>1
      <4> QED
        BY <4>1, <4>2
    <3> HIDE DEF Step
    <3> QED
      BY <3>1
  <2>3. ASSUME NEW T \in SUBSET S, Cardinality(T) <= n + 1 PROVE g[T] = Step(g, T)
    <3>1. CASE T = {}
      BY <3>1
    <3>2. CASE T # {}
      <4>1. /\ T \ {Some(T)} \in SUBSET S
            /\ Cardinality(T \ {Some(T)}) <= n
        BY <3>2, <1>a, <1>0, <2>3
      <4>2. g[T \ {Some(T)}] = f[T \ {Some(T)}]
        <5>1. f[T \ {Some(T)}] = Step(f, T \ {Some(T)})
          BY <4>1, <2>1
        <5> QED
          BY <4>1, <5>1
      <4> QED
        BY <3>2, <4>2
    <3> QED
      BY <3>1, <3>2
  <2> HIDE DEF g, Step
  <2>4. Upto(n + 1)
    BY <2>2, <2>3
  <2> QED
    BY <2>4
<1> HIDE DEF N, Upto
<1>3. Cardinality(S) \in N
  BY <1>1, <1>2, <1>0, NatSetInduction
<1>4. PICK f \in [SUBSET S -> Int] : \A T \in SUBSET S : f[T] = Step(f, T)
  BY <1>3, <1>0 DEF N, Upto
<1>5. f = [T \in SUBSET S |-> Step(f, T)]
  BY <1>4
<1>6. SumUpTo(w, S) = [T \in SUBSET S |-> Step(SumUpTo(w, S), T)]
  BY <1>5 DEF SumUpTo
<1> DEFINE h == SumUpTo(w, S)
<1>7. ASSUME NEW T \in SUBSET S PROVE h[T] = Step(h, T)
  BY <1>6
<1> DEFINE Ints == {n \in Nat : \A T \in SUBSET S : Cardinality(T) = n => h[T] \in Int}
<1>8. 0 \in Ints
  <2> SUFFICES ASSUME NEW T \in SUBSET S, Cardinality(T) = 0 PROVE h[T] \in Int
    OBVIOUS
  <2>1. T = {}
    BY <1>0, FS_EmptySet
  <2>2. h[T] = Step(h, T)
    BY <1>7
  <2> HIDE DEF h
  <2> QED
    BY <2>1, <2>2
<1>9. ASSUME NEW n \in Nat, n \in Ints PROVE n + 1 \in Ints
  <2> SUFFICES ASSUME NEW T \in SUBSET S, Cardinality(T) = n + 1 PROVE h[T] \in Int
    OBVIOUS
  <2>1. T # {}
    <3> SUFFICES ASSUME T = {} PROVE FALSE
      OBVIOUS
    <3>1. Cardinality(T) = 0
      BY FS_EmptySet
    <3> QED
      BY <3>1
  <2>2. h[T \ {Some(T)}] \in Int
    BY <2>1, <1>a, <1>9
  <2> QED
    BY <2>1, <2>2, <1>a, <1>7
<1> HIDE DEF Ints
<1>10. \A n \in Nat : n \in Ints
  BY <1>8, <1>9, NatSetInduction
<1>11. \A T \in SUBSET S : h[T] \in Int
  BY <1>10, <1>0 DEF Ints
<1>12. h \in [SUBSET S -> Int]
  BY <1>6, <1>11
<1> QED
  BY <1>7, <1>12

LEMMA SumsAgree ==
  ASSUME NEW S, IsFiniteSet(S), NEW w, \A x \in S : w[x] \in Int,
         NEW T \in SUBSET S
  PROVE  SumUpTo(w, S)[T] = Total(w, T)
<1> DEFINE f == SumUpTo(w, S)
           g == SumUpTo(w, T)
           N == {n \in Nat : \A U \in SUBSET T : Cardinality(U) = n => g[U] = f[U]}
<1>0. /\ IsFiniteSet(T) /\ \A x \in T : w[x] \in Int
      /\ \A U \in SUBSET T : /\ U \in SUBSET S /\ IsFiniteSet(U)
                             /\ Cardinality(U) \in Nat
  BY FS_Subset, FS_CardinalityType
<1>1. ASSUME NEW U \in SUBSET T
      PROVE  /\ f[U] = IF U = {} THEN 0 ELSE w[Some(U)] + f[U \ {Some(U)}]
             /\ g[U] = IF U = {} THEN 0 ELSE w[Some(U)] + g[U \ {Some(U)}]
  BY <1>0, SumUpToDefined
<1> HIDE DEF f, g
<1>2. 0 \in N
  <2> SUFFICES ASSUME NEW U \in SUBSET T, Cardinality(U) = 0 PROVE g[U] = f[U]
    OBVIOUS
  <2>1. U = {}
    BY <1>0, FS_EmptySet
  <2> QED
    BY <2>1, <1>1
<1>3. ASSUME NEW n \in Nat, n \in N PROVE n + 1 \in N
  <2> SUFFICES ASSUME NEW U \in SUBSET T, Cardinality(U) = n + 1 PROVE g[U] = f[U]
    OBVIOUS
  <2>1. CASE U = {}
    BY <2>1, <1>1
  <2>2. CASE U # {}
    <3>1. Some(U) \in U
      BY <2>2 DEF Some
    <3>2. Cardinality(U \ {Some(U)}) = Cardinality(U) - 1
      BY <3>1, <1>0, FS_RemoveElement
    <3>3. g[U \ {Some(U)}] = f[U \ {Some(U)}]
      BY <3>2, <1>3
    <3> QED
      BY <2>2, <3>3, <1>1
  <2> QED
    BY <2>1, <2>2
<1>4. Cardinality(T) \in N
  <2> HIDE DEF N
  <2> QED
    BY <1>2, <1>3, <1>0, NatSetInduction
<1>5. g[T] = f[T]
  BY <1>4
<1> QED
  BY <1>5, TotalUnfolded DEF f, g

\* A sum is an integer, 0 for nothing, and splits off what CHOOSE takes first.
LEMMA TotalSplits ==
  ASSUME NEW S, IsFiniteSet(S), NEW w, \A x \in S : w[x] \in Int
  PROVE  /\ Total(w, S) \in Int
         /\ S = {} => Total(w, S) = 0
         /\ S # {} => /\ Some(S) \in S
                      /\ Total(w, S) = w[Some(S)] + Total(w, S \ {Some(S)})
<1>1. SumUpTo(w, S)[S] \in Int
  BY ZenonT(60), SumUpToDefined
<1>2. S = {} => SumUpTo(w, S)[S] = 0
  BY SumUpToDefined
<1>3. S # {} => SumUpTo(w, S)[S] = w[Some(S)] + SumUpTo(w, S)[S \ {Some(S)}]
  BY SumUpToDefined
<1>4. S # {} => Some(S) \in S
  BY DEF Some
<1>5. SumUpTo(w, S)[S \ {Some(S)}] = Total(w, S \ {Some(S)})
  BY SumsAgree
<1> QED
  BY <1>1, <1>2, <1>3, <1>4, <1>5, TotalUnfolded

LEMMA TotalEmpty == ASSUME NEW w PROVE Total(w, {}) = 0
  BY TotalSplits, FS_EmptySet

\* The order of the summands does not matter.
LEMMA TotalRemove ==
  ASSUME NEW S, IsFiniteSet(S), NEW w, \A x \in S : w[x] \in Int, NEW x \in S
  PROVE  Total(w, S) = w[x] + Total(w, S \ {x})
<1> DEFINE N == {n \in Nat : \A T \in SUBSET S : Cardinality(T) = n =>
                   \A y \in T : Total(w, T) = w[y] + Total(w, T \ {y})}
<1>0. \A T \in SUBSET S : IsFiniteSet(T) /\ Cardinality(T) \in Nat
                          /\ \A y \in T : w[y] \in Int
  BY FS_Subset, FS_CardinalityType
<1>1. 0 \in N
  BY <1>0, FS_EmptySet
<1>2. ASSUME NEW n \in Nat, n \in N PROVE n + 1 \in N
  <2> SUFFICES ASSUME NEW T \in SUBSET S, Cardinality(T) = n + 1, NEW y \in T
               PROVE  Total(w, T) = w[y] + Total(w, T \ {y})
    OBVIOUS
  <2> DEFINE c == Some(T)
  <2>1. c \in T /\ Total(w, T) = w[c] + Total(w, T \ {c})
    BY <1>0, TotalSplits
  <2> HIDE DEF c
  <2>2. CASE c = y
    BY <2>1, <2>2
  <2>3. CASE c # y
    <3>1. /\ T \ {c} \in SUBSET S /\ Cardinality(T \ {c}) = n /\ y \in T \ {c}
          /\ T \ {y} \in SUBSET S /\ Cardinality(T \ {y}) = n /\ c \in T \ {y}
      <4>1. Cardinality(T \ {c}) = Cardinality(T) - 1
        BY <2>1, <1>0, FS_RemoveElement
      <4>2. Cardinality(T \ {y}) = Cardinality(T) - 1
        BY <1>0, FS_RemoveElement
      <4> QED
        BY <4>1, <4>2, <2>1, <2>3
    <3>2. Total(w, T \ {c}) = w[y] + Total(w, (T \ {c}) \ {y})
      BY <3>1, <1>2
    <3>3. Total(w, T \ {y}) = w[c] + Total(w, (T \ {y}) \ {c})
      BY <3>1, <1>2
    <3>4. (T \ {c}) \ {y} = (T \ {y}) \ {c}
      OBVIOUS
    <3>5. /\ w[c] \in Int /\ w[y] \in Int
          /\ Total(w, (T \ {y}) \ {c}) \in Int
      <4>1. (T \ {y}) \ {c} \in SUBSET S
        OBVIOUS
      <4> QED
        BY <4>1, <2>1, <1>0, TotalSplits
    <3> DEFINE rest == Total(w, (T \ {y}) \ {c})
    <3>6. /\ Total(w, T \ {c}) = w[y] + rest
          /\ Total(w, T \ {y}) = w[c] + rest
          /\ w[c] \in Int /\ w[y] \in Int /\ rest \in Int
      BY <3>2, <3>3, <3>4, <3>5
    <3> HIDE DEF rest
    <3> QED
      BY <2>1, <3>6
  <2> QED
    BY <2>2, <2>3
<1>3. Cardinality(S) \in N
  <2> HIDE DEF N
  <2> QED
    BY <1>1, <1>2, <1>0, NatSetInduction
<1> QED
  BY <1>3

LEMMA TotalAdd ==
  ASSUME NEW S, IsFiniteSet(S), NEW x, x \notin S,
         NEW w, \A y \in S \cup {x} : w[y] \in Int
  PROVE  Total(w, S \cup {x}) = w[x] + Total(w, S)
<1>1. IsFiniteSet(S \cup {x}) /\ x \in S \cup {x} /\ (S \cup {x}) \ {x} = S
  BY FS_AddElement
<1> QED
  BY <1>1, TotalRemove

LEMMA TotalUnion ==
  ASSUME NEW S, IsFiniteSet(S), NEW T, IsFiniteSet(T), S \cap T = {},
         NEW w, \A x \in S \cup T : w[x] \in Int
  PROVE  Total(w, S \cup T) = Total(w, S) + Total(w, T)
<1> DEFINE K == {U \in SUBSET T : Total(w, S \cup U) = Total(w, S) + Total(w, U)}
<1>0. \A U \in SUBSET T : IsFiniteSet(U) /\ IsFiniteSet(S \cup U) /\ Total(w, U) \in Int
  BY FS_Subset, FS_Union, TotalSplits
<1>1. {} \in K
  <2>1. Total(w, S) \in Int /\ Total(w, {}) = 0 /\ S \cup {} = S
    BY TotalSplits, TotalEmpty
  <2> QED
    BY <2>1
<1>2. ASSUME NEW U \in SUBSET T, NEW x \in T \ U, U \in K PROVE U \cup {x} \in K
  <2>1. Total(w, U \cup {x}) = w[x] + Total(w, U)
    BY <1>0, TotalAdd
  <2>2. Total(w, (S \cup U) \cup {x}) = w[x] + Total(w, S \cup U)
    BY <1>0, TotalAdd
  <2>3. (S \cup U) \cup {x} = S \cup (U \cup {x}) /\ U \cup {x} \in SUBSET T
    OBVIOUS
  <2>4. w[x] \in Int /\ Total(w, U) \in Int /\ Total(w, S) \in Int
    BY <1>0, TotalSplits
  <2>5. Total(w, S \cup U) = Total(w, S) + Total(w, U)
    BY <1>2
  <2>6. Total(w, S \cup (U \cup {x})) = w[x] + Total(w, S \cup U)
    BY <2>2, <2>3
  <2>7. Total(w, S \cup (U \cup {x})) = Total(w, S) + Total(w, U \cup {x})
    BY <2>1, <2>4, <2>5, <2>6
  <2> QED
    BY <2>3, <2>7
<1>3. T \in K
  <2> HIDE DEF K
  <2> QED
    BY <1>1, <1>2, SubsetInduction
<1> QED
  BY <1>3

\* Summands that are not negative.
LEMMA TotalNat ==
  ASSUME NEW S, IsFiniteSet(S), NEW w, \A x \in S : w[x] \in Nat
  PROVE  Total(w, S) \in Nat
<1> DEFINE K == {U \in SUBSET S : Total(w, U) \in Nat}
<1>1. {} \in K
  BY TotalEmpty
<1>2. ASSUME NEW U \in SUBSET S, NEW x \in S \ U, U \in K PROVE U \cup {x} \in K
  <2>1. IsFiniteSet(U)
    BY FS_Subset
  <2>2. Total(w, U \cup {x}) = w[x] + Total(w, U)
    BY <2>1, TotalAdd
  <2> QED
    BY <2>2, <1>2
<1>3. S \in K
  <2> HIDE DEF K
  <2> QED
    BY <1>1, <1>2, SubsetInduction
<1> QED
  BY <1>3

LEMMA TotalMonotone ==
  ASSUME NEW T, IsFiniteSet(T), NEW S \in SUBSET T,
         NEW w, \A x \in T : w[x] \in Nat
  PROVE  Total(w, S) <= Total(w, T)
<1>1. IsFiniteSet(S) /\ IsFiniteSet(T \ S) /\ S \cup (T \ S) = T
  BY FS_Subset
<1>2. Total(w, T) = Total(w, S) + Total(w, T \ S)
  BY <1>1, TotalUnion
<1>3. Total(w, S) \in Nat /\ Total(w, T \ S) \in Nat
  BY <1>1, TotalNat
<1> QED
  BY <1>2, <1>3

LEMMA TotalSubadditive ==
  ASSUME NEW S, IsFiniteSet(S), NEW T, IsFiniteSet(T),
         NEW w, \A x \in S \cup T : w[x] \in Nat
  PROVE  Total(w, S \cup T) <= Total(w, S) + Total(w, T)
<1>1. IsFiniteSet(T \ S) /\ S \cup (T \ S) = S \cup T
  BY FS_Subset
<1>2. Total(w, S \cup T) = Total(w, S) + Total(w, T \ S)
  BY <1>1, TotalUnion
<1>3. Total(w, T \ S) <= Total(w, T)
  BY TotalMonotone
<1>4. Total(w, S) \in Nat /\ Total(w, T \ S) \in Nat /\ Total(w, T) \in Nat
  BY <1>1, TotalNat
<1> QED
  BY <1>2, <1>3, <1>4

\* A sum depends on its summands only.
LEMMA TotalSame ==
  ASSUME NEW S, IsFiniteSet(S), NEW v, NEW w,
         \A x \in S : v[x] = w[x] /\ w[x] \in Int
  PROVE  Total(v, S) = Total(w, S)
<1> DEFINE K == {U \in SUBSET S : Total(v, U) = Total(w, U)}
<1>1. {} \in K
  BY TotalEmpty
<1>2. ASSUME NEW U \in SUBSET S, NEW x \in S \ U, U \in K PROVE U \cup {x} \in K
  <2>1. IsFiniteSet(U)
    BY FS_Subset
  <2>2. Total(w, U \cup {x}) = w[x] + Total(w, U)
    BY <2>1, TotalAdd
  <2>3. Total(v, U \cup {x}) = v[x] + Total(v, U)
    BY <2>1, TotalAdd
  <2> QED
    BY <2>2, <2>3, <1>2
<1>3. S \in K
  <2> HIDE DEF K
  <2> QED
    BY <1>1, <1>2, SubsetInduction
<1> QED
  BY <1>3

-----------------------------------------------------------------------------
(* Filtering.                                                               *)

\* The members of the first i elements of s that lie in S, for each i.
Kept(s, S) ==
    CHOOSE kept : kept =
        [i \in 0..Len(s) |->
            IF i = 0 THEN <<>>
            ELSE IF s[i] \in S THEN Append(kept[i-1], s[i]) ELSE kept[i-1]]

LEMMA AmongIsKept == ASSUME NEW s, NEW S PROVE Among(s, S) = Kept(s, S)[Len(s)]
  BY DEF Among, Kept

LEMMA KeptDefined ==
  ASSUME NEW R, NEW s \in Seq(R), NEW S
  PROVE  \A i \in 0..Len(s) :
            Kept(s, S)[i] = IF i = 0 THEN <<>>
                            ELSE IF s[i] \in S THEN Append(Kept(s, S)[i-1], s[i])
                            ELSE Kept(s, S)[i-1]
<1> DEFINE n == Len(s)
           step == [p \in (1..n) \X Seq(R) |->
                      IF s[p[1]] \in S THEN Append(p[2], s[p[1]]) ELSE p[2]]
<1>1. n \in Nat /\ <<>> \in Seq(R)
  OBVIOUS
<1>2. step \in [(1..n) \X Seq(R) -> Seq(R)]
  <2> SUFFICES ASSUME NEW p \in (1..n) \X Seq(R)
               PROVE  (IF s[p[1]] \in S THEN Append(p[2], s[p[1]]) ELSE p[2]) \in Seq(R)
    OBVIOUS
  <2>1. p[1] \in 1..n /\ p[2] \in Seq(R) /\ s[p[1]] \in R
    OBVIOUS
  <2> QED
    BY <2>1
<1>3. \A i \in 1..n, v \in Seq(R) :
         step[<<i, v>>] = IF s[i] \in S THEN Append(v, s[i]) ELSE v
  OBVIOUS
<1> HIDE DEF n, step
<1>4. PICK f \in [0..n -> Seq(R)] :
         f[0] = <<>> /\ \A i \in 1..n : f[i] = step[<<i, f[i - 1]>>]
  <2> DEFINE V == Seq(R)
             base == <<>>
  <2>1. n \in Nat /\ base \in V /\ step \in [(1..n) \X V -> V]
    BY <1>1, <1>2
  <2> HIDE DEF V, base
  <2>2. \E f : Iterates(f, n, V, base, step)
    BY <2>1, Recursion
  <2> QED
    BY <2>2 DEF V, base, Iterates
<1>5. ASSUME NEW i \in 0..n
      PROVE  f[i] = IF i = 0 THEN <<>>
                    ELSE IF s[i] \in S THEN Append(f[i-1], s[i]) ELSE f[i-1]
  <2>1. CASE i = 0
    BY <1>4, <2>1
  <2>2. CASE i # 0
    <3>1. i \in 1..n /\ i - 1 \in 0..n
      BY <1>1, <2>2
    <3>2. f[i - 1] \in Seq(R) /\ f[i] = step[<<i, f[i - 1]>>]
      BY <1>4, <3>1
    <3> QED
      BY <1>3, <2>2, <3>1, <3>2
  <2> QED
    BY <2>1, <2>2
<1>6. f = [i \in 0..n |->
             IF i = 0 THEN <<>>
             ELSE IF s[i] \in S THEN Append(f[i-1], s[i]) ELSE f[i-1]]
  <2> DEFINE g == [i \in 0..n |->
                     IF i = 0 THEN <<>>
                     ELSE IF s[i] \in S THEN Append(f[i-1], s[i]) ELSE f[i-1]]
  <2>1. DOMAIN f = 0..n /\ DOMAIN g = 0..n /\ f = [i \in 0..n |-> f[i]]
    BY <1>4
  <2>2. \A i \in 0..n : f[i] = g[i]
    BY <1>5
  <2> HIDE DEF g
  <2>3. g = [i \in 0..n |-> g[i]]
    BY DEF g
  <2>4. f = g
    BY <2>1, <2>2, <2>3
  <2> QED
    BY <2>4 DEF g
<1> DEFINE kept == Kept(s, S)
<1>7. kept = [i \in 0..n |->
                IF i = 0 THEN <<>>
                ELSE IF s[i] \in S THEN Append(kept[i-1], s[i]) ELSE kept[i-1]]
  BY <1>6, Zenon DEF Kept, n
<1> HIDE DEF kept
<1>8. \A i \in 0..n :
         kept[i] = IF i = 0 THEN <<>>
                   ELSE IF s[i] \in S THEN Append(kept[i-1], s[i]) ELSE kept[i-1]
  <2> DEFINE rhs == [i \in 0..n |->
                       IF i = 0 THEN <<>>
                       ELSE IF s[i] \in S THEN Append(kept[i-1], s[i]) ELSE kept[i-1]]
  <2>1. \A i \in 0..n :
           rhs[i] = IF i = 0 THEN <<>>
                    ELSE IF s[i] \in S THEN Append(kept[i-1], s[i]) ELSE kept[i-1]
    OBVIOUS
  <2>2. kept = rhs
    BY <1>7
  <2> HIDE DEF rhs
  <2> QED
    BY <2>1, <2>2
<1> QED
  BY <1>8 DEF kept, n


\* g tells where each element of q stands among the first m of s: q has those
\* that lie in S, each once and in their order.
Indexes(g, q, s, S, m) ==
    /\ g \in [1..Len(q) -> 1..m]
    /\ \A k \in 1..Len(q) : q[k] = s[g[k]] /\ s[g[k]] \in S
    /\ \A j, k \in 1..Len(q) : j < k => g[j] < g[k]
    /\ \A i \in 1..m : s[i] \in S => \E k \in 1..Len(q) : g[k] = i

LEMMA IndexesEmpty ==
  ASSUME NEW s, NEW S
  PROVE  \E g : Indexes(g, <<>>, s, S, 0)
<1> DEFINE g == [i \in 1..0 |-> 1]
<1>1. g \in [1..0 -> 1..0] /\ 1..0 = {} /\ Len(<<>>) = 0
  OBVIOUS
<1> HIDE DEF g
<1>2. Indexes(g, <<>>, s, S, 0)
  BY <1>1 DEF Indexes
<1> QED
  BY <1>2

LEMMA IndexesAppend ==
  ASSUME NEW R, NEW s, NEW S, NEW q \in Seq(R), NEW m \in Nat, s[m+1] \in R,
         s[m+1] \in S, NEW g, Indexes(g, q, s, S, m)
  PROVE  \E h : Indexes(h, Append(q, s[m+1]), s, S, m+1)
<1> DEFINE r == Append(q, s[m+1])
           n == Len(q)
           h == [k \in 1..n+1 |-> IF k = n+1 THEN m+1 ELSE g[k]]
<1>1. n \in Nat /\ Len(r) = n + 1 /\ r[n+1] = s[m+1] /\ \A k \in 1..n : r[k] = q[k]
  OBVIOUS
<1>2. \A k \in 1..n : g[k] \in 1..m
  BY DEF Indexes
<1>3. h \in [1..n+1 -> 1..m+1] /\ h[n+1] = m+1 /\ \A k \in 1..n : h[k] = g[k]
  BY <1>1, <1>2
<1> HIDE DEF h
<1>4. \A k \in 1..n+1 : k \in 1..n \/ k = n+1
  BY <1>1
<1>5. \A k \in 1..n : q[k] = s[g[k]] /\ s[g[k]] \in S
  BY DEF Indexes
<1>6. \A k \in 1..n+1 : r[k] = s[h[k]] /\ s[h[k]] \in S
  BY <1>1, <1>3, <1>4, <1>5
<1>7. \A j, k \in 1..n : j < k => g[j] < g[k]
  BY DEF Indexes
<1>8. ASSUME NEW j \in 1..n+1, NEW k \in 1..n+1, j < k
      PROVE  h[j] < h[k]
  <2>1. j \in 1..n
    BY <1>1, <1>8
  <2>2. CASE k = n+1
    BY <1>2, <1>3, <2>1, <2>2
  <2>3. CASE k \in 1..n
    BY <1>3, <1>7, <1>8, <2>1, <2>3
  <2> QED
    BY <1>4, <2>2, <2>3
<1>9. \A i \in 1..m : s[i] \in S => \E k \in 1..n : g[k] = i
  BY DEF Indexes
<1>10. ASSUME NEW i \in 1..m+1, s[i] \in S
       PROVE  \E k \in 1..n+1 : h[k] = i
  <2>1. n + 1 \in 1..n+1 /\ \A k \in 1..n : k \in 1..n+1
    BY <1>1
  <2>2. i = m + 1 \/ i \in 1..m
    OBVIOUS
  <2>3. CASE i = m + 1
    BY <1>3, <2>1, <2>3
  <2>4. CASE i \in 1..m
    <3>1. PICK k \in 1..n : g[k] = i
      BY <1>9, <1>10, <2>4
    <3> QED
      BY <1>3, <2>1, <3>1
  <2> QED
    BY <2>2, <2>3, <2>4
<1>11. Indexes(h, r, s, S, m+1)
  <2> HIDE DEF r
  <2> QED
    BY <1>1, <1>3, <1>6, <1>8, <1>10 DEF Indexes
<1> QED
  BY <1>11

LEMMA IndexesSkip ==
  ASSUME NEW R, NEW s, NEW S, NEW q \in Seq(R), NEW m \in Nat, s[m+1] \notin S,
         NEW g, Indexes(g, q, s, S, m)
  PROVE  Indexes(g, q, s, S, m+1)
<1>1. g \in [1..Len(q) -> 1..m+1]
  BY DEF Indexes
<1>2. ASSUME NEW i \in 1..m+1, s[i] \in S
      PROVE  \E k \in 1..Len(q) : g[k] = i
  <2>1. i \in 1..m
    BY <1>2
  <2> QED
    BY <1>2, <2>1 DEF Indexes
<1> QED
  BY <1>1, <1>2 DEF Indexes

\* What is kept are the members of s in S, each at its turn.
LEMMA KeptFacts ==
  ASSUME NEW R, NEW s \in Seq(R), NEW S, NEW n \in 0..Len(s)
  PROVE  /\ Kept(s, S)[n] \in Seq(R)
         /\ \E g : Indexes(g, Kept(s, S)[n], s, S, n)
<1> DEFINE kept == Kept(s, S)
           K == {m \in Nat : m <= Len(s) =>
                   kept[m] \in Seq(R) /\ \E g : Indexes(g, kept[m], s, S, m)}
<1>0. ASSUME NEW i \in 0..Len(s)
      PROVE  kept[i] = IF i = 0 THEN <<>>
                       ELSE IF s[i] \in S THEN Append(kept[i-1], s[i])
                            ELSE kept[i-1]
  BY KeptDefined
<1> HIDE DEF kept
<1>1. 0 \in K
  <2>1. 0 \in 0..Len(s) /\ <<>> \in Seq(R)
    OBVIOUS
  <2>2. kept[0] = <<>>
    BY <1>0, <2>1
  <2>3. \E g : Indexes(g, <<>>, s, S, 0)
    BY IndexesEmpty
  <2> QED
    BY <2>1, <2>2, <2>3
<1>2. ASSUME NEW m \in Nat, m \in K PROVE m + 1 \in K
  <2> SUFFICES ASSUME m + 1 <= Len(s)
               PROVE  kept[m+1] \in Seq(R)
                      /\ \E g : Indexes(g, kept[m+1], s, S, m+1)
    BY DEF K
  <2> DEFINE q == kept[m]
  <2>1. q \in Seq(R) /\ \E g : Indexes(g, q, s, S, m)
    BY <1>2
  <2>2. s[m+1] \in R
    OBVIOUS
  <2>3. kept[m+1] = IF s[m+1] \in S THEN Append(q, s[m+1]) ELSE q
    <3>1. m + 1 \in 0..Len(s) /\ m + 1 # 0 /\ (m + 1) - 1 = m
      OBVIOUS
    <3> QED
      BY <1>0, <3>1
  <2> HIDE DEF q
  <2>4. CASE s[m+1] \in S
    <3>1. Append(q, s[m+1]) \in Seq(R)
      BY <2>1, <2>2
    <3>2. \E h : Indexes(h, Append(q, s[m+1]), s, S, m+1)
      BY <2>1, <2>2, <2>4, IndexesAppend
    <3> QED
      BY <2>3, <2>4, <3>1, <3>2
  <2>5. CASE s[m+1] \notin S
    <3>1. \E g : Indexes(g, q, s, S, m+1)
      BY <2>1, <2>5, IndexesSkip
    <3> QED
      BY <2>1, <2>3, <2>5, <3>1
  <2> QED
    BY <2>4, <2>5
<1> HIDE DEF K
<1>3. n \in K
  BY <1>1, <1>2, NatSetInduction
<1> QED
  BY <1>3 DEF K, kept

\* Each member of s in S is there once, in the order of s, and nothing else is.
LEMMA AmongFacts ==
  ASSUME NEW R, NEW s \in Seq(R), NEW S
  PROVE  /\ Among(s, S) \in Seq(R)
         /\ \E g : Indexes(g, Among(s, S), s, S, Len(s))
<1>1. Len(s) \in 0..Len(s)
  OBVIOUS
<1>2. Kept(s, S)[Len(s)] \in Seq(R) /\ \E g : Indexes(g, Kept(s, S)[Len(s)], s, S, Len(s))
  BY <1>1, KeptFacts
<1> QED
  BY <1>2, AmongIsKept


LEMMA ToSetMember ==
  ASSUME NEW R, NEW s \in Seq(R)
  PROVE  /\ ToSet(s) \subseteq R
         /\ \A i \in 1..Len(s) : s[i] \in ToSet(s)
         /\ \A x \in ToSet(s) : \E i \in 1..Len(s) : s[i] = x
  BY DEF ToSet

\* The members of s in S, then those in T: each once, and in this order.
LEMMA AmongBoth ==
  ASSUME NEW R, NEW s \in Seq(R), NEW S, NEW T, S \cap T = {},
         \A i, j \in 1..Len(s) : s[i] = s[j] => i = j
  PROVE  LET q == Among(s, S) \o Among(s, T)
         IN  /\ q \in Seq(R)
             /\ ToSet(q) = {x \in ToSet(s) : x \in S \cup T}
             /\ \A i, j \in 1..Len(q) : q[i] = q[j] => i = j
             /\ \A i, j \in 1..Len(q) : i < j /\ q[i] \in T => q[j] \in T
<1> DEFINE q == Among(s, S) \o Among(s, T)
           a == Among(s, S)
           b == Among(s, T)
           m == Len(a)
           n == Len(b)
<1>1. /\ a \in Seq(R) /\ b \in Seq(R)
      /\ \E g : Indexes(g, a, s, S, Len(s))
      /\ \E h : Indexes(h, b, s, T, Len(s))
  BY AmongFacts
<1>2. PICK g : Indexes(g, a, s, S, Len(s))
  BY <1>1
<1>3. PICK h : Indexes(h, b, s, T, Len(s))
  BY <1>1
<1>4. q = a \o b
  OBVIOUS
<1> HIDE DEF a, b, q
<1>5. /\ q \in Seq(R) /\ Len(q) = m + n /\ m \in Nat /\ n \in Nat
      /\ \A i \in 1..m : q[i] = a[i]
      /\ \A i \in m+1..m+n : q[i] = b[i - m]
  BY <1>1, <1>4
<1>0. /\ \A i \in 1..Len(q) : q[i] \in ToSet(q)
      /\ \A x \in ToSet(q) : \E i \in 1..Len(q) : q[i] = x
  <2>1. q \in Seq(R)
    BY <1>5
  <2> QED
    BY <2>1, ToSetMember
<1>6. \A i \in 1..m : g[i] \in 1..Len(s) /\ a[i] = s[g[i]] /\ s[g[i]] \in S
  BY <1>2 DEF Indexes
<1>7. \A i \in 1..n : h[i] \in 1..Len(s) /\ b[i] = s[h[i]] /\ s[h[i]] \in T
  BY <1>3 DEF Indexes
<1>8. \A i, j \in 1..m : g[i] = g[j] => i = j
  BY <1>2, <1>5, <1>6 DEF Indexes
<1>9. \A i, j \in 1..n : h[i] = h[j] => i = j
  BY <1>3, <1>5, <1>7 DEF Indexes
<1> HIDE DEF m, n
<1>10. \A i \in 1..Len(q) : i \in 1..m \/ (i \in m+1..m+n /\ i - m \in 1..n)
  BY <1>5
<1>11. \A i \in 1..m : q[i] \in S /\ q[i] \notin T
  BY <1>5, <1>6
<1>12. ASSUME NEW i \in m+1..m+n PROVE q[i] \in T /\ q[i] = s[h[i - m]] /\ i - m \in 1..n
  BY <1>5, <1>7
<1>13. ASSUME NEW i \in 1..Len(q), NEW j \in 1..Len(q), q[i] = q[j] PROVE i = j
  <2>1. CASE i \in 1..m /\ j \in 1..m
    <3>1. s[g[i]] = s[g[j]] /\ g[i] \in 1..Len(s) /\ g[j] \in 1..Len(s)
      BY <1>5, <1>6, <1>13, <2>1
    <3> QED
      BY <1>8, <2>1, <3>1
  <2>2. CASE i \in m+1..m+n /\ j \in m+1..m+n
    <3>1. i - m \in 1..n /\ j - m \in 1..n
      BY <1>12, <2>2
    <3>2. s[h[i - m]] = s[h[j - m]] /\ h[i - m] \in 1..Len(s) /\ h[j - m] \in 1..Len(s)
      BY <1>7, <1>12, <1>13, <2>2, <3>1
    <3>3. i - m = j - m
      BY <1>9, <3>1, <3>2
    <3> QED
      BY <1>5, <2>2, <3>3
  <2>3. ~(i \in 1..m /\ j \in m+1..m+n) /\ ~(j \in 1..m /\ i \in m+1..m+n)
    BY <1>11, <1>12, <1>13
  <2> QED
    BY <1>10, <2>1, <2>2, <2>3
<1>14. ASSUME NEW i \in 1..Len(q), NEW j \in 1..Len(q), i < j, q[i] \in T
       PROVE  q[j] \in T
  <2>1. i \in m+1..m+n
    BY <1>10, <1>11, <1>14
  <2>2. j \in m+1..m+n
    BY <1>5, <1>14, <2>1
  <2> QED
    BY <1>12, <2>2
<1>15. ASSUME NEW x \in ToSet(q) PROVE x \in ToSet(s) /\ x \in S \cup T
  <2>1. PICK i \in 1..Len(q) : q[i] = x
    BY <1>0
  <2>2. CASE i \in 1..m
    <3>1. x = s[g[i]] /\ g[i] \in 1..Len(s) /\ x \in S
      BY <1>5, <1>6, <2>1, <2>2
    <3> QED
      BY <3>1, ToSetMember
  <2>3. CASE i \in m+1..m+n
    <3>1. x = s[h[i - m]] /\ h[i - m] \in 1..Len(s) /\ x \in T
      BY <1>7, <1>12, <2>1, <2>3
    <3> QED
      BY <3>1, ToSetMember
  <2> QED
    BY <1>10, <2>2, <2>3
<1>16. ASSUME NEW x \in ToSet(s), x \in S \cup T PROVE x \in ToSet(q)
  <2>1. PICK k \in 1..Len(s) : s[k] = x
    BY ToSetMember
  <2>2. CASE x \in S
    <3>1. PICK i \in 1..Len(a) : g[i] = k
      BY <1>2, <2>1, <2>2 DEF Indexes
    <3>2. i \in 1..m
      BY <3>1 DEF m
    <3>3. i \in 1..Len(q) /\ q[i] = x
      BY <1>5, <1>6, <2>1, <3>1, <3>2
    <3> QED
      BY <1>0, <3>3
  <2>3. CASE x \in T
    <3>1. PICK i \in 1..Len(b) : h[i] = k
      BY <1>3, <2>1, <2>3 DEF Indexes
    <3>2. i \in 1..n
      BY <3>1 DEF n
    <3>3. m + i \in m+1..m+n /\ (m + i) - m = i /\ m + i \in 1..Len(q)
      BY <1>5, <3>2
    <3>4. q[m + i] = x
      BY <1>12, <2>1, <3>1, <3>3
    <3> QED
      BY <1>0, <3>3, <3>4
  <2> QED
    BY <1>16, <2>2, <2>3
<1>17. ToSet(q) = {x \in ToSet(s) : x \in S \cup T}
  BY <1>15, <1>16
<1> QED
  BY <1>5, <1>13, <1>14, <1>17 DEF q

\* A set that has the empty sequence, and with each sequence those one longer, has
\* them all.
LEMMA SeqSetInduction ==
  ASSUME NEW R, NEW K, <<>> \in K,
         \A s \in Seq(R), x \in R : s \in K => Append(s, x) \in K
  PROVE  Seq(R) \subseteq K
<1> DEFINE N == {n \in Nat : \A s \in Seq(R) : Len(s) = n => s \in K}
<1>1. 0 \in N
  <2>1. \A s \in Seq(R) : Len(s) = 0 => s = <<>>
    OBVIOUS
  <2> QED
    BY <2>1
<1>2. ASSUME NEW n \in Nat, n \in N PROVE n + 1 \in N
  <2> SUFFICES ASSUME NEW s \in Seq(R), Len(s) = n + 1 PROVE s \in K
    OBVIOUS
  <2> DEFINE front == SubSeq(s, 1, n)
  <2>1. /\ front \in Seq(R) /\ Len(front) = n /\ s[n + 1] \in R
        /\ s = Append(front, s[n + 1])
    OBVIOUS
  <2>2. front \in K
    BY <1>2, <2>1
  <2> HIDE DEF front
  <2> QED
    BY <2>1, <2>2
<1> HIDE DEF N
<1>3. Nat \subseteq N
  BY <1>1, <1>2, NatSetInduction
<1> QED
  BY <1>3 DEF N

LEMMA AmongEmpty ==
  ASSUME NEW S
  PROVE  Among(<<>>, S) = <<>>
<1>1. ASSUME NEW R, NEW s \in Seq(R), Len(s) = 0
      PROVE  Among(s, S) = <<>>
  <2>1. 0 \in 0..Len(s)
    BY <1>1
  <2>2. Kept(s, S)[0] = <<>>
    BY <2>1, KeptDefined
  <2> QED
    BY <1>1, <2>2, AmongIsKept
<1>2. <<>> \in Seq({}) /\ Len(<<>>) = 0
  OBVIOUS
<1> QED
  BY <1>1, <1>2

\* Filtering goes from the front to the back.
LEMMA AmongAppend ==
  ASSUME NEW R, NEW s \in Seq(R), NEW x \in R, NEW S
  PROVE  Among(Append(s, x), S) =
            IF x \in S THEN Append(Among(s, S), x) ELSE Among(s, S)
<1> DEFINE r == Append(s, x)
           n == Len(s)
           a == Kept(s, S)
           b == Kept(r, S)
           K == {i \in Nat : i <= n => b[i] = a[i]}
<1>1. /\ r \in Seq(R) /\ n \in Nat /\ Len(r) = n + 1 /\ r[n + 1] = x
      /\ \A i \in 1..n : r[i] = s[i]
  OBVIOUS
<1>2. \A i \in 0..n : a[i] = IF i = 0 THEN <<>>
                             ELSE IF s[i] \in S THEN Append(a[i-1], s[i]) ELSE a[i-1]
  BY KeptDefined
<1>3. \A i \in 0..Len(r) : b[i] = IF i = 0 THEN <<>>
                             ELSE IF r[i] \in S THEN Append(b[i-1], r[i]) ELSE b[i-1]
  <2> HIDE DEF r
  <2> QED
    BY SMTT(20), <1>1, KeptDefined
<1>4. Among(s, S) = a[n] /\ Among(r, S) = b[Len(r)]
  BY AmongIsKept
<1> HIDE DEF r, n, a, b
<1>5. 0 \in K
  <2>1. 0 \in 0..n /\ 0 \in 0..Len(r)
    BY <1>1
  <2> QED
    BY <1>2, <1>3, <2>1
<1>6. ASSUME NEW i \in Nat, i \in K PROVE i + 1 \in K
  <2> SUFFICES ASSUME i + 1 <= n PROVE b[i + 1] = a[i + 1]
    OBVIOUS
  <2>1. /\ i + 1 \in 0..n /\ i + 1 \in 0..Len(r) /\ i + 1 # 0 /\ (i + 1) - 1 = i
        /\ i <= n /\ i + 1 \in 1..n
    BY <1>1
  <2> QED
    BY <1>1, <1>2, <1>3, <1>6, <2>1
<1> HIDE DEF K
<1>7. n \in K
  BY <1>1, <1>5, <1>6, NatSetInduction
<1>8. b[n] = a[n]
  BY <1>1, <1>7 DEF K
<1>9. n + 1 \in 0..Len(r) /\ n + 1 # 0 /\ (n + 1) - 1 = n
  BY <1>1
<1>10. b[n + 1] = IF x \in S THEN Append(b[n], x) ELSE b[n]
  BY <1>1, <1>3, <1>9
<1> QED
  BY <1>1, <1>4, <1>8, <1>10 DEF r

\* What the stricter of two filters keeps does not depend on the other one.
LEMMA AmongAmong ==
  ASSUME NEW R, NEW s \in Seq(R), NEW S, NEW T, T \cap R \subseteq S
  PROVE  Among(Among(s, S), T) = Among(s, T)
<1> DEFINE K == {u \in Seq(R) : Among(Among(u, S), T) = Among(u, T)}
<1>1. <<>> \in K
  <2>1. <<>> \in Seq(R)
    OBVIOUS
  <2> QED
    BY <2>1, AmongEmpty
<1>2. ASSUME NEW u \in Seq(R), NEW x \in R, u \in K PROVE Append(u, x) \in K
  <2> DEFINE v == Among(u, S)
  <2>1. v \in Seq(R)
    BY AmongFacts
  <2>2. Among(v, T) = Among(u, T) /\ Append(u, x) \in Seq(R)
    BY <1>2
  <2>3. Among(Append(u, x), S) = IF x \in S THEN Append(v, x) ELSE v
    BY AmongAppend
  <2>4. Among(Append(u, x), T) = IF x \in T THEN Append(Among(u, T), x) ELSE Among(u, T)
    BY AmongAppend
  <2> HIDE DEF v
  <2>5. Among(Append(v, x), T) = IF x \in T THEN Append(Among(v, T), x) ELSE Among(v, T)
    BY <2>1, AmongAppend
  <2>6. x \in T => x \in S
    OBVIOUS
  <2> QED
    BY <2>2, <2>3, <2>4, <2>5, <2>6
<1> HIDE DEF K
<1>3. s \in K
  BY <1>1, <1>2, SeqSetInduction
<1> QED
  BY <1>3 DEF K

LEMMA AmongShorter ==
  ASSUME NEW R, NEW s \in Seq(R), NEW S
  PROVE  Len(Among(s, S)) <= Len(s)
<1> DEFINE K == {u \in Seq(R) : Len(Among(u, S)) <= Len(u)}
<1>1. <<>> \in K
  <2>1. <<>> \in Seq(R) /\ Len(<<>>) <= Len(<<>>)
    OBVIOUS
  <2> QED
    BY <2>1, AmongEmpty
<1>2. ASSUME NEW u \in Seq(R), NEW x \in R, u \in K PROVE Append(u, x) \in K
  <2> DEFINE v == Among(u, S)
  <2>1. v \in Seq(R) /\ Len(v) <= Len(u)
    BY <1>2, AmongFacts
  <2>2. Among(Append(u, x), S) = IF x \in S THEN Append(v, x) ELSE v
    BY AmongAppend
  <2> HIDE DEF v
  <2>3. Len(Append(v, x)) = Len(v) + 1 /\ Len(Append(u, x)) = Len(u) + 1
        /\ Len(u) \in Nat /\ Len(v) \in Nat /\ Append(u, x) \in Seq(R)
    BY <2>1
  <2> QED
    BY <2>1, <2>2, <2>3
<1> HIDE DEF K
<1>3. s \in K
  BY <1>1, <1>2, SeqSetInduction
<1> QED
  BY <1>3 DEF K

=============================================================================
