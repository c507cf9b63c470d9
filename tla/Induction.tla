------------------------------ MODULE Induction ------------------------------
(***************************************************************************)
(* Induction and recursion for the proofs of this project, in a form that  *)
(* takes sets where the library takes operators: an inductive statement is *)
(* the set of what it holds for.  Everything rests on the least element of *)
(* a set of naturals, that is on WFMin.                                    *)
(***************************************************************************)
EXTENDS Integers, Sequences, FiniteSets, FiniteSetsExt, FiniteSetTheorems,
        WellFoundedInduction, Powers, TLAPS

\* A set of naturals that is not empty has a least element.
LEMMA LeastElement ==
  ASSUME NEW I \in SUBSET Nat, I # {}
  PROVE  \E i \in I : \A j \in I : i <= j
<1>1. PICK i \in I : \A j \in I : <<j, i>> \notin OpToRel(<, Nat)
  BY NatLessThanWellFounded, WFMin
<1>2. \A j \in I : ~(j < i)
  BY <1>1 DEF OpToRel
<1>3. QED
  BY <1>2

\* What holds of 0 and of the successor of each number it holds of, holds of
\* every number.
LEMMA InductionOnNat ==
  ASSUME NEW T, 0 \in T, \A n \in Nat : n \in T => n + 1 \in T
  PROVE  \A n \in Nat : n \in T
<1> DEFINE Rest == Nat \ T
<1>1. SUFFICES ASSUME Rest # {} PROVE FALSE
  OBVIOUS
<1>2. PICK m \in Rest : \A j \in Rest : m <= j
  <2>1. Rest \in SUBSET Nat
    OBVIOUS
  <2> HIDE DEF Rest
  <2>2. QED
    BY <1>1, <2>1, LeastElement
<1>3. m - 1 \in Nat /\ m - 1 \notin Rest
  BY <1>2
<1>4. (m - 1) + 1 \in T
  BY <1>3
<1>5. QED
  BY <1>2, <1>4

\* What holds of the empty sequence, and of a sequence with one element more
\* than one it holds of, holds of every sequence.
LEMMA InductionOnSeqs ==
  ASSUME NEW X, NEW T, <<>> \in T,
         \A s \in Seq(X) : \A e \in X : s \in T => Append(s, e) \in T
  PROVE  \A s \in Seq(X) : s \in T
<1> DEFINE Long == {n \in Nat : \A s \in Seq(X) : Len(s) = n => s \in T}
<1>1. 0 \in Long
  <2>1. \A s \in Seq(X) : Len(s) = 0 => s = <<>>
    OBVIOUS
  <2>2. QED
    BY <2>1
<1>2. ASSUME NEW n \in Nat, n \in Long PROVE n + 1 \in Long
  <2> SUFFICES ASSUME NEW s \in Seq(X), Len(s) = n + 1 PROVE s \in T
    OBVIOUS
  <2> DEFINE front == [i \in 1 .. n |-> s[i]]
  <2>1. front \in Seq(X) /\ Len(front) = n /\ s[n + 1] \in X
    OBVIOUS
  <2>2. s = Append(front, s[n + 1])
    OBVIOUS
  <2> HIDE DEF front
  <2>3. front \in T
    BY <1>2, <2>1
  <2>4. QED
    BY <2>1, <2>2, <2>3
<1> HIDE DEF Long
<1>3. \A n \in Nat : n \in Long
  BY <1>1, <1>2, InductionOnNat
<1>4. QED
  BY <1>3 DEF Long

\* What holds of a set as soon as it holds of the set without any one of its
\* elements, holds of every subset of a finite set.
LEMMA InductionOnSubsets ==
  ASSUME NEW S, IsFiniteSet(S), NEW T,
         \A R \in SUBSET S : (\A x \in R : R \ {x} \in T) => R \in T
  PROVE  \A R \in SUBSET S : R \in T
<1> DEFINE Sized == {n \in Nat : \A R \in SUBSET S :
                                    Cardinality(R) = n => R \in T}
<1>1. 0 \in Sized
  <2> SUFFICES ASSUME NEW R \in SUBSET S, Cardinality(R) = 0 PROVE R \in T
    OBVIOUS
  <2>1. IsFiniteSet(R)
    BY FS_Subset
  <2>2. R = {}
    BY <2>1, FS_EmptySet
  <2>3. QED
    BY <2>2
<1>2. ASSUME NEW n \in Nat, n \in Sized PROVE n + 1 \in Sized
  <2> SUFFICES ASSUME NEW R \in SUBSET S, Cardinality(R) = n + 1,
                      NEW x \in R
               PROVE  R \ {x} \in T
    OBVIOUS
  <2>1. IsFiniteSet(R)
    BY FS_Subset
  <2>2. Cardinality(R \ {x}) = Cardinality(R) - 1
    BY <2>1, FS_RemoveElement
  <2>3. Cardinality(R \ {x}) = n
    BY <2>2
  <2>4. QED
    BY <1>2, <2>3
<1> SUFFICES ASSUME NEW R \in SUBSET S PROVE R \in T
  OBVIOUS
<1> HIDE DEF Sized
<1>3. Cardinality(R) \in Nat
  BY FS_Subset, FS_CardinalityType
<1>4. Cardinality(R) \in Sized
  BY <1>1, <1>2, <1>3, InductionOnNat
<1>5. QED
  BY <1>4 DEF Sized

-----------------------------------------------------------------------------
(* Functions that are defined by recursion are what their definitions say. *)

\* The function with the first value a, in which step makes each further value
\* from its index and the value before.
Recursive(f, D, a, step) ==
  f = [n \in D |-> IF n = 0 THEN a ELSE step[n][f[n - 1]]]

\* It exists up to every number.
LEMMA RecursionUpTo ==
  ASSUME NEW S, NEW a \in S, NEW step \in [Nat -> [S -> S]], NEW N \in Nat
  PROVE  \E f \in [0 .. N -> S] : Recursive(f, 0 .. N, a, step)
<1> DEFINE T == {n \in Nat : \E f \in [0 .. n -> S] :
                                Recursive(f, 0 .. n, a, step)}
<1>1. 0 \in T
  <2> DEFINE f == [i \in 0 .. 0 |-> a]
  <2>1. f \in [0 .. 0 -> S] /\ Recursive(f, 0 .. 0, a, step)
    BY DEF Recursive
  <2>2. QED
    BY <2>1
<1>2. ASSUME NEW n \in Nat, n \in T PROVE n + 1 \in T
  <2>1. PICK f \in [0 .. n -> S] : Recursive(f, 0 .. n, a, step)
    BY <1>2
  <2> DEFINE g == [i \in 0 .. n + 1 |->
                     IF i <= n THEN f[i] ELSE step[n + 1][f[n]]]
  <2>2. step[n + 1][f[n]] \in S
    OBVIOUS
  <2>3. g \in [0 .. n + 1 -> S]
    BY <2>2
  <2>4. ASSUME NEW i \in 0 .. n + 1
        PROVE  g[i] = IF i = 0 THEN a ELSE step[i][g[i - 1]]
    <3>1. CASE i = n + 1
      <4>1. g[i] = step[n + 1][f[n]] /\ g[i - 1] = f[n]
        BY <3>1
      <4>2. QED
        BY <3>1, <4>1
    <3>2. CASE i <= n
      <4>1. f[i] = IF i = 0 THEN a ELSE step[i][f[i - 1]]
        BY <2>1, <3>2 DEF Recursive
      <4>2. g[i] = f[i] /\ (i # 0 => g[i - 1] = f[i - 1])
        BY <3>2
      <4>3. QED
        BY <4>1, <4>2
    <3>3. QED
      BY <3>1, <3>2
  <2>5. Recursive(g, 0 .. n + 1, a, step)
    <3>1. g = [i \in 0 .. n + 1 |-> g[i]]
      OBVIOUS
    <3> HIDE DEF g
    <3>2. QED
      BY <2>4, <3>1 DEF Recursive
  <2> HIDE DEF g
  <2>6. QED
    BY <2>3, <2>5
<1> HIDE DEF T
<1>3. N \in T
  BY <1>1, <1>2, InductionOnNat
<1>4. QED
  BY <1>3 DEF T

\* It is one function, however far it is taken.
LEMMA RecursionUnique ==
  ASSUME NEW a, NEW step, NEW M \in Nat, NEW N \in Nat, M <= N,
         NEW f, Recursive(f, 0 .. M, a, step),
         NEW g, Recursive(g, 0 .. N, a, step)
  PROVE  \A i \in 0 .. M : f[i] = g[i]
<1> DEFINE T == {i \in Nat : i <= M => f[i] = g[i]}
<1>1. 0 \in T
  BY DEF Recursive
<1>2. ASSUME NEW i \in Nat, i \in T PROVE i + 1 \in T
  <2> SUFFICES ASSUME i + 1 <= M PROVE f[i + 1] = g[i + 1]
    OBVIOUS
  <2>1. f[i + 1] = step[i + 1][f[i]]
    BY DEF Recursive
  <2>2. g[i + 1] = step[i + 1][g[i]]
    BY DEF Recursive
  <2>3. QED
    BY <1>2, <2>1, <2>2
<1> HIDE DEF T
<1>3. \A i \in Nat : i \in T
  BY <1>1, <1>2, InductionOnNat
<1>4. QED
  BY <1>3 DEF T

\* It exists on all naturals.
LEMMA RecursionOnNat ==
  ASSUME NEW S, NEW a \in S, NEW step \in [Nat -> [S -> S]]
  PROVE  \E f \in [Nat -> S] : Recursive(f, Nat, a, step)
<1> DEFINE UpTo(n) == CHOOSE f \in [0 .. n -> S] :
                        Recursive(f, 0 .. n, a, step)
           F == [n \in Nat |-> UpTo(n)[n]]
<1>1. ASSUME NEW n \in Nat
      PROVE  UpTo(n) \in [0 .. n -> S] /\ Recursive(UpTo(n), 0 .. n, a, step)
  BY RecursionUpTo
<1> HIDE DEF UpTo
<1>2. F \in [Nat -> S]
  BY <1>1
<1>3. ASSUME NEW n \in Nat
      PROVE  F[n] = IF n = 0 THEN a ELSE step[n][F[n - 1]]
  <2>1. UpTo(n)[n] = IF n = 0 THEN a ELSE step[n][UpTo(n)[n - 1]]
    BY <1>1 DEF Recursive
  <2>2. CASE n = 0
    BY <2>1, <2>2
  <2>3. CASE n # 0
    <3>1. n - 1 \in Nat /\ n - 1 <= n
      BY <2>3
    <3>2. \A i \in 0 .. n - 1 : UpTo(n - 1)[i] = UpTo(n)[i]
      BY <1>1, <3>1, RecursionUnique
    <3>3. UpTo(n - 1)[n - 1] = UpTo(n)[n - 1]
      BY <3>1, <3>2
    <3>4. QED
      BY <2>1, <2>3, <3>1, <3>3
  <2>4. QED
    BY <2>2, <2>3
<1>4. F = [n \in Nat |-> F[n]]
  OBVIOUS
<1> HIDE DEF F
<1>5. QED
  BY <1>2, <1>3, <1>4 DEF Recursive

\* Pow2 doubles from 1.
LEMMA Pow2Properties ==
  /\ Pow2[0] = 1
  /\ \A n \in Nat : Pow2[n] \in Nat \ {0} /\ Pow2[n + 1] = 2 * Pow2[n]
<1> DEFINE step == [n \in Nat |-> [x \in Nat \ {0} |-> 2 * x]]
           Eq(f) == f = [n \in Nat |-> IF n = 0 THEN 1 ELSE 2 * f[n - 1]]
<1>1. PICK f \in [Nat -> Nat \ {0}] : Recursive(f, Nat, 1, step)
  <2>1. step \in [Nat -> [Nat \ {0} -> Nat \ {0}]]
    OBVIOUS
  <2>2. 1 \in Nat \ {0}
    OBVIOUS
  <2> HIDE DEF step
  <2>3. QED
    BY <2>1, <2>2, RecursionOnNat
<1>2. Eq(f)
  <2>1. f = [n \in Nat |-> f[n]]
    OBVIOUS
  <2>2. ASSUME NEW n \in Nat
        PROVE  f[n] = IF n = 0 THEN 1 ELSE 2 * f[n - 1]
    <3>1. f[n] = IF n = 0 THEN 1 ELSE step[n][f[n - 1]]
      BY <1>1 DEF Recursive
    <3>2. QED
      BY <3>1
  <2>3. QED
    BY <2>1, <2>2
<1>3. Pow2 = CHOOSE g : Eq(g)
  BY DEF Pow2
<1>4. Eq(Pow2)
  <2> HIDE DEF Eq
  <2>1. QED
    BY <1>2, <1>3
<1>5. ASSUME NEW n \in Nat
      PROVE  Pow2[n] = IF n = 0 THEN 1 ELSE 2 * Pow2[n - 1]
  BY <1>4
<1> DEFINE T == {n \in Nat : Pow2[n] \in Nat \ {0}}
<1>6. 0 \in T
  BY <1>5
<1>7. ASSUME NEW n \in Nat, n \in T PROVE n + 1 \in T
  <2>1. Pow2[n + 1] = 2 * Pow2[n]
    BY <1>5
  <2>2. QED
    BY <1>7, <2>1
<1> HIDE DEF T
<1>8. \A n \in Nat : n \in T
  BY <1>6, <1>7, InductionOnNat
<1>9. QED
  BY <1>5, <1>8 DEF T

-----------------------------------------------------------------------------
(* The same for functions on the subsets of a finite set, and the sum.     *)

\* The function that takes the picked element out of a set, and adds it to the
\* value for the rest.
RecursiveOnSets(f, D, a, pick, step) ==
  f = [R \in D |-> IF R = {} THEN a
                   ELSE step[pick[R]][f[R \ {pick[R]}]]]

\* It exists on the subsets of a finite set.
LEMMA RecursionOnSubsets ==
  ASSUME NEW S, IsFiniteSet(S), NEW V, NEW a \in V,
         NEW step \in [S -> [V -> V]],
         NEW pick, \A R \in SUBSET S : R # {} => pick[R] \in R
  PROVE  \E f \in [SUBSET S -> V] :
           RecursiveOnSets(f, SUBSET S, a, pick, step)
<1> DEFINE D(n) == {R \in SUBSET S : Cardinality(R) <= n}
           T == {n \in Nat : \E f \in [D(n) -> V] :
                               RecursiveOnSets(f, D(n), a, pick, step)}
<1>0. \A R \in SUBSET S : IsFiniteSet(R) /\ Cardinality(R) \in Nat
  BY FS_Subset, FS_CardinalityType
<1>1. 0 \in T
  <2> DEFINE f == [R \in D(0) |-> a]
  <2>1. \A R \in D(0) : R = {}
    BY <1>0, FS_EmptySet
  <2>2. f \in [D(0) -> V]
    OBVIOUS
  <2>3. RecursiveOnSets(f, D(0), a, pick, step)
    BY <2>1 DEF RecursiveOnSets
  <2> HIDE DEF f
  <2>4. QED
    BY <2>2, <2>3
<1>2. ASSUME NEW n \in Nat, n \in T PROVE n + 1 \in T
  <2>1. PICK f \in [D(n) -> V] : RecursiveOnSets(f, D(n), a, pick, step)
    BY <1>2
  <2> DEFINE Rest(R) == R \ {pick[R]}
             g == [R \in D(n + 1) |-> IF R = {} THEN a
                                      ELSE step[pick[R]][f[Rest(R)]]]
  <2>2. ASSUME NEW R \in D(n + 1), R # {}
        PROVE  pick[R] \in R /\ pick[R] \in S /\ Rest(R) \in D(n)
    <3>1. pick[R] \in R /\ pick[R] \in S
      BY <2>2
    <3>2. Cardinality(Rest(R)) = Cardinality(R) - 1
      BY <1>0, <3>1, FS_RemoveElement
    <3>3. Cardinality(Rest(R)) <= n
      BY <1>0, <3>2
    <3>4. QED
      BY <3>1, <3>3
  <2>3. ASSUME NEW R \in D(n)
        PROVE  R \in D(n + 1) /\ g[R] = f[R]
    <3>1. R \in D(n + 1)
      BY <1>0
    <3>2. f[R] = IF R = {} THEN a ELSE step[pick[R]][f[Rest(R)]]
      BY <2>1 DEF RecursiveOnSets
    <3>3. QED
      BY <3>1, <3>2
  <2>4. g \in [D(n + 1) -> V]
    <3> SUFFICES ASSUME NEW R \in D(n + 1), R # {}
                 PROVE  step[pick[R]][f[Rest(R)]] \in V
      OBVIOUS
    <3>1. pick[R] \in S /\ Rest(R) \in D(n)
      BY <2>2
    <3> HIDE DEF D, Rest
    <3>2. QED
      BY <3>1
  <2>5. ASSUME NEW R \in D(n + 1)
        PROVE  g[R] = IF R = {} THEN a ELSE step[pick[R]][g[Rest(R)]]
    <3>1. CASE R = {}
      BY <3>1
    <3>2. CASE R # {}
      <4>1. g[R] = step[pick[R]][f[Rest(R)]]
        BY <3>2
      <4>2. g[Rest(R)] = f[Rest(R)]
        BY <2>2, <2>3, <3>2
      <4> HIDE DEF g, Rest
      <4>3. QED
        BY <3>2, <4>1, <4>2
    <3>3. QED
      BY <3>1, <3>2
  <2>6. g = [R \in D(n + 1) |-> g[R]]
    OBVIOUS
  <2> HIDE DEF g
  <2>7. RecursiveOnSets(g, D(n + 1), a, pick, step)
    BY <2>5, <2>6 DEF RecursiveOnSets
  <2> HIDE DEF D
  <2>8. QED
    BY <2>4, <2>7
<1>3. SUBSET S = D(Cardinality(S))
  <2>1. \A R \in SUBSET S : Cardinality(R) <= Cardinality(S)
    BY FS_Subset
  <2>2. QED
    BY <2>1
<1> HIDE DEF T
<1>4. Cardinality(S) \in T
  BY <1>0, <1>1, <1>2, InductionOnNat
<1> HIDE DEF D
<1>5. \E f \in [D(Cardinality(S)) -> V] :
        RecursiveOnSets(f, D(Cardinality(S)), a, pick, step)
  BY <1>4 DEF T
<1>6. PICK f \in [D(Cardinality(S)) -> V] :
        RecursiveOnSets(f, D(Cardinality(S)), a, pick, step)
  BY <1>5
<1>7. f \in [SUBSET S -> V]
  BY <1>3
<1>8. RecursiveOnSets(f, SUBSET S, a, pick, step)
  BY <1>3, <1>6
<1>9. QED
  BY <1>7, <1>8

\* The sums of the values of f over the subsets of S, one chosen element at a
\* time.
Sums(S, f, sum) ==
  \A R \in SUBSET S :
    /\ sum[R] \in Nat
    /\ sum[R] = IF R = {} THEN 0
                ELSE f[CHOOSE x \in R : TRUE]
                       + sum[R \ {CHOOSE x \in R : TRUE}]

\* The sum of the values of f on S.
SumOf(f, S) == MapThenSumSet(LAMBDA c : f[c], S)

\* MapThenSumSet takes the sum that way.
LEMMA SumIsDefined ==
  ASSUME NEW S, IsFiniteSet(S), NEW f \in [S -> Nat]
  PROVE  \E sum : Sums(S, f, sum) /\ SumOf(f, S) = sum[S]
<1> DEFINE pick == [R \in SUBSET S |-> CHOOSE x \in R : TRUE]
           step == [x \in S |-> [n \in Nat |-> f[x] + n]]
           Eq(g) == g = [R \in SUBSET S |->
                           IF R = {} THEN 0
                           ELSE f[CHOOSE x \in R : TRUE]
                                  + g[R \ {CHOOSE x \in R : TRUE}]]
<1>1. \A R \in SUBSET S : R # {} => pick[R] \in R
  OBVIOUS
<1>2. step \in [S -> [Nat -> Nat]]
  OBVIOUS
<1>3. \E g \in [SUBSET S -> Nat] :
        RecursiveOnSets(g, SUBSET S, 0, pick, step)
  <2> HIDE DEF pick, step
  <2>1. QED
    BY <1>1, <1>2, RecursionOnSubsets
<1>4. PICK g \in [SUBSET S -> Nat] :
        RecursiveOnSets(g, SUBSET S, 0, pick, step)
  BY <1>3
<1>5. Eq(g)
  <2>1. g = [R \in SUBSET S |-> g[R]]
    OBVIOUS
  <2>2. ASSUME NEW R \in SUBSET S
        PROVE  g[R] = IF R = {} THEN 0
                      ELSE f[CHOOSE x \in R : TRUE]
                             + g[R \ {CHOOSE x \in R : TRUE}]
    <3>1. g[R] = IF R = {} THEN 0 ELSE step[pick[R]][g[R \ {pick[R]}]]
      BY <1>4 DEF RecursiveOnSets
    <3>2. QED
      BY <3>1
  <2>3. QED
    BY <2>1, <2>2
<1>6. SumOf(f, S) = (CHOOSE iter : Eq(iter))[S]
  BY DEF SumOf, MapThenSumSet, MapThenFoldSet
<1>7. Eq(CHOOSE iter : Eq(iter))
  <2> HIDE DEF Eq
  <2>1. QED
    BY <1>5
<1> DEFINE sum == CHOOSE iter : Eq(iter)
           Typed == {R \in SUBSET S : sum[R] \in Nat}
<1>8. ASSUME NEW R \in SUBSET S
      PROVE  sum[R] = IF R = {} THEN 0
                      ELSE f[CHOOSE x \in R : TRUE]
                             + sum[R \ {CHOOSE x \in R : TRUE}]
  <2>1. Eq(sum)
    BY <1>7
  <2> HIDE DEF sum
  <2>2. QED
    BY <2>1
<1> HIDE DEF sum
<1>9. ASSUME NEW R \in SUBSET S, \A x \in R : R \ {x} \in Typed
      PROVE  R \in Typed
  <2>1. CASE R = {}
    <3>1. sum[R] = 0
      BY <1>8, <2>1
    <3>2. QED
      BY <3>1
  <2>2. CASE R # {}
    <3> DEFINE x == CHOOSE x \in R : TRUE
    <3>1. x \in R
      BY <2>2
    <3>2. sum[R] = f[x] + sum[R \ {x}]
      BY <1>8, <2>2
    <3> HIDE DEF x
    <3>3. f[x] \in Nat /\ sum[R \ {x}] \in Nat
      BY <1>9, <3>1
    <3>4. QED
      BY <3>2, <3>3
  <2>3. QED
    BY <2>1, <2>2
<1>10. \A R \in SUBSET S : R \in Typed
  <2> HIDE DEF Typed
  <2>1. QED
    BY <1>9, InductionOnSubsets
<1>11. Sums(S, f, sum)
  BY <1>8, <1>10 DEF Sums
<1>12. QED
  BY <1>6, <1>11 DEF sum

\* The order does not matter: a sum is any one value plus the sum of the rest.
LEMMA SumTakesOut ==
  ASSUME NEW S, IsFiniteSet(S), NEW f \in [S -> Nat], NEW sum, Sums(S, f, sum)
  PROVE  \A R \in SUBSET S : \A x \in R : sum[R] = f[x] + sum[R \ {x}]
<1> DEFINE T == {R \in SUBSET S : \A x \in R : sum[R] = f[x] + sum[R \ {x}]}
<1>1. ASSUME NEW R \in SUBSET S, \A x \in R : R \ {x} \in T
      PROVE  R \in T
  <2> SUFFICES ASSUME NEW x \in R PROVE sum[R] = f[x] + sum[R \ {x}]
    OBVIOUS
  <2> DEFINE y == CHOOSE y \in R : TRUE
  <2>1. y \in R
    OBVIOUS
  <2>2. sum[R] = f[y] + sum[R \ {y}]
    BY DEF Sums
  <2> HIDE DEF y
  <2>3. CASE x = y
    BY <2>2, <2>3
  <2>4. CASE x # y
    <3>1. sum[R \ {y}] = f[x] + sum[(R \ {y}) \ {x}]
      BY <1>1, <2>1, <2>4
    <3>2. sum[R \ {x}] = f[y] + sum[(R \ {x}) \ {y}]
      BY <1>1, <2>1, <2>4
    <3>3. (R \ {y}) \ {x} = (R \ {x}) \ {y}
      OBVIOUS
    <3>4. /\ f[x] \in Nat /\ f[y] \in Nat
          /\ sum[(R \ {x}) \ {y}] \in Nat
      BY <2>1 DEF Sums
    <3>5. sum[R] = f[y] + (f[x] + sum[(R \ {x}) \ {y}])
      BY <2>2, <3>1, <3>3
    <3>6. QED
      BY <3>2, <3>4, <3>5
  <2>5. QED
    BY <2>3, <2>4
<1> HIDE DEF T
<1>2. \A R \in SUBSET S : R \in T
  BY <1>1, InductionOnSubsets
<1>3. QED
  BY <1>2 DEF T

\* A sum of zeros is zero.
LEMMA SumOfZeros ==
  ASSUME NEW S, IsFiniteSet(S)
  PROVE  SumOf([s \in S |-> 0], S) = 0
<1> DEFINE f == [s \in S |-> 0]
<1>1. f \in [S -> Nat]
  OBVIOUS
<1> HIDE DEF f
<1>2. PICK sum : Sums(S, f, sum) /\ SumOf(f, S) = sum[S]
  BY <1>1, SumIsDefined
<1> DEFINE T == {R \in SUBSET S : sum[R] = 0}
<1>3. ASSUME NEW R \in SUBSET S, \A x \in R : R \ {x} \in T
      PROVE  R \in T
  <2>1. CASE R = {}
    <3>1. sum[R] = 0
      BY <1>2, <2>1 DEF Sums
    <3>2. QED
      BY <3>1
  <2>2. CASE R # {}
    <3>1. PICK x \in R : TRUE
      BY <2>2
    <3>2. sum[R] = f[x] + sum[R \ {x}]
      BY <1>1, <1>2, <3>1, SumTakesOut
    <3>3. f[x] = 0 /\ sum[R \ {x}] = 0
      BY <1>3, <3>1 DEF f
    <3>4. sum[R] = 0
      BY <3>2, <3>3
    <3>5. QED
      BY <3>4
  <2>3. QED
    BY <2>1, <2>2
<1> HIDE DEF T
<1>4. S \in T
  BY <1>3, InductionOnSubsets
<1>5. QED
  BY <1>2, <1>4 DEF T, f

\* One more at one place makes a sum one more.
LEMMA SumOfIncrement ==
  ASSUME NEW S, IsFiniteSet(S), NEW f \in [S -> Nat], NEW x \in S
  PROVE  SumOf([f EXCEPT ![x] = @ + 1], S) = SumOf(f, S) + 1
<1> DEFINE g == [f EXCEPT ![x] = @ + 1]
<1>1. g \in [S -> Nat] /\ g[x] = f[x] + 1
      /\ \A y \in S \ {x} : g[y] = f[y]
  OBVIOUS
<1> HIDE DEF g
<1>2. PICK F : Sums(S, f, F) /\ SumOf(f, S) = F[S]
  BY SumIsDefined
<1>3. PICK G : Sums(S, g, G) /\ SumOf(g, S) = G[S]
  BY <1>1, SumIsDefined
<1>a. ASSUME NEW R \in SUBSET S, NEW y \in R
      PROVE  F[R] = f[y] + F[R \ {y}]
  <2>1. Sums(S, f, F)
    BY <1>2
  <2>2. QED
    BY <2>1, SumTakesOut
<1>b. ASSUME NEW R \in SUBSET S, NEW y \in R
      PROVE  G[R] = g[y] + G[R \ {y}]
  <2>1. Sums(S, g, G) /\ g \in [S -> Nat]
    BY <1>1, <1>3
  <2>2. QED
    BY <2>1, SumTakesOut
<1> DEFINE T == {R \in SUBSET S : x \notin R => G[R] = F[R]}
<1>4. ASSUME NEW R \in SUBSET S, \A y \in R : R \ {y} \in T
      PROVE  R \in T
  <2> SUFFICES ASSUME x \notin R PROVE G[R] = F[R]
    OBVIOUS
  <2>1. CASE R = {}
    <3>1. G[R] = 0 /\ F[R] = 0
      BY <1>2, <1>3, <2>1 DEF Sums
    <3>2. QED
      BY <3>1
  <2>2. CASE R # {}
    <3>1. PICK y \in R : TRUE
      BY <2>2
    <3>2. F[R] = f[y] + F[R \ {y}]
      BY <1>a
    <3>3. G[R] = g[y] + G[R \ {y}]
      BY <1>b
    <3>4. G[R \ {y}] = F[R \ {y}] /\ g[y] = f[y]
      BY <1>1, <1>4
    <3>5. QED
      BY <3>2, <3>3, <3>4
  <2>3. QED
    BY <2>1, <2>2
<1> HIDE DEF T
<1>5. \A R \in SUBSET S : R \in T
  BY <1>4, InductionOnSubsets
<1>6. G[S \ {x}] = F[S \ {x}]
  BY <1>5 DEF T
<1>7. F[S] = f[x] + F[S \ {x}]
  BY <1>a
<1>8. G[S] = g[x] + G[S \ {x}]
  BY <1>b
<1>9. F[S \ {x}] \in Nat /\ f[x] \in Nat
  BY <1>2 DEF Sums
<1>10. G[S] = F[S] + 1
  BY <1>1, <1>6, <1>7, <1>8, <1>9
<1>11. QED
  BY <1>2, <1>3, <1>10 DEF g
=============================================================================
