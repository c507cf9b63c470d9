---------------------------- MODULE StartupProofs ----------------------------
(***************************************************************************)
(* Proofs about Startup, for any contents of the configuration sources:    *)
(* what the registry guarantees to the monitor and to whoever scrapes.     *)
(***************************************************************************)
EXTENDS Startup, Induction, SequenceTheorems

(* Sequences.                                                              *)

\* Moving the head of t to the end of s leaves the two, joined, as they were.
LEMMA MoveHead ==
  ASSUME NEW X, NEW s \in Seq(X), NEW t \in Seq(X), t # <<>>
  PROVE  Append(s, Head(t)) \o Tail(t) = s \o t
<1>1. /\ Head(t) \in X /\ Tail(t) \in Seq(X) /\ Len(Tail(t)) = Len(t) - 1
      /\ \A i \in 1 .. Len(Tail(t)) : Tail(t)[i] = t[i + 1]
  BY HeadTailProperties
<1>2. Append(s, Head(t)) = s \o <<Head(t)>>
  BY <1>1, AppendIsConcat
<1>3. <<Head(t)>> \in Seq(X)
  BY <1>1
<1>4. (s \o <<Head(t)>>) \o Tail(t) = s \o (<<Head(t)>> \o Tail(t))
  BY <1>1, <1>3, ConcatAssociative
<1>5. <<Head(t)>> \o Tail(t) = t
  <2>1. /\ Len(t) \in Nat /\ Len(t) >= 1
        /\ 1 \in 1 .. Len(t) /\ Len(t) \in 1 .. Len(t)
    OBVIOUS
  <2>2. SubSeq(t, 1, Len(t)) = <<t[1]>> \o SubSeq(t, 1 + 1, Len(t))
    BY <2>1, SubSeqRecursiveFirst
  <2>3. SubSeq(t, 1, Len(t)) = t
    BY SubSeqFull
  <2>4. Tail(t) = SubSeq(t, 2, Len(t)) /\ Head(t) = t[1]
    BY TailIsSubSeq
  <2>5. QED
    BY <2>2, <2>3, <2>4
<1>6. QED
  BY <1>2, <1>4, <1>5

-----------------------------------------------------------------------------
(* What Keep returns.                                                      *)

\* One step of the loop of Keep.
KeepStep(s, S, X) ==
  [n \in Nat |-> [q \in Seq(X) |->
     IF n \in 1 .. Len(s) /\ s[n] \in S THEN Append(q, s[n]) ELSE q]]

\* Keep is the last value of its loop.
LEMMA KeepDefined ==
  ASSUME NEW X, NEW s \in Seq(X), NEW S
  PROVE  \E f \in [0 .. Len(s) -> Seq(X)] :
           /\ Recursive(f, 0 .. Len(s), <<>>, KeepStep(s, S, X))
           /\ Keep(s, S) = f[Len(s)]
<1> DEFINE step == KeepStep(s, S, X)
           Eq(f) == f = [i \in 0 .. Len(s) |->
                           IF i = 0 THEN <<>>
                           ELSE IF s[i] \in S THEN Append(f[i - 1], s[i])
                           ELSE f[i - 1]]
<1>1. step \in [Nat -> [Seq(X) -> Seq(X)]]
  <2>1. ASSUME NEW n \in Nat, NEW q \in Seq(X)
        PROVE  (IF n \in 1 .. Len(s) /\ s[n] \in S THEN Append(q, s[n]) ELSE q)
                 \in Seq(X)
    OBVIOUS
  <2>2. QED
    BY <2>1 DEF KeepStep
<1>2. PICK f \in [0 .. Len(s) -> Seq(X)] :
        Recursive(f, 0 .. Len(s), <<>>, step)
  <2>1. <<>> \in Seq(X) /\ Len(s) \in Nat
    OBVIOUS
  <2> HIDE DEF step
  <2>2. QED
    BY <1>1, <2>1, RecursionUpTo
<1>3. ASSUME NEW g, Eq(g) PROVE g = f
  <2> DEFINE Same == {i \in Nat : i <= Len(s) => g[i] = f[i]}
  <2>1. \A i \in 0 .. Len(s) :
          f[i] = IF i = 0 THEN <<>> ELSE step[i][f[i - 1]]
    <3> HIDE DEF step
    <3>1. QED
      BY <1>2 DEF Recursive
  <2>a. \A i \in 0 .. Len(s) :
          g[i] = IF i = 0 THEN <<>>
                 ELSE IF s[i] \in S THEN Append(g[i - 1], s[i])
                 ELSE g[i - 1]
    BY <1>3
  <2>2. 0 \in Same
    BY <2>1, <2>a
  <2>3. ASSUME NEW i \in Nat, i \in Same PROVE i + 1 \in Same
    <3> SUFFICES ASSUME i + 1 <= Len(s) PROVE g[i + 1] = f[i + 1]
      OBVIOUS
    <3>1. g[i] = f[i] /\ f[i] \in Seq(X)
      BY <2>3
    <3>2. f[i + 1] = step[i + 1][f[i]]
      BY <2>1
    <3>3. step[i + 1][f[i]]
            = IF s[i + 1] \in S THEN Append(f[i], s[i + 1]) ELSE f[i]
      BY <3>1 DEF KeepStep
    <3>4. g[i + 1] = IF s[i + 1] \in S THEN Append(g[i], s[i + 1]) ELSE g[i]
      <4>1. i + 1 \in 0 .. Len(s) /\ i + 1 # 0 /\ (i + 1) - 1 = i
        OBVIOUS
      <4>2. QED
        BY <2>a, <4>1
    <3>5. QED
      BY <3>1, <3>2, <3>3, <3>4
  <2> HIDE DEF Same
  <2>4. \A i \in Nat : i \in Same
    BY <2>2, <2>3, InductionOnNat
  <2>5. \A i \in 0 .. Len(s) : g[i] = f[i]
    BY <2>4 DEF Same
  <2>6. DOMAIN g = 0 .. Len(s) /\ g = [i \in 0 .. Len(s) |-> g[i]]
    BY <1>3
  <2>7. QED
    BY <2>5, <2>6
<1>4. Eq(f)
  <2>1. ASSUME NEW i \in 0 .. Len(s)
        PROVE  f[i] = IF i = 0 THEN <<>>
                      ELSE IF s[i] \in S THEN Append(f[i - 1], s[i])
                      ELSE f[i - 1]
    <3>1. f[i] = IF i = 0 THEN <<>> ELSE step[i][f[i - 1]]
      <4> HIDE DEF step
      <4>1. QED
        BY <1>2 DEF Recursive
    <3>2. i # 0 => f[i - 1] \in Seq(X)
      OBVIOUS
    <3>3. QED
      BY <3>1, <3>2 DEF KeepStep
  <2>2. f = [i \in 0 .. Len(s) |-> f[i]]
    OBVIOUS
  <2>3. QED
    BY <2>1, <2>2
<1>5. Keep(s, S) = (CHOOSE g : Eq(g))[Len(s)]
  BY DEF Keep
<1> HIDE DEF Eq, step
<1>6. (CHOOSE g : Eq(g)) = f
  BY <1>3, <1>4
<1>7. QED
  BY <1>2, <1>5, <1>6 DEF step

\* Keep goes through a sequence element by element, from the empty sequence on.
LEMMA KeepEmpty ==
  ASSUME NEW S
  PROVE  Keep(<<>>, S) = <<>>
<1>1. <<>> \in Seq({}) /\ Len(<<>>) = 0
  OBVIOUS
<1>2. PICK f \in [0 .. Len(<<>>) -> Seq({})] :
        /\ Recursive(f, 0 .. Len(<<>>), <<>>, KeepStep(<<>>, S, {}))
        /\ Keep(<<>>, S) = f[Len(<<>>)]
  BY <1>1, KeepDefined
<1>3. f[0] = <<>>
  BY <1>1, <1>2 DEF Recursive
<1>4. QED
  BY <1>1, <1>2, <1>3

\* What is kept of a sequence is a sequence.
LEMMA KeepIsSeq ==
  ASSUME NEW X, NEW s \in Seq(X), NEW S
  PROVE  Keep(s, S) \in Seq(X)
<1>1. PICK f \in [0 .. Len(s) -> Seq(X)] : Keep(s, S) = f[Len(s)]
  BY KeepDefined
<1>2. Len(s) \in 0 .. Len(s)
  OBVIOUS
<1>3. QED
  BY <1>1, <1>2

\* The last element comes last, if it is kept.
LEMMA KeepLast ==
  ASSUME NEW X, NEW s \in Seq(X), NEW e \in X, NEW S
  PROVE  Keep(Append(s, e), S) = IF e \in S THEN Append(Keep(s, S), e)
                                 ELSE Keep(s, S)
<1> DEFINE t == Append(s, e)
           n == Len(s)
<1>1. /\ t \in Seq(X) /\ Len(t) = n + 1 /\ n \in Nat
      /\ t[n + 1] = e /\ \A i \in 1 .. n : t[i] = s[i]
  OBVIOUS
<1> HIDE DEF t
<1>2. PICK f \in [0 .. n -> Seq(X)] :
        Recursive(f, 0 .. n, <<>>, KeepStep(s, S, X)) /\ Keep(s, S) = f[n]
  BY KeepDefined
<1>3. PICK g \in [0 .. n + 1 -> Seq(X)] :
        /\ Recursive(g, 0 .. n + 1, <<>>, KeepStep(t, S, X))
        /\ Keep(t, S) = g[n + 1]
  <2>1. \E g \in [0 .. Len(t) -> Seq(X)] :
          /\ Recursive(g, 0 .. Len(t), <<>>, KeepStep(t, S, X))
          /\ Keep(t, S) = g[Len(t)]
    BY <1>1, KeepDefined
  <2>2. Len(t) = n + 1
    BY <1>1
  <2>3. QED
    BY <2>1, <2>2
<1>4. \A i \in 1 .. n : \A q \in Seq(X) :
        KeepStep(t, S, X)[i][q] = KeepStep(s, S, X)[i][q]
  BY <1>1 DEF KeepStep
<1>5. Recursive(f, 0 .. n, <<>>, KeepStep(t, S, X))
  <2>1. ASSUME NEW i \in 0 .. n
        PROVE  f[i] = IF i = 0 THEN <<>> ELSE KeepStep(t, S, X)[i][f[i - 1]]
    <3>1. f[i] = IF i = 0 THEN <<>> ELSE KeepStep(s, S, X)[i][f[i - 1]]
      BY <1>2 DEF Recursive
    <3>2. i # 0 => i \in 1 .. n /\ f[i - 1] \in Seq(X)
      BY <1>1
    <3>3. QED
      BY <1>4, <3>1, <3>2
  <2>2. f = [i \in 0 .. n |-> f[i]]
    OBVIOUS
  <2>3. QED
    BY <2>1, <2>2 DEF Recursive
<1>6. f[n] = g[n]
  BY <1>1, <1>2, <1>3, <1>5, RecursionUnique
<1>7. g[n + 1] = KeepStep(t, S, X)[n + 1][g[n]]
  BY <1>1, <1>3 DEF Recursive
<1>8. g[n] \in Seq(X)
  BY <1>1
<1>9. KeepStep(t, S, X)[n + 1][g[n]]
        = IF e \in S THEN Append(g[n], e) ELSE g[n]
  BY <1>1, <1>8 DEF KeepStep
<1>10. QED
  BY <1>2, <1>3, <1>6, <1>7, <1>9 DEF t

\* What is kept are elements of the sequence that are in the set.
LEMMA KeepType ==
  ASSUME NEW X, NEW s \in Seq(X), NEW S
  PROVE  Keep(s, S) \in Seq(X \cap S)
<1> DEFINE T == {q \in Seq(X) : Keep(q, S) \in Seq(X \cap S)}
<1> HIDE DEF T
<1>1. <<>> \in T
  <2>1. <<>> \in Seq(X) /\ <<>> \in Seq(X \cap S) /\ Keep(<<>>, S) = <<>>
    BY KeepEmpty
  <2>2. QED
    BY <2>1 DEF T
<1>2. ASSUME NEW q \in Seq(X), NEW e \in X, q \in T
      PROVE  Append(q, e) \in T
  <2>1. Keep(Append(q, e), S) = IF e \in S THEN Append(Keep(q, S), e)
                                ELSE Keep(q, S)
    BY KeepLast
  <2>2. Keep(q, S) \in Seq(X \cap S)
    BY <1>2 DEF T
  <2>3. e \in S => Append(Keep(q, S), e) \in Seq(X \cap S)
    BY <2>2
  <2>4. Keep(Append(q, e), S) \in Seq(X \cap S)
    BY <2>1, <2>2, <2>3
  <2>5. Append(q, e) \in Seq(X)
    OBVIOUS
  <2>6. QED
    BY <2>4, <2>5 DEF T
<1>3. \A q \in Seq(X) : q \in T
  BY <1>1, <1>2, InductionOnSeqs
<1>4. QED
  BY <1>3 DEF T

\* Only the elements of the sequence matter.
LEMMA KeepSame ==
  ASSUME NEW X, NEW s \in Seq(X), NEW S, NEW R, X \cap S = X \cap R
  PROVE  Keep(s, S) = Keep(s, R)
<1> DEFINE T == {q \in Seq(X) : Keep(q, S) = Keep(q, R)}
<1> HIDE DEF T
<1>1. <<>> \in T
  BY KeepEmpty DEF T
<1>2. ASSUME NEW q \in Seq(X), NEW e \in X, q \in T
      PROVE  Append(q, e) \in T
  <2>1. Keep(Append(q, e), S) = IF e \in S THEN Append(Keep(q, S), e)
                                ELSE Keep(q, S)
    BY KeepLast
  <2>2. Keep(Append(q, e), R) = IF e \in R THEN Append(Keep(q, R), e)
                                ELSE Keep(q, R)
    BY KeepLast
  <2>3. QED
    BY <1>2, <2>1, <2>2 DEF T
<1>3. \A q \in Seq(X) : q \in T
  BY <1>1, <1>2, InductionOnSeqs
<1>4. QED
  BY <1>3 DEF T

\* A set that holds all elements keeps all of them.
LEMMA KeepAll ==
  ASSUME NEW X, NEW s \in Seq(X), NEW S, X \subseteq S
  PROVE  Keep(s, S) = s
<1> DEFINE T == {q \in Seq(X) : Keep(q, S) = q}
<1> HIDE DEF T
<1>1. <<>> \in T
  BY KeepEmpty DEF T
<1>2. ASSUME NEW q \in Seq(X), NEW e \in X, q \in T
      PROVE  Append(q, e) \in T
  <2>1. Keep(Append(q, e), S) = Append(Keep(q, S), e)
    BY KeepLast
  <2>2. QED
    BY <1>2, <2>1 DEF T
<1>3. \A q \in Seq(X) : q \in T
  BY <1>1, <1>2, InductionOnSeqs
<1>4. QED
  BY <1>3 DEF T

\* Keeping twice is keeping what is in both sets.
LEMMA KeepTwice ==
  ASSUME NEW X, NEW s \in Seq(X), NEW S, NEW R
  PROVE  Keep(Keep(s, S), R) = Keep(s, S \cap R)
<1> DEFINE T == {q \in Seq(X) : Keep(Keep(q, S), R) = Keep(q, S \cap R)}
<1> HIDE DEF T
<1>1. <<>> \in T
  BY KeepEmpty DEF T
<1>2. ASSUME NEW q \in Seq(X), NEW e \in X, q \in T
      PROVE  Append(q, e) \in T
  <2>1. Keep(q, S) \in Seq(X)
    BY KeepIsSeq
  <2>2. Keep(Append(q, e), S \cap R)
          = IF e \in S \cap R THEN Append(Keep(q, S \cap R), e)
            ELSE Keep(q, S \cap R)
    BY KeepLast
  <2>3. CASE e \notin S
    <3>1. Keep(Append(q, e), S) = Keep(q, S)
      BY <2>3, KeepLast
    <3>2. QED
      BY <1>2, <2>2, <2>3, <3>1 DEF T
  <2>4. CASE e \in S
    <3>1. Keep(Append(q, e), S) = Append(Keep(q, S), e)
      BY <2>4, KeepLast
    <3>2. Keep(Append(Keep(q, S), e), R)
            = IF e \in R THEN Append(Keep(Keep(q, S), R), e)
              ELSE Keep(Keep(q, S), R)
      BY <2>1, KeepLast
    <3>3. Keep(Keep(q, S), R) = Keep(q, S \cap R)
      BY <1>2 DEF T
    <3>4. Keep(Keep(Append(q, e), S), R) = Keep(Append(q, e), S \cap R)
      BY <2>2, <2>4, <3>1, <3>2, <3>3
    <3>5. QED
      BY <3>4 DEF T
  <2>5. QED
    BY <2>3, <2>4
<1>3. \A q \in Seq(X) : q \in T
  BY <1>1, <1>2, InductionOnSeqs
<1>4. QED
  BY <1>3 DEF T

\* Keep goes through one sequence after the other.
LEMMA KeepConcat ==
  ASSUME NEW X, NEW s \in Seq(X), NEW t \in Seq(X), NEW S
  PROVE  Keep(s \o t, S) = Keep(s, S) \o Keep(t, S)
<1> DEFINE T == {q \in Seq(X) : Keep(s \o q, S) = Keep(s, S) \o Keep(q, S)}
<1> HIDE DEF T
<1>0. Keep(s, S) \in Seq(X)
  BY KeepIsSeq
<1>1. <<>> \in T
  <2>1. Keep(<<>>, S) = <<>>
    BY KeepEmpty
  <2>2. s \o <<>> = s /\ Keep(s, S) \o <<>> = Keep(s, S)
    BY <1>0
  <2>3. Keep(s \o <<>>, S) = Keep(s, S) \o Keep(<<>>, S)
    BY <2>1, <2>2
  <2>4. <<>> \in Seq(X)
    OBVIOUS
  <2>5. QED
    BY <2>3, <2>4 DEF T
<1>2. ASSUME NEW q \in Seq(X), NEW e \in X, q \in T
      PROVE  Append(q, e) \in T
  <2>1. /\ s \o q \in Seq(X)
        /\ s \o Append(q, e) = Append(s \o q, e)
    OBVIOUS
  <2>2. Keep(Append(s \o q, e), S) = IF e \in S THEN Append(Keep(s \o q, S), e)
                                     ELSE Keep(s \o q, S)
    BY <2>1, KeepLast
  <2>3. Keep(Append(q, e), S) = IF e \in S THEN Append(Keep(q, S), e)
                                ELSE Keep(q, S)
    BY KeepLast
  <2>4. Keep(q, S) \in Seq(X)
    BY KeepIsSeq
  <2>5. Keep(s, S) \o Append(Keep(q, S), e)
          = Append(Keep(s, S) \o Keep(q, S), e)
    BY <1>0, <2>4
  <2>6. Keep(s \o q, S) = Keep(s, S) \o Keep(q, S)
    BY <1>2 DEF T
  <2>7. Keep(s \o Append(q, e), S) = Keep(s, S) \o Keep(Append(q, e), S)
    BY <2>1, <2>2, <2>3, <2>5, <2>6
  <2>8. Append(q, e) \in Seq(X)
    OBVIOUS
  <2>9. QED
    BY <2>7, <2>8 DEF T
<1>3. \A q \in Seq(X) : q \in T
  BY <1>1, <1>2, InductionOnSeqs
<1>4. QED
  BY <1>3 DEF T

\* No two elements of s have the same metric.
Distinct(s) == \A i, j \in DOMAIN s : s[i].metric = s[j].metric => i = j

\* What is kept comes from the sequence and stays distinct.
LEMMA KeepDistinct ==
  ASSUME NEW X, NEW s \in Seq(X), NEW S, Distinct(s)
  PROVE  Distinct(Keep(s, S)) /\ Elements(Keep(s, S)) \subseteq Elements(s)
<1> DEFINE Claim(q) == /\ Distinct(q) => Distinct(Keep(q, S))
                       /\ Elements(Keep(q, S)) \subseteq Elements(q)
           T == {q \in Seq(X) : Claim(q)}
<1>1. <<>> \in T
  <2>1. Keep(<<>>, S) = <<>> /\ <<>> \in Seq(X)
    BY KeepEmpty
  <2>2. QED
    BY <2>1
<1>2. ASSUME NEW q \in Seq(X), NEW e \in X, q \in T
      PROVE  Append(q, e) \in T
  <2> DEFINE t == Append(q, e)
             k == Keep(q, S)
             n == Len(k)
             u == Append(k, e)
  <2>1. /\ t \in Seq(X) /\ DOMAIN t = DOMAIN q \cup {Len(q) + 1}
        /\ Len(q) + 1 \notin DOMAIN q
        /\ t[Len(q) + 1] = e /\ \A i \in DOMAIN q : t[i] = q[i]
    OBVIOUS
  <2>2. k \in Seq(X) /\ Keep(t, S) = IF e \in S THEN u ELSE k
    BY KeepIsSeq, KeepLast
  <2>3. Claim(q)
    BY <1>2
  <2> HIDE DEF t, k
  <2>4. /\ u \in Seq(X) /\ DOMAIN u = DOMAIN k \cup {n + 1}
        /\ n + 1 \notin DOMAIN k
        /\ u[n + 1] = e /\ \A i \in DOMAIN k : u[i] = k[i]
    BY <2>2
  <2> HIDE DEF u, n
  <2>5. Elements(q) \subseteq Elements(t) /\ e \in Elements(t)
    BY <2>1 DEF Elements
  <2>6. Elements(k) \subseteq Elements(q)
    BY <2>3 DEF k
  <2>7. Elements(u) \subseteq Elements(t)
    BY <2>4, <2>5, <2>6 DEF Elements
  <2>8. ASSUME Distinct(t) PROVE Distinct(k) /\ Distinct(u)
    <3>1. Distinct(q)
      BY <2>1, <2>8 DEF Distinct
    <3>2. Distinct(k)
      BY <2>3, <3>1 DEF k
    <3>3. \A i \in DOMAIN q : q[i].metric # e.metric
      BY <2>1, <2>8 DEF Distinct
    <3>4. \A i \in DOMAIN k : k[i].metric # e.metric
      BY <2>6, <3>3 DEF Elements
    <3>5. Distinct(u)
      BY <2>4, <3>2, <3>4 DEF Distinct
    <3>6. QED
      BY <3>2, <3>5
  <2>9. Claim(t)
    BY <2>2, <2>5, <2>6, <2>7, <2>8
  <2>10. QED
    BY <2>1, <2>9 DEF t
<1> HIDE DEF T
<1>3. \A q \in Seq(X) : q \in T
  BY <1>1, <1>2, InductionOnSeqs
<1>4. QED
  BY <1>3 DEF T

\* The sequence of the values of f at the elements of s.
Mapped(f, s) == [k \in DOMAIN s |-> f[s[k]]]

\* One more argument gives one more value.
LEMMA MappedAppend ==
  ASSUME NEW X, NEW q \in Seq(X), NEW e \in X, NEW f
  PROVE  Mapped(f, Append(q, e)) = Append(Mapped(f, q), f[e])
<1> DEFINE Y == {f[x] : x \in X}
           g == Mapped(f, q)
           h == Mapped(f, Append(q, e))
<1>1. /\ Append(q, e) \in Seq(X) /\ Len(Append(q, e)) = Len(q) + 1
      /\ Append(q, e)[Len(q) + 1] = e
      /\ \A i \in 1 .. Len(q) : Append(q, e)[i] = q[i]
  OBVIOUS
<1>2. g \in Seq(Y) /\ Len(g) = Len(q)
  BY DEF Mapped
<1>3. h \in Seq(Y) /\ Len(h) = Len(q) + 1
  <2> HIDE DEF Y
  <2>1. \A i \in 1 .. Len(q) + 1 : h[i] \in Y
    <3>1. \A i \in 1 .. Len(q) + 1 : Append(q, e)[i] \in X
      BY <1>1
    <3>2. QED
      BY <1>1, <3>1 DEF Mapped, Y
  <2>2. h = [i \in 1 .. Len(q) + 1 |-> h[i]]
    BY <1>1 DEF Mapped
  <2> HIDE DEF h
  <2>3. Len(q) + 1 \in Nat
    OBVIOUS
  <2>4. QED
    BY <2>1, <2>2, <2>3
<1>4. ASSUME NEW i \in 1 .. Len(q) + 1
      PROVE  h[i] = Append(g, f[e])[i]
  BY <1>1, <1>2 DEF Mapped
<1>5. f[e] \in Y
  OBVIOUS
<1> HIDE DEF Y, g, h
<1>6. Append(g, f[e]) \in Seq(Y) /\ Len(Append(g, f[e])) = Len(q) + 1
  BY <1>2, <1>5
<1>7. h = Append(g, f[e])
  BY <1>3, <1>4, <1>6, SeqEqual
<1>8. QED
  BY <1>7 DEF g, h

\* The values that are kept are those of the arguments that are kept.
LEMMA KeepMapped ==
  ASSUME NEW X, NEW s \in Seq(X), NEW f, NEW S
  PROVE  Keep(Mapped(f, s), S) = Mapped(f, Keep(s, {x \in X : f[x] \in S}))
<1> DEFINE R == {x \in X : f[x] \in S}
           T == {q \in Seq(X) : Keep(Mapped(f, q), S) = Mapped(f, Keep(q, R))}
<1> HIDE DEF T, R
<1>1. <<>> \in T
  <2>1. Mapped(f, <<>>) = <<>>
    BY DEF Mapped
  <2>2. Keep(<<>>, S) = <<>> /\ Keep(<<>>, R) = <<>>
    BY KeepEmpty
  <2>3. QED
    BY <2>1, <2>2 DEF T
<1>2. ASSUME NEW q \in Seq(X), NEW e \in X, q \in T
      PROVE  Append(q, e) \in T
  <2> DEFINE Y == {f[x] : x \in X}
  <2>1. Mapped(f, q) \in Seq(Y) /\ f[e] \in Y
    BY DEF Mapped
  <2> HIDE DEF Y
  <2>2. Keep(Append(Mapped(f, q), f[e]), S)
          = IF f[e] \in S THEN Append(Keep(Mapped(f, q), S), f[e])
            ELSE Keep(Mapped(f, q), S)
    BY <2>1, KeepLast
  <2>3. Keep(Append(q, e), R) = IF e \in R THEN Append(Keep(q, R), e)
                                ELSE Keep(q, R)
    BY KeepLast
  <2>4. Keep(q, R) \in Seq(X)
    BY KeepIsSeq
  <2>5. Mapped(f, Append(Keep(q, R), e)) = Append(Mapped(f, Keep(q, R)), f[e])
    BY <2>4, MappedAppend
  <2>6. e \in R <=> f[e] \in S
    BY DEF R
  <2>7. Mapped(f, Append(q, e)) = Append(Mapped(f, q), f[e])
    BY MappedAppend
  <2>8. Keep(Mapped(f, q), S) = Mapped(f, Keep(q, R))
    BY <1>2 DEF T
  <2>9. Keep(Mapped(f, Append(q, e)), S) = Mapped(f, Keep(Append(q, e), R))
    BY <2>2, <2>3, <2>5, <2>6, <2>7, <2>8
  <2>10. QED
    BY <2>9 DEF T
<1>3. \A q \in Seq(X) : q \in T
  BY <1>1, <1>2, InductionOnSeqs
<1>4. QED
  BY <1>3 DEF T, R

-----------------------------------------------------------------------------
(* Registration.                                                           *)

\* The records form a sequence, a record's metric is in the Prometheus
\* registry and no two records share one.  Registration keeps this because a
\* name that is in the registry is refused.
RegistryInv ==
  /\ \E X : records \in Seq(X)
  /\ \A i \in DOMAIN records : records[i].metric \in registered
  /\ OneRecordPerMetric
  /\ GaugesHaveHandlers
  /\ pc \in {"load", "flags"} => registered = Builtin /\ records = <<>>

\* A record is added at the end; the others stay where they are.
LEMMA AppendRecord ==
  ASSUME NEW X, records \in Seq(X), NEW m, records' = Append(records, m)
  PROVE  /\ records' \in Seq(X \cup {m})
         /\ DOMAIN records' = DOMAIN records \cup {Len(records) + 1}
         /\ Len(records) + 1 \notin DOMAIN records
         /\ \A i \in DOMAIN records : records'[i] = records[i]
         /\ records'[Len(records) + 1] = m
<1>1. records \in Seq(X \cup {m})
  OBVIOUS
<1>2. QED
  BY <1>1

\* At the start the registry holds the built-in metrics only.
LEMMA InitRegistry == Init => RegistryInv
<1> SUFFICES ASSUME Init PROVE RegistryInv
  OBVIOUS
<1>1. records = <<>> /\ registered = Builtin
  BY DEF Init
<1>2. records \in Seq({})
  BY <1>1
<1>3. DOMAIN records = {}
  BY <1>1
<1>4. QED
  BY <1>1, <1>2, <1>3 DEF RegistryInv, OneRecordPerMetric, GaugesHaveHandlers

\* Every step keeps one record for every metric, and a gauge for each.
LEMMA NextRegistry ==
  ASSUME RegistryInv, [Next]_vars
  PROVE  RegistryInv'
<1> USE DEF inputs
<1>1. CASE Register
  <2> DEFINE m == Head(todo)
             k == Len(records) + 1
  <2>1. PICK X : records \in Seq(X)
    BY DEF RegistryInv
  <2>2. /\ records' = Append(records, m) /\ m.metric \notin registered
        /\ registered' = registered \cup {m.metric} /\ pc' = pc
        /\ pc = "register"
    BY <1>1 DEF Register
  <2>3. /\ records' \in Seq(X \cup {m})
        /\ DOMAIN records' = DOMAIN records \cup {k}
        /\ \A i \in DOMAIN records : records'[i] = records[i]
        /\ records'[k] = m
    BY <2>1, <2>2, AppendRecord
  <2>4. \A i \in DOMAIN records : records[i].metric # m.metric
    BY <2>2 DEF RegistryInv
  <2>5. OneRecordPerMetric'
    BY <2>3, <2>4 DEF RegistryInv, OneRecordPerMetric
  <2>6. GaugesHaveHandlers'
    <3>1. {records'[i].metric : i \in DOMAIN records'}
            = {records[i].metric : i \in DOMAIN records} \cup {m.metric}
      BY <2>3
    <3>2. registered = Builtin \cup {records[i].metric : i \in DOMAIN records}
      BY <2>2 DEF RegistryInv, GaugesHaveHandlers
    <3>3. QED
      BY <2>2, <3>1, <3>2 DEF GaugesHaveHandlers
  <2>7. \A i \in DOMAIN records' : records'[i].metric \in registered'
    BY <2>2, <2>3 DEF RegistryInv
  <2>8. \E Y : records' \in Seq(Y)
    BY <2>3
  <2>9. pc' \notin {"load", "flags"}
    BY <2>2
  <2>10. QED
    BY <2>5, <2>6, <2>7, <2>8, <2>9 DEF RegistryInv
<1>2. CASE RegisterBadBit
  <2>1. /\ records' = records /\ pc' = "badBit"
        /\ registered \subseteq registered'
    BY <1>2 DEF RegisterBadBit
  <2>2. QED
    BY <2>1 DEF RegistryInv, OneRecordPerMetric, GaugesHaveHandlers
<1>3. CASE \/ Load \/ LoadFails \/ ApplyFlag \/ NoMappings \/ AddTimeNode
           \/ RegisterRefused \/ AllRegistered \/ UNCHANGED vars
  <2>1. /\ UNCHANGED <<records, registered>>
        /\ pc' = "badBit" => pc = "badBit"
        /\ pc = "badBit" => pc' = "badBit"
        /\ pc' \in {"load", "flags"} => pc \in {"load", "flags"}
    BY <1>3 DEF Load, LoadFails, ApplyFlag, NoMappings, AddTimeNode,
                RegisterRefused, AllRegistered, vars
  <2>2. QED
    BY <2>1 DEF RegistryInv, OneRecordPerMetric, GaugesHaveHandlers
<1>4. QED
  BY <1>1, <1>2, <1>3 DEF Next, Finished

\* Whatever the configuration, a metric gets at most one handler record: the
\* assumption OneRecordPerMetric of module Monitor holds for the handler map
\* that main passes to the monitor.
THEOREM OneRecordCorrect == Spec => []OneRecordPerMetric
<1>1. Init => RegistryInv
  BY InitRegistry
<1>2. RegistryInv /\ [Next]_vars => RegistryInv'
  BY NextRegistry
<1>3. RegistryInv => OneRecordPerMetric
  BY DEF RegistryInv
<1>4. QED
  BY <1>1, <1>2, <1>3, PTL DEF Spec

\* A gauge without a handler exists only after the failure that ends the start.
THEOREM GaugesHaveHandlersCorrect == Spec => []GaugesHaveHandlers
<1>1. Init => RegistryInv
  BY InitRegistry
<1>2. RegistryInv /\ [Next]_vars => RegistryInv'
  BY NextRegistry
<1>3. RegistryInv => GaugesHaveHandlers
  BY DEF RegistryInv
<1>4. QED
  BY <1>1, <1>2, <1>3, PTL DEF Spec

\* What module Monitor assumes of its constant HandlerMap, in the assumption
\* OneRecordPerMetric, said of the handler map of this module: a metric is
\* found under one node and at one place.
FitsMonitor ==
  \A n1, n2 :
    \A i \in DOMAIN HandlerMap(n1), j \in DOMAIN HandlerMap(n2) :
      HandlerMap(n1)[i].metric = HandlerMap(n2)[j].metric => n1 = n2 /\ i = j

\* The handler map that the registry hands over is one the monitor is proved
\* for, so that Startup and Monitor compose.
THEOREM HandlerMapFitsMonitor == Spec => []FitsMonitor
<1>1. RegistryInv => FitsMonitor
  <2> SUFFICES ASSUME RegistryInv, NEW n1, NEW n2,
                      NEW i \in DOMAIN HandlerMap(n1),
                      NEW j \in DOMAIN HandlerMap(n2),
                      HandlerMap(n1)[i].metric = HandlerMap(n2)[j].metric
               PROVE  n1 = n2 /\ i = j
    BY DEF FitsMonitor
  <2>1. PICK X : records \in Seq(X)
    BY DEF RegistryInv
  <2>2. Distinct(records)
    BY DEF RegistryInv, OneRecordPerMetric, Distinct
  <2>3. ASSUME NEW n
        PROVE  /\ Distinct(HandlerMap(n))
               /\ Elements(HandlerMap(n)) \subseteq Elements(records)
               /\ \A k \in DOMAIN HandlerMap(n) : HandlerMap(n)[k].node = n
    <3> DEFINE S == {r \in Elements(records) : r.node = n}
    <3>1. Keep(records, S) \in Seq(X \cap S)
      <4> HIDE DEF S
      <4>1. QED
        BY <2>1, KeepType
    <3>2. \A k \in DOMAIN Keep(records, S) : Keep(records, S)[k] \in S
      <4> HIDE DEF S
      <4>1. QED
        BY <3>1
    <3>3. /\ Distinct(Keep(records, S))
          /\ Elements(Keep(records, S)) \subseteq Elements(records)
      <4> HIDE DEF S
      <4>1. QED
        BY <2>1, <2>2, KeepDistinct
    <3>4. HandlerMap(n) = Keep(records, S)
      BY DEF HandlerMap
    <3>5. QED
      BY <3>2, <3>3, <3>4
  <2>4. PICK k \in DOMAIN records : records[k] = HandlerMap(n1)[i]
    BY <2>3 DEF Elements
  <2>5. PICK l \in DOMAIN records : records[l] = HandlerMap(n2)[j]
    BY <2>3 DEF Elements
  <2>6. k = l
    BY <2>2, <2>4, <2>5 DEF Distinct
  <2>7. n1 = n2
    <3>1. HandlerMap(n1)[i].node = n1 /\ HandlerMap(n2)[j].node = n2
      BY <2>3
    <3>2. HandlerMap(n1)[i] = HandlerMap(n2)[j]
      BY <2>4, <2>5, <2>6
    <3>3. QED
      BY <3>1, <3>2
  <2>8. i = j
    BY <2>3, <2>7 DEF Distinct
  <2>9. QED
    BY <2>7, <2>8
<1>2. QED
  BY <1>1, InitRegistry, NextRegistry, PTL DEF Spec

-----------------------------------------------------------------------------
(* What is registered, and that it was validated.                          *)

FlagMaps ==
  {m \in Mappings : m.bit \in {"none", "int", "negInt"} \/ m = Malformed}

\* The variables of the environment give mappings whose bit is an integer.
LEMMA EnvMappingsType ==
  ASSUME NEW e \in Seq(Mappings)
  PROVE  EnvMappings(e) \in
           Seq({m \in Mappings : m.bit \in {"none", "int", "negInt"}})
<1> DEFINE Missing(i) == i > Len(e) \/ e[i].node = "" \/ e[i].metric = ""
           Read(k) == Missing(k + 1) /\ \A i \in 1 .. k : ~Missing(i)
           I == {i \in 1 .. Len(e) + 1 : Missing(i)}
           count == CHOOSE k \in 0 .. Len(e) : Read(k)
<1>1. Len(e) \in Nat /\ Missing(Len(e) + 1)
  <2>1. Len(e) \in Nat
    OBVIOUS
  <2>2. Len(e) + 1 > Len(e)
    BY <2>1
  <2>3. QED
    BY <2>1, <2>2
<1>2. EnvMappings(e) = [j \in 1 .. count |-> EnvMapping(e[j])]
  BY DEF EnvMappings
<1> HIDE DEF Missing
<1>3. PICK i \in I : \A j \in I : i <= j
  <2>1. Len(e) + 1 \in 1 .. Len(e) + 1
    BY <1>1
  <2>2. Len(e) + 1 \in I
    BY <1>1, <2>1
  <2>3. I \in SUBSET Nat
    BY <1>1
  <2> HIDE DEF I
  <2>4. QED
    BY <2>2, <2>3, LeastElement
<1>4. \E k \in 0 .. Len(e) : Read(k)
  <2>1. i \in 1 .. Len(e) + 1 /\ Missing(i)
    BY <1>3
  <2>2. ASSUME NEW j \in 1 .. i - 1 PROVE ~Missing(j)
    <3>1. j \in 1 .. Len(e) + 1 /\ ~(i <= j)
      BY <1>1, <2>1
    <3>2. QED
      BY <1>3, <3>1
  <2>3. (i - 1) + 1 = i /\ i - 1 \in 0 .. Len(e)
    BY <1>1, <2>1
  <2>4. Read(i - 1)
    BY <2>1, <2>2, <2>3
  <2>5. QED
    BY <2>3, <2>4
<1>5. count \in 0 .. Len(e)
  <2> HIDE DEF Read
  <2>1. QED
    BY <1>4
<1> HIDE DEF count
<1>6. ASSUME NEW j \in 1 .. count
      PROVE  EnvMapping(e[j])
               \in {m \in Mappings : m.bit \in {"none", "int", "negInt"}}
  <2>1. j \in 1 .. Len(e)
    BY <1>1, <1>5
  <2>2. e[j] \in Mappings
    BY <2>1
  <2>3. QED
    BY <2>2 DEF EnvMapping, Mapping, Mappings, Bits
<1>7. count \in Nat
  BY <1>1, <1>5
<1>8. [j \in 1 .. count |-> EnvMapping(e[j])]
        \in Seq({m \in Mappings : m.bit \in {"none", "int", "negInt"}})
  BY <1>6, <1>7
<1>9. QED
  BY <1>2, <1>8

\* What main may register: what Load has validated, with a float64 bit only
\* from the YAML file, what a flag says, and the time node.
Accepted ==
  {m \in Mappings :
     \/ Valid(m) /\ (m.bit = "float" => m \in Elements(yaml))
     \/ m \in Elements(flags) /\ m.bit \in {"none", "int", "negInt"}}

InputsInv ==
  /\ yaml \in Seq(Mappings) /\ env \in Seq(Mappings)
  /\ flags \in Seq(FlagMaps)

\* All lists hold accepted mappings, and registration goes through mappings.
AcceptedInv ==
  /\ InputsInv
  /\ pc \in {"load", "fatal", "flags", "noMappings", "register", "refused",
             "badBit", "serving"}
  /\ mappings \in Seq(Accepted) /\ records \in Seq(Accepted)
  /\ pc \in {"load", "fatal"} => todo = <<>>
  /\ pc \in {"load", "flags"} => records = <<>>
  /\ pc \in {"flags", "noMappings"} => todo \in Seq(FlagMaps)
  /\ pc = "flags" => Elements(todo) \subseteq Elements(flags)
  /\ pc \in {"register", "refused", "badBit", "serving"} =>
       todo \in Seq(Accepted)
  /\ pc = "register" => records \o todo = mappings
  /\ pc = "badBit" =>
       todo # <<>> /\ Head(todo).bit \notin {"none", "int", "negInt"}

\* A mapping of Load is accepted.
LEMMA SourcedAccepted ==
  ASSUME InputsInv
  PROVE  /\ Sourced \in Seq(Mappings)
         /\ (\A i \in DOMAIN Sourced : Valid(Sourced[i])) =>
              Sourced \in Seq(Accepted) /\ Filter(Sourced) = Sourced
<1>1. EnvMappings(env)
        \in Seq({m \in Mappings : m.bit \in {"none", "int", "negInt"}})
  BY EnvMappingsType DEF InputsInv
<1>2. Sourced \in Seq(Mappings)
  BY <1>1 DEF Sourced, InputsInv
<1>3. ASSUME \A i \in DOMAIN Sourced : Valid(Sourced[i])
      PROVE  Sourced \in Seq(Accepted) /\ Filter(Sourced) = Sourced
  <2>1. ASSUME NEW i \in 1 .. Len(Sourced)
        PROVE  Sourced[i] \in Accepted
    <3>1. Sourced[i] \in Mappings /\ Valid(Sourced[i])
      BY <1>2, <1>3
    <3>2. Sourced[i].bit = "float" => Sourced[i] \in Elements(yaml)
      BY <1>1, <1>2 DEF Sourced, Elements, InputsInv
    <3>3. QED
      BY <3>1, <3>2 DEF Accepted
  <2>2. Sourced \in Seq(Accepted)
    BY <1>2, <2>1
  <2>3. Sourced \in Seq(Elements(Sourced))
    BY <1>2 DEF Elements
  <2>4. Elements(Sourced) \subseteq
          {m \in Elements(Sourced) : m.node # "" /\ m.metric # ""}
    BY <1>3 DEF Elements, Valid
  <2>5. Filter(Sourced) = Sourced
    BY <2>3, <2>4, KeepAll DEF Filter
  <2>6. QED
    BY <2>2, <2>5
<1>4. QED
  BY <1>2, <1>3

\* The sources hold mappings.
LEMMA InitAccepted == Init => AcceptedInv
<1> SUFFICES ASSUME Init PROVE AcceptedInv
  OBVIOUS
<1>1. InputsInv
  BY SourcesAssumption DEF Init, InputsInv, FlagMaps
<1>2. <<>> \in Seq(Accepted)
  OBVIOUS
<1>3. QED
  BY <1>1, <1>2 DEF Init, AcceptedInv

\* Every step handles accepted mappings only.
LEMMA NextAccepted ==
  ASSUME AcceptedInv, [Next]_vars
  PROVE  AcceptedInv'
<1> USE DEF inputs
<1>1. UNCHANGED inputs
  BY DEF Next, Load, LoadFails, ApplyFlag, NoMappings, AddTimeNode, Register,
         RegisterRefused, RegisterBadBit, AllRegistered, Finished, vars
<1>2. Accepted' = Accepted /\ InputsInv'
  BY <1>1 DEF Accepted, AcceptedInv, InputsInv
<1>3. CASE Load
  <2>1. Sourced \in Seq(Accepted) /\ Filter(Sourced) = Sourced
    BY <1>3, SourcedAccepted DEF Load, AcceptedInv
  <2>2. mappings' \in Seq(Accepted)
    BY <1>3, <2>1 DEF Load
  <2>3. flags \in Seq(FlagMaps)
    BY DEF AcceptedInv, InputsInv
  <2>4. QED
    BY <1>2, <1>3, <2>2, <2>3 DEF Load, AcceptedInv
<1>4. CASE LoadFails
  BY <1>2, <1>4 DEF LoadFails, AcceptedInv
<1>5. CASE ApplyFlag
  <2>1. /\ todo \in Seq(FlagMaps) /\ todo # <<>>
        /\ Elements(todo) \subseteq Elements(flags)
    BY <1>5 DEF ApplyFlag, AcceptedInv
  <2>2. Head(todo) \in FlagMaps /\ Head(todo) \in Elements(flags)
    BY <2>1 DEF Elements
  <2>3. Tail(todo) \in Seq(FlagMaps)
        /\ Elements(Tail(todo)) \subseteq Elements(flags)
    <3>1. /\ Tail(todo) \in Seq(FlagMaps) /\ Len(Tail(todo)) = Len(todo) - 1
          /\ \A i \in 1 .. Len(Tail(todo)) : Tail(todo)[i] = todo[i + 1]
      BY <2>1, HeadTailProperties
    <3>2. ASSUME NEW i \in DOMAIN Tail(todo)
          PROVE  Tail(todo)[i] \in Elements(todo)
      <4>1. i \in 1 .. Len(Tail(todo))
        BY <3>1
      <4>2. i + 1 \in DOMAIN todo
        BY <2>1, <3>1, <4>1
      <4>3. QED
        BY <3>1, <4>1, <4>2 DEF Elements
    <3>3. Elements(Tail(todo)) \subseteq Elements(todo)
      BY <3>2 DEF Elements
    <3>4. QED
      BY <2>1, <3>1, <3>3
  <2>4. mappings' \in Seq(Accepted)
    <3>1. CASE Head(todo) = Malformed
      BY <1>5, <3>1 DEF ApplyFlag, AcceptedInv
    <3>2. CASE Head(todo) # Malformed
      <4>1. Head(todo) \in Accepted
        BY <2>2, <3>2 DEF FlagMaps, Accepted
      <4>2. \A S : Keep(mappings, S) \in Seq(Accepted)
        BY KeepIsSeq DEF AcceptedInv
      <4>3. AddNodeMapping(mappings, Head(todo)) \in Seq(Accepted)
        BY <4>1, <4>2 DEF AddNodeMapping
      <4>4. QED
        BY <1>5, <3>2, <4>3 DEF ApplyFlag
    <3>3. QED
      BY <3>1, <3>2
  <2>5. QED
    BY <1>2, <1>5, <2>3, <2>4 DEF ApplyFlag, AcceptedInv
<1>6. CASE NoMappings
  BY <1>2, <1>6 DEF NoMappings, AcceptedInv
<1>7. CASE AddTimeNode
  <2>1. TimeMapping \in Accepted
    BY SourcesAssumption DEF Accepted
  <2>2. mappings' \in Seq(Accepted) /\ records = <<>> /\ records' = records
        /\ todo' = mappings' /\ pc' = "register"
    BY <1>7, <2>1 DEF AddTimeNode, AcceptedInv
  <2>3. <<>> \o mappings' = mappings'
    BY <2>2
  <2>4. QED
    BY <1>2, <2>2, <2>3 DEF AcceptedInv
<1>8. CASE Register
  <2>1. /\ todo \in Seq(Accepted) /\ todo # <<>> /\ records \in Seq(Accepted)
        /\ records' = Append(records, Head(todo)) /\ todo' = Tail(todo)
        /\ pc = "register" /\ pc' = "register" /\ mappings' = mappings
        /\ records \o todo = mappings
    BY <1>8 DEF Register, AcceptedInv
  <2>2. /\ Head(todo) \in Accepted /\ Tail(todo) \in Seq(Accepted)
        /\ Append(records, Head(todo)) \in Seq(Accepted)
    BY <2>1
  <2>3. Append(records, Head(todo)) \o Tail(todo) = records \o todo
    BY <2>1, MoveHead
  <2>4. mappings \in Seq(Accepted)
    BY DEF AcceptedInv
  <2>5. QED
    BY <1>2, <2>1, <2>2, <2>3, <2>4 DEF AcceptedInv
<1>9. CASE RegisterRefused
  BY <1>2, <1>9 DEF RegisterRefused, AcceptedInv
<1>10. CASE RegisterBadBit
  BY <1>2, <1>10 DEF RegisterBadBit, AcceptedInv
<1>11. CASE AllRegistered
  BY <1>2, <1>11 DEF AllRegistered, AcceptedInv
<1>12. CASE UNCHANGED vars
  BY <1>2, <1>12 DEF vars, AcceptedInv
<1>13. QED
  BY <1>3, <1>4, <1>5, <1>6, <1>7, <1>8, <1>9, <1>10, <1>11, <1>12
     DEF Next, Finished

\* The lists hold accepted mappings in every reachable state.
LEMMA AcceptedCorrect == Spec => []AcceptedInv
BY InitAccepted, NextAccepted, PTL DEF Spec

\* The type invariant of the start, for any contents of the sources.
THEOREM TypeCorrect == Spec => []TypeOK
<1>1. AcceptedInv => TypeOK
  <2> SUFFICES ASSUME AcceptedInv PROVE TypeOK
    OBVIOUS
  <2>1. Accepted \subseteq Mappings /\ FlagMaps \subseteq Mappings
    BY DEF Accepted, FlagMaps
  <2>2. mappings \in Seq(Mappings) /\ records \in Seq(Mappings)
    BY <2>1 DEF AcceptedInv
  <2>3. todo \in Seq(Mappings)
    <3>1. \/ todo = <<>> \/ todo \in Seq(FlagMaps) \/ todo \in Seq(Accepted)
      BY DEF AcceptedInv
    <3>2. CASE todo = <<>>
      BY <3>2
    <3>3. CASE todo \in Seq(FlagMaps)
      BY <2>1, <3>3, SeqMonotonic
    <3>4. CASE todo \in Seq(Accepted)
      BY <2>1, <3>4, SeqMonotonic
    <3>5. QED
      BY <3>1, <3>2, <3>3, <3>4
  <2>4. pc = "register" => Len(records) + Len(todo) = Len(mappings)
    BY <2>2, <2>3 DEF AcceptedInv
  <2>5. QED
    BY <2>2, <2>3, <2>4 DEF AcceptedInv, TypeOK
<1>2. QED
  BY <1>1, AcceptedCorrect, PTL

\* Only a node flag gets a handler unvalidated, and only a float64 bit of the
\* YAML file fails its registration after Load has let it pass.
THEOREM ValidatedUnlessFlagCorrect == Spec => []ValidatedUnlessFlag
<1>1. AcceptedInv => ValidatedUnlessFlag
  <2> SUFFICES ASSUME AcceptedInv PROVE ValidatedUnlessFlag
    OBVIOUS
  <2>1. ASSUME NEW i \in DOMAIN records
        PROVE  Valid(records[i]) \/ \E j \in DOMAIN flags : flags[j] = records[i]
    <3>1. records[i] \in Accepted
      BY DEF AcceptedInv
    <3>2. QED
      BY <3>1 DEF Accepted, Elements
  <2>2. ASSUME pc = "badBit"
        PROVE  /\ Valid(Head(todo)) /\ Head(todo).bit = "float"
               /\ \E i \in DOMAIN yaml : yaml[i] = Head(todo)
    <3>1. /\ Head(todo) \in Accepted
          /\ Head(todo).bit \notin {"none", "int", "negInt"}
      BY <2>2 DEF AcceptedInv
    <3>2. QED
      BY <3>1 DEF Accepted, Valid, Elements
  <2>3. QED
    BY <2>1, <2>2 DEF ValidatedUnlessFlag
<1>2. QED
  BY <1>1, AcceptedCorrect, PTL

-----------------------------------------------------------------------------
(* The order of precedence.                                                *)

\* The result of the first k flags, said without the order in which they were
\* applied: the last flag of a metric counts, and hides the sourced mappings
\* of that metric.
CountsIn(k, i) ==
  Parsed(i) /\ \A j \in i + 1 .. k :
                 Parsed(j) => flags[j].metric # flags[i].metric
OverriddenIn(k, m) == \E i \in 1 .. k : Parsed(i) /\ flags[i].metric = m.metric
Numbers(k) == [i \in 1 .. k |-> i]
LastIn(k) == Keep(Numbers(k), {i \in 1 .. k : CountsIn(k, i)})
Rest(k) == Keep(Sourced, {m \in Elements(Sourced) : ~OverriddenIn(k, m)})
Outcome(k) == Rest(k) \o Mapped(flags, LastIn(k))

\* The loop over the flags has applied the first k of them, and what is
\* registered, or still to be, is the result of all of them and the time node.
PrecedenceInv ==
  /\ pc = "flags" =>
       \E k \in 0 .. Len(flags) :
         todo = SubSeq(flags, k + 1, Len(flags)) /\ mappings = Outcome(k)
  /\ pc \in {"register", "serving"} =>
       records \o todo =
         Outcome(Len(flags)) \o (IF timeNode THEN <<TimeMapping>> ELSE <<>>)

\* The flags that count are numbers of flags, in a sequence.
LEMMA LastInType ==
  ASSUME InputsInv, NEW k \in 0 .. Len(flags)
  PROVE  /\ Numbers(k) \in Seq(1 .. k) /\ Numbers(k) \in Seq(1 .. Len(flags))
         /\ LastIn(k) \in Seq(1 .. Len(flags))
         /\ flags \in [1 .. Len(flags) -> Mappings]
         /\ Mapped(flags, LastIn(k)) \in Seq(Mappings)
<1>1. Len(flags) \in Nat /\ flags \in [1 .. Len(flags) -> FlagMaps]
  BY DEF InputsInv
<1>2. flags \in [1 .. Len(flags) -> Mappings]
  BY <1>1 DEF FlagMaps
<1>3. Numbers(k) \in Seq(1 .. k)
  BY <1>1 DEF Numbers
<1>4. 1 .. k \subseteq 1 .. Len(flags)
  BY <1>1
<1>5. Numbers(k) \in Seq(1 .. Len(flags))
  BY <1>3, <1>4, SeqMonotonic
<1>6. LastIn(k) \in Seq(1 .. Len(flags))
  BY <1>5, KeepIsSeq DEF LastIn
<1>7. Mapped(flags, LastIn(k)) \in Seq(Mappings)
  BY <1>2, <1>6 DEF Mapped
<1>8. QED
  BY <1>2, <1>3, <1>5, <1>6, <1>7

\* Before the first flag the mappings are those of the sources.
LEMMA NoFlagYet ==
  ASSUME InputsInv
  PROVE  Outcome(0) = Sourced
<1>1. Sourced \in Seq(Mappings)
  BY SourcedAccepted
<1>2. Numbers(0) = <<>>
  BY DEF Numbers
<1>3. LastIn(0) = <<>>
  BY <1>2, KeepEmpty DEF LastIn
<1>4. Mapped(flags, LastIn(0)) = <<>>
  BY <1>3 DEF Mapped
<1>5. Rest(0) = Sourced
  <2>1. Sourced \in Seq(Elements(Sourced))
    BY <1>1 DEF Elements
  <2>2. Elements(Sourced) \subseteq
          {m \in Elements(Sourced) : ~OverriddenIn(0, m)}
    BY DEF OverriddenIn
  <2>3. QED
    BY <2>1, <2>2, KeepAll DEF Rest
<1>6. QED
  BY <1>1, <1>4, <1>5, ConcatEmptySeq DEF Outcome

\* A flag that does not parse changes nothing.
LEMMA MalformedFlag ==
  ASSUME InputsInv, NEW k \in Nat, k < Len(flags), flags[k + 1] = Malformed
  PROVE  Outcome(k + 1) = Outcome(k)
<1>1. /\ Len(flags) \in Nat /\ k \in 0 .. Len(flags)
      /\ k + 1 \in 0 .. Len(flags) /\ ~Parsed(k + 1)
  BY DEF InputsInv, Parsed
<1>2. \A m : OverriddenIn(k + 1, m) <=> OverriddenIn(k, m)
  <2>1. 1 .. k + 1 = 1 .. k \cup {k + 1}
    BY <1>1
  <2>2. QED
    BY <1>1, <2>1 DEF OverriddenIn
<1>3. Rest(k + 1) = Rest(k)
  BY <1>2 DEF Rest
<1>4. LastIn(k + 1) = LastIn(k)
  <2> DEFINE S == {i \in 1 .. k : CountsIn(k, i)}
             R == {i \in 1 .. k + 1 : CountsIn(k + 1, i)}
  <2>1. k + 1 \notin R
    BY <1>1 DEF CountsIn
  <2>2. ASSUME NEW i \in 1 .. k
        PROVE  CountsIn(k + 1, i) <=> CountsIn(k, i)
    <3>1. i + 1 .. k + 1 = i + 1 .. k \cup {k + 1}
      BY <1>1
    <3>2. QED
      BY <1>1, <3>1 DEF CountsIn
  <2>3. 1 .. k \cap R = 1 .. k \cap S
    BY <1>1, <2>2
  <2>4. Numbers(k + 1) = Append(Numbers(k), k + 1)
    BY <1>1 DEF Numbers
  <2> HIDE DEF R, S
  <2>5. Numbers(k) \in Seq(1 .. k) /\ Numbers(k) \in Seq(1 .. Len(flags))
    BY <1>1, LastInType
  <2>6. k + 1 \in 1 .. Len(flags)
    BY <1>1
  <2>7. Keep(Append(Numbers(k), k + 1), R) = Keep(Numbers(k), R)
    BY <2>1, <2>5, <2>6, KeepLast
  <2>8. Keep(Numbers(k), R) = Keep(Numbers(k), S)
    BY <2>3, <2>5, KeepSame
  <2>9. QED
    BY <2>4, <2>7, <2>8 DEF LastIn, R, S
<1>5. QED
  BY <1>3, <1>4 DEF Outcome

\* A flag that parses does what AddNodeMapping does.
LEMMA ParsedFlag ==
  ASSUME InputsInv, NEW k \in Nat, k < Len(flags), flags[k + 1] # Malformed
  PROVE  Outcome(k + 1) = AddNodeMapping(Outcome(k), flags[k + 1])
<1> DEFINE e == flags[k + 1]
           D == {m \in Mappings : m.metric # e.metric}
           N == {i \in 1 .. Len(flags) : flags[i] \in D}
           S == {i \in 1 .. k : CountsIn(k, i)}
           R == {i \in 1 .. k + 1 : CountsIn(k + 1, i)}
           P == {m \in Elements(Sourced) : ~OverriddenIn(k, m)}
           Q == {m \in Elements(Sourced) : ~OverriddenIn(k + 1, m)}
           last == Mapped(flags, LastIn(k))
<1>1. /\ Len(flags) \in Nat /\ k \in 0 .. Len(flags)
      /\ k + 1 \in 0 .. Len(flags) /\ k + 1 \in 1 .. Len(flags)
      /\ Parsed(k + 1)
  BY DEF InputsInv, Parsed
<1>2. /\ Numbers(k) \in Seq(1 .. k) /\ Numbers(k) \in Seq(1 .. Len(flags))
      /\ LastIn(k) \in Seq(1 .. Len(flags))
      /\ flags \in [1 .. Len(flags) -> Mappings]
      /\ last \in Seq(Mappings)
  BY <1>1, LastInType
<1>3. /\ Sourced \in Seq(Mappings) /\ Rest(k) \in Seq(Mappings)
      /\ Outcome(k) \in Seq(Mappings) /\ e \in Mappings
  <2>1. Sourced \in Seq(Mappings)
    BY SourcedAccepted
  <2>2. Rest(k) \in Seq(Mappings)
    BY <2>1, KeepIsSeq DEF Rest
  <2>3. Outcome(k) \in Seq(Mappings)
    BY <1>2, <2>2, ConcatProperties DEF Outcome
  <2>4. e \in Mappings
    BY <1>1, <1>2
  <2>5. QED
    BY <2>1, <2>2, <2>3, <2>4
\* What the flag removes.
<1>4. Keep(Outcome(k), {x \in Elements(Outcome(k)) : x.metric # e.metric})
        = Keep(Rest(k), D) \o Keep(last, D)
  <2>1. Outcome(k) \in Seq(Elements(Outcome(k)))
        /\ Elements(Outcome(k)) \subseteq Mappings
    <3>1. \A i \in 1 .. Len(Outcome(k)) : Outcome(k)[i] \in Mappings
      BY <1>3
    <3>2. DOMAIN Outcome(k) = 1 .. Len(Outcome(k))
      BY <1>3
    <3>3. Elements(Outcome(k)) \subseteq Mappings
      BY <3>1, <3>2 DEF Elements
    <3>4. Outcome(k) \in Seq(Elements(Outcome(k)))
      BY <1>3 DEF Elements
    <3>5. QED
      BY <3>3, <3>4
  <2>2. Elements(Outcome(k))
          \cap {x \in Elements(Outcome(k)) : x.metric # e.metric}
          = Elements(Outcome(k)) \cap D
    BY <2>1
  <2> HIDE DEF D, e, last
  <2>3. Keep(Outcome(k), {x \in Elements(Outcome(k)) : x.metric # e.metric})
          = Keep(Outcome(k), D)
    BY <2>1, <2>2, KeepSame
  <2>4. Keep(Rest(k) \o last, D) = Keep(Rest(k), D) \o Keep(last, D)
    <3>1. Rest(k) \in Seq(Mappings) /\ last \in Seq(Mappings)
      BY <1>2, <1>3
    <3>2. QED
      BY <3>1, KeepConcat
  <2>5. QED
    BY <2>3, <2>4 DEF Outcome, last
<1>5. Keep(Rest(k), D) = Rest(k + 1)
  <2>1. 1 .. k + 1 = 1 .. k \cup {k + 1}
    BY <1>1
  <2>2. ASSUME NEW m
        PROVE  OverriddenIn(k + 1, m)
                 <=> OverriddenIn(k, m) \/ e.metric = m.metric
    BY <1>1, <2>1 DEF OverriddenIn
  <2>3. Elements(Sourced) \subseteq Mappings
    BY <1>3 DEF Elements
  <2>4. P \cap D = Q
    BY <2>2, <2>3
  <2> HIDE DEF P, Q, D
  <2>5. Keep(Keep(Sourced, P), D) = Keep(Sourced, P \cap D)
    BY <1>3, KeepTwice
  <2>6. QED
    BY <2>4, <2>5 DEF Rest, P, Q
<1>6. Keep(last, D) = Mapped(flags, Keep(Numbers(k), S \cap N))
  <2>1. Keep(last, D) = Mapped(flags, Keep(LastIn(k), N))
    <3>1. LastIn(k) \in Seq(1 .. Len(flags))
      BY <1>2
    <3> HIDE DEF D
    <3>2. QED
      BY <3>1, KeepMapped
  <2>2. Keep(LastIn(k), N) = Keep(Numbers(k), S \cap N)
    <3> HIDE DEF N, S
    <3>1. Keep(Keep(Numbers(k), S), N) = Keep(Numbers(k), S \cap N)
      BY <1>2, KeepTwice
    <3>2. QED
      BY <3>1 DEF LastIn, S
  <2>3. QED
    BY <2>1, <2>2
\* Which flags count from now on.
<1>7. LastIn(k + 1) = Append(Keep(Numbers(k), S \cap N), k + 1)
  <2>1. k + 1 \in R
    <3>1. (k + 1) + 1 .. k + 1 = {}
      BY <1>1
    <3>2. k + 1 \in 1 .. k + 1
      BY <1>1
    <3>3. QED
      BY <1>1, <3>1, <3>2 DEF CountsIn
  <2>2. ASSUME NEW i \in 1 .. k
        PROVE  CountsIn(k + 1, i) <=> CountsIn(k, i) /\ i \in N
    <3>1. i + 1 .. k + 1 = i + 1 .. k \cup {k + 1}
      BY <1>1
    <3>2. CountsIn(k + 1, i)
            <=> CountsIn(k, i) /\ flags[k + 1].metric # flags[i].metric
      BY <1>1, <3>1 DEF CountsIn
    <3>3. i \in 1 .. Len(flags) /\ flags[i] \in Mappings
      <4>1. i \in 1 .. Len(flags)
        BY <1>1
      <4>2. QED
        BY <1>2, <4>1
    <3>4. i \in N <=> flags[i].metric # e.metric
      BY <3>3
    <3>5. QED
      BY <3>2, <3>4
  <2>3. 1 .. k \cap R = 1 .. k \cap (S \cap N)
    <3>1. 1 .. k \subseteq 1 .. k + 1
      BY <1>1
    <3> HIDE DEF N
    <3>2. QED
      BY <2>2, <3>1
  <2>4. Numbers(k + 1) = Append(Numbers(k), k + 1)
    BY <1>1 DEF Numbers
  <2> HIDE DEF R, S, N
  <2>5. Keep(Append(Numbers(k), k + 1), R) = Append(Keep(Numbers(k), R), k + 1)
    <3>1. Numbers(k) \in Seq(1 .. Len(flags)) /\ k + 1 \in 1 .. Len(flags)
      BY <1>1, <1>2
    <3>2. QED
      BY <2>1, <3>1, KeepLast
  <2>6. Keep(Numbers(k), R) = Keep(Numbers(k), S \cap N)
    <3> DEFINE I == 1 .. k
               M == S \cap N
    <3>1. Numbers(k) \in Seq(I) /\ I \cap R = I \cap M
      BY <1>2, <2>3
    <3> HIDE DEF I, M
    <3>2. Keep(Numbers(k), R) = Keep(Numbers(k), M)
      BY <3>1, KeepSame
    <3>3. QED
      BY <3>2 DEF M
  <2>7. QED
    BY <2>4, <2>5, <2>6 DEF LastIn, R
<1>8. Mapped(flags, LastIn(k + 1))
        = Append(Mapped(flags, Keep(Numbers(k), S \cap N)), e)
  <2> HIDE DEF S, N
  <2>1. Numbers(k) \in Seq(1 .. Len(flags)) /\ k + 1 \in 1 .. Len(flags)
    BY <1>1, <1>2
  <2>2. Keep(Numbers(k), S \cap N) \in Seq(1 .. Len(flags))
    BY <2>1, KeepIsSeq
  <2>3. Mapped(flags, Append(Keep(Numbers(k), S \cap N), k + 1))
          = Append(Mapped(flags, Keep(Numbers(k), S \cap N)), flags[k + 1])
    BY <2>1, <2>2, MappedAppend
  <2>4. QED
    BY <1>7, <2>3
<1>9. Rest(k + 1) \in Seq(Mappings) /\ Keep(last, D) \in Seq(Mappings)
  <2> HIDE DEF D, last
  <2>1. QED
    BY <1>2, <1>3, <1>5, KeepIsSeq
<1> HIDE DEF e, D, N, S, last
<1>10. Outcome(k + 1) = Rest(k + 1) \o Append(Keep(last, D), e)
  BY <1>6, <1>8 DEF Outcome
<1>11. Rest(k + 1) \o Append(Keep(last, D), e)
         = Append(Rest(k + 1) \o Keep(last, D), e)
  BY <1>3, <1>9
<1>12. QED
  BY <1>4, <1>5, <1>10, <1>11 DEF AddNodeMapping, e

\* In the end it is the last flag of each metric that counts.
LEMMA AllFlags ==
  ASSUME InputsInv
  PROVE  Outcome(Len(flags)) =
           Keep(Sourced, {m \in Elements(Sourced) : ~OverriddenByFlag(m)})
             \o FlagMappings
<1>1. DOMAIN flags = 1 .. Len(flags)
  BY DEF InputsInv
<1>2. \A i : CountsIn(Len(flags), i) <=> Counts(i)
  BY DEF CountsIn, Counts
<1>3. \A m : OverriddenIn(Len(flags), m) <=> OverriddenByFlag(m)
  BY <1>1 DEF OverriddenIn, OverriddenByFlag
<1>4. LastIn(Len(flags))
        = Keep([i \in DOMAIN flags |-> i], {i \in DOMAIN flags : Counts(i)})
  BY <1>1, <1>2 DEF LastIn, Numbers
<1>5. Mapped(flags, LastIn(Len(flags))) = FlagMappings
  BY <1>4 DEF Mapped, FlagMappings
<1>6. Rest(Len(flags))
        = Keep(Sourced, {m \in Elements(Sourced) : ~OverriddenByFlag(m)})
  BY <1>3 DEF Rest
<1>7. QED
  BY <1>5, <1>6 DEF Outcome

\* Every step of main keeps the order of precedence.
LEMMA NextPrecedence ==
  ASSUME AcceptedInv, PrecedenceInv, [Next]_vars
  PROVE  PrecedenceInv'
<1> DEFINE end == IF timeNode THEN <<TimeMapping>> ELSE <<>>
<1> USE DEF inputs
<1>1. UNCHANGED inputs
  BY DEF Next, Load, LoadFails, ApplyFlag, NoMappings, AddTimeNode, Register,
         RegisterRefused, RegisterBadBit, AllRegistered, Finished, vars
<1>2. /\ InputsInv /\ Len(flags) \in Nat /\ flags' = flags
      /\ timeNode' = timeNode /\ (Outcome(Len(flags)))' = Outcome(Len(flags))
  BY <1>1 DEF AcceptedInv, InputsInv, Outcome, Rest, LastIn, Numbers, Mapped,
              OverriddenIn, CountsIn, Parsed, Sourced
<1>3. \A k : Outcome(k)' = Outcome(k)
  BY <1>1 DEF Outcome, Rest, LastIn, Numbers, Mapped, OverriddenIn, CountsIn,
              Parsed, Sourced
<1>4. CASE Load
  <2>1. mappings' = Sourced
    BY <1>4, SourcedAccepted DEF Load, AcceptedInv
  <2>2. mappings' = Outcome(0)
    BY <1>2, <2>1, NoFlagYet
  <2>3. todo' = SubSeq(flags, 0 + 1, Len(flags))
    <3>1. SubSeq(flags, 1, Len(flags)) = flags
      BY <1>2, SubSeqFull DEF InputsInv
    <3>2. QED
      BY <1>4, <3>1 DEF Load
  <2>4. pc' = "flags" /\ 0 \in 0 .. Len(flags)
    BY <1>2, <1>4 DEF Load
  <2>5. \E k \in 0 .. Len(flags) :
          todo' = SubSeq(flags, k + 1, Len(flags)) /\ mappings' = Outcome(k)
    BY <2>2, <2>3, <2>4
  <2>6. QED
    BY <1>2, <1>3, <2>4, <2>5 DEF PrecedenceInv
<1>5. CASE ApplyFlag
  <2>1. PICK k \in 0 .. Len(flags) :
          todo = SubSeq(flags, k + 1, Len(flags)) /\ mappings = Outcome(k)
    BY <1>5 DEF ApplyFlag, PrecedenceInv
  <2>2. k \in Nat /\ k < Len(flags)
    <3>1. CASE k = Len(flags)
      <4>1. SubSeq(flags, k + 1, Len(flags)) = <<>>
        BY <1>2, <3>1, SubSeqEmpty
      <4>2. QED
        BY <1>5, <2>1, <4>1 DEF ApplyFlag
    <3>2. QED
      BY <1>2, <3>1
  <2>3. Head(todo) = flags[k + 1] /\ Tail(todo) = SubSeq(flags, k + 1 + 1, Len(flags))
    <3>1. flags \in Seq(FlagMaps) /\ k + 1 \in 1 .. Len(flags)
          /\ Len(flags) \in k + 1 .. Len(flags)
      BY <1>2, <2>2 DEF InputsInv
    <3>2. QED
      BY <2>1, <3>1, HeadTailOfSubSeq
  <2>4. mappings' = Outcome(k + 1)
    <3>1. CASE flags[k + 1] = Malformed
      BY <1>2, <1>5, <2>1, <2>2, <2>3, <3>1, MalformedFlag DEF ApplyFlag
    <3>2. CASE flags[k + 1] # Malformed
      BY <1>2, <1>5, <2>1, <2>2, <2>3, <3>2, ParsedFlag DEF ApplyFlag
    <3>3. QED
      BY <3>1, <3>2
  <2>5. /\ pc' = "flags" /\ k + 1 \in 0 .. Len(flags)
        /\ todo' = SubSeq(flags, (k + 1) + 1, Len(flags))
    BY <1>2, <1>5, <2>2, <2>3 DEF ApplyFlag
  <2>6. \E l \in 0 .. Len(flags) :
          todo' = SubSeq(flags, l + 1, Len(flags)) /\ mappings' = Outcome(l)
    BY <2>4, <2>5
  <2>7. QED
    BY <1>2, <1>3, <2>5, <2>6 DEF PrecedenceInv
<1>6. CASE AddTimeNode
  <2>1. PICK k \in 0 .. Len(flags) :
          todo = SubSeq(flags, k + 1, Len(flags)) /\ mappings = Outcome(k)
    BY <1>6 DEF AddTimeNode, PrecedenceInv
  <2>2. k = Len(flags)
    <3>1. CASE k < Len(flags)
      <4>1. \A i \in k + 1 .. Len(flags) : flags[i] \in FlagMaps
        BY <1>2, <3>1 DEF InputsInv
      <4>2. Len(SubSeq(flags, k + 1, Len(flags)))
              = IF k + 1 <= Len(flags) THEN Len(flags) - (k + 1) + 1 ELSE 0
        BY <1>2, <4>1, SubSeqProperties
      <4>3. Len(todo) # 0
        BY <1>2, <2>1, <3>1, <4>2
      <4>4. QED
        BY <1>6, <4>3 DEF AddTimeNode
    <3>2. QED
      BY <1>2, <3>1
  <2>3. /\ mappings \in Seq(Accepted) /\ TimeMapping \in Accepted
        /\ mappings = Outcome(Len(flags))
    BY <2>1, <2>2, SourcesAssumption DEF AcceptedInv, Accepted
  <2>4. todo' = mappings \o end
    <3>1. CASE timeNode
      BY <1>6, <2>3, <3>1, AppendIsConcat DEF AddTimeNode
    <3>2. CASE ~timeNode
      BY <1>6, <2>3, <3>2, ConcatEmptySeq DEF AddTimeNode
    <3>3. QED
      BY <3>1, <3>2
  <2>5. records' = <<>> /\ pc' = "register"
    BY <1>6 DEF AddTimeNode, AcceptedInv
  <2>6. <<>> \o todo' = todo'
    <3>1. end \in Seq(Accepted)
      BY <2>3
    <3> HIDE DEF end
    <3>2. todo' \in Seq(Accepted)
      BY <2>3, <2>4, <3>1, ConcatProperties
    <3>3. QED
      BY <3>2, ConcatEmptySeq
  <2>7. QED
    BY <1>2, <2>3, <2>4, <2>5, <2>6 DEF PrecedenceInv
<1>7. CASE Register
  <2>1. /\ records \in Seq(Accepted) /\ todo \in Seq(Accepted) /\ todo # <<>>
        /\ records' = Append(records, Head(todo)) /\ todo' = Tail(todo)
        /\ pc = "register" /\ pc' = "register"
    BY <1>7 DEF Register, AcceptedInv
  <2>2. records' \o todo' = records \o todo
    BY <2>1, MoveHead
  <2>3. QED
    BY <1>2, <2>1, <2>2 DEF PrecedenceInv
<1>8. CASE AllRegistered
  <2>1. /\ records' = records /\ todo' = todo /\ pc = "register"
        /\ pc' = "serving"
    BY <1>8 DEF AllRegistered
  <2>2. QED
    BY <1>2, <2>1 DEF PrecedenceInv
<1>9. CASE LoadFails \/ NoMappings \/ RegisterRefused \/ RegisterBadBit
  <2>1. pc' \notin {"flags", "register", "serving"}
    BY <1>9 DEF LoadFails, NoMappings, RegisterRefused, RegisterBadBit
  <2>2. QED
    BY <2>1 DEF PrecedenceInv
<1>10. CASE UNCHANGED vars
  <2>1. UNCHANGED <<pc, todo, mappings, records>>
    BY <1>10 DEF vars
  <2>2. QED
    BY <1>2, <1>3, <2>1 DEF PrecedenceInv
<1>11. QED
  BY <1>4, <1>5, <1>6, <1>7, <1>8, <1>9, <1>10 DEF Next, Finished

\* The order of precedence, for any contents of the sources: the flags, one
\* AddNodeMapping after the other, leave what the documentation promises.
THEOREM PrecedenceKeptCorrect == Spec => []PrecedenceKept
<1>1. Init => PrecedenceInv
  BY DEF Init, PrecedenceInv
<1>2. AcceptedInv /\ PrecedenceInv /\ [Next]_vars => PrecedenceInv'
  BY NextPrecedence
<1>3. AcceptedInv /\ PrecedenceInv => PrecedenceKept
  <2> SUFFICES ASSUME AcceptedInv, PrecedenceInv,
                      pc \in {"register", "serving"}
               PROVE  PrecedenceKept
    BY DEF PrecedenceKept
  <2>1. InputsInv
    BY DEF AcceptedInv
  <2>2. QED
    BY <2>1, AllFlags DEF PrecedenceInv, PrecedenceKept, Sourced
<1>4. QED
  BY <1>1, <1>2, <1>3, AcceptedCorrect, PTL DEF Spec
=============================================================================
