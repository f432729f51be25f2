----------------------------- MODULE Fold_proofs ------------------------------
(***************************************************************************)
(* Induction and folds: what is computed from a set or a sequence by       *)
(* taking an element at a time, for sets and sequences of any size.        *)
(***************************************************************************)
EXTENDS Integers, Sequences, SequencesExt, FiniteSetTheorems, WellFoundedInduction, TLAPS

-------------------------------------------------------------------------------
\* A set of natural numbers has a least element.
LEMMA LeastNumber ==
  ASSUME NEW S \in SUBSET Nat, S # {}
  PROVE  \E x \in S : \A y \in S : x <= y
<1> DEFINE R == {p \in Nat \X Nat : p[1] < p[2]}
<1>1. IsWellFoundedOn(R, Nat)
  <2>1. R = OpToRel(<, Nat)
    BY DEF OpToRel
  <2>2. QED
    BY <2>1, NatLessThanWellFounded
<1>2. \A x, y \in Nat : y < x => <<y, x>> \in R
  BY DEF R
<1> HIDE DEF R
<1>3. PICK x \in S : \A y \in S : ~(<<y, x>> \in R)
  BY <1>1, WFMin
<1>4. ASSUME NEW y \in S PROVE x <= y
  <2>1. x \in Nat /\ y \in Nat
    OBVIOUS
  <2>2. ~(y < x)
    BY <1>2, <1>3, <2>1
  <2>3. QED
    BY <2>1, <2>2
<1>5. QED
  BY <1>4

\* A set of natural numbers that has 0 and with a number the next has them all.
LEMMA AllNumbers ==
  ASSUME NEW N \in SUBSET Nat, 0 \in N, \A n \in N : n + 1 \in N
  PROVE  N = Nat
<1> SUFFICES ASSUME Nat \ N # {} PROVE FALSE
  OBVIOUS
<1>1. PICK x \in Nat \ N : \A y \in Nat \ N : x <= y
  BY LeastNumber
<1>2. x # 0 /\ x - 1 \in Nat /\ ~(x <= x - 1)
  BY <1>1
<1>3. x - 1 \in N /\ (x - 1) + 1 = x
  BY <1>1, <1>2
<1>4. QED
  BY <1>1, <1>3

-------------------------------------------------------------------------------
(***************************************************************************)
(* Folds over the subsets of a finite set, an element at a time.           *)
(***************************************************************************)
\* g folds over the subsets of S: step(x, v) puts the element x taken from a set to the
\* value v of what is left of it.
Folds(g, S, pick, step, base) ==
  \A s \in SUBSET S : g[s] = IF s = {} THEN base ELSE step[pick[s]][g[s \ {pick[s]}]]

\* The subsets with at most n elements.
Upto(S, n) == {s \in SUBSET S : Cardinality(s) <= n}

\* Taking an element from a set with at most n + 1 of them.
LEMMA OneLess ==
  ASSUME NEW S, IsFiniteSet(S), NEW n \in Nat, NEW s \in Upto(S, n + 1), NEW x \in s
  PROVE  s \ {x} \in Upto(S, n)
<1>1. IsFiniteSet(s) /\ s \in SUBSET S /\ Cardinality(s) <= n + 1
  BY FS_Subset DEF Upto
<1>2. Cardinality(s) \in Nat /\ Cardinality(s \ {x}) = Cardinality(s) - 1
  BY <1>1, FS_CardinalityType, FS_RemoveElement
<1>3. QED
  BY <1>1, <1>2 DEF Upto

\* No elements at all.
LEMMA NoneLeft ==
  ASSUME NEW S, IsFiniteSet(S), NEW s \in Upto(S, 0)
  PROVE  s = {}
<1>1. IsFiniteSet(s) /\ Cardinality(s) <= 0
  BY FS_Subset DEF Upto
<1>2. QED
  BY <1>1, FS_CardinalityType, FS_EmptySet

\* There is a fold.
LEMMA FoldExists ==
  ASSUME NEW S, IsFiniteSet(S), NEW V, NEW base \in V,
         NEW pick, \A s \in SUBSET S : s # {} => pick[s] \in s,
         NEW step, \A x \in S, v \in V : step[x][v] \in V
  PROVE  \E g \in [SUBSET S -> V] : Folds(g, S, pick, step, base)
<1> DEFINE Extended(g, s) == IF s = {} THEN base ELSE step[pick[s]][g[s \ {pick[s]}]]
           Upward(n) == \E g \in [Upto(S, n) -> V] : \A s \in Upto(S, n) : g[s] = Extended(g, s)
           N == {n \in Nat : Upward(n)}
<1>1. 0 \in N
  <2> DEFINE g == [s \in Upto(S, 0) |-> base]
  <2>1. \A s \in Upto(S, 0) : g[s] = Extended(g, s)
    BY NoneLeft
  <2>2. g \in [Upto(S, 0) -> V]
    OBVIOUS
  <2> HIDE DEF g
  <2>3. QED
    BY <2>1, <2>2
<1>2. ASSUME NEW n \in N PROVE n + 1 \in N
  <2>1. PICK g \in [Upto(S, n) -> V] : \A s \in Upto(S, n) : g[s] = Extended(g, s)
    OBVIOUS
  <2> DEFINE f == [s \in Upto(S, n + 1) |-> Extended(g, s)]
  <2>2. \A s \in Upto(S, n + 1) : s \in SUBSET S
    BY DEF Upto
  <2>3. \A s \in Upto(S, n + 1) : s # {} => s \ {pick[s]} \in Upto(S, n) /\ pick[s] \in S
    BY <2>2, OneLess
  <2>4. Upto(S, n) \subseteq Upto(S, n + 1)
    <3> SUFFICES ASSUME NEW s \in Upto(S, n) PROVE Cardinality(s) <= n + 1
      BY DEF Upto
    <3>1. IsFiniteSet(s) /\ Cardinality(s) <= n
      BY FS_Subset DEF Upto
    <3>2. Cardinality(s) \in Nat
      BY <3>1, FS_CardinalityType
    <3>3. QED
      BY <3>1, <3>2
  <2>5. f \in [Upto(S, n + 1) -> V]
    <3>1. ASSUME NEW s \in Upto(S, n + 1) PROVE Extended(g, s) \in V
      BY <2>1, <2>3
    <3>2. QED
      BY <3>1
  <2>6. \A s \in Upto(S, n) : f[s] = g[s]
    BY <2>1, <2>4
  <2>7. \A s \in Upto(S, n + 1) : f[s] = Extended(f, s)
    <3> SUFFICES ASSUME NEW s \in Upto(S, n + 1) PROVE f[s] = Extended(f, s)
      OBVIOUS
    <3>1. f[s] = Extended(g, s)
      OBVIOUS
    <3> HIDE DEF f
    <3>2. s # {} => f[s \ {pick[s]}] = g[s \ {pick[s]}]
      BY <2>3, <2>6
    <3>3. QED
      BY <3>1, <3>2
  <2> HIDE DEF f
  <2>8. Upward(n + 1)
    BY <2>5, <2>7
  <2> HIDE DEF Upward
  <2>9. QED
    BY <2>8
<1>3. N = Nat
  <2> HIDE DEF N
  <2>1. N \in SUBSET Nat
    BY DEF N
  <2>2. QED
    BY <1>1, <1>2, <2>1, AllNumbers
<1>4. Cardinality(S) \in N
  BY <1>3, FS_CardinalityType
<1>5. Upto(S, Cardinality(S)) = SUBSET S
  <2>1. ASSUME NEW s \in SUBSET S PROVE Cardinality(s) <= Cardinality(S)
    BY FS_Subset
  <2>2. QED
    BY <2>1 DEF Upto
<1>6. PICK g \in [SUBSET S -> V] : \A s \in SUBSET S : g[s] = Extended(g, s)
  BY <1>4, <1>5
<1>7. QED
  BY <1>6 DEF Folds

\* What holds without elements, and of a set when it holds of the set without one of its
\* elements, holds of the whole.
LEMMA FoldStays ==
  ASSUME NEW S, IsFiniteSet(S), NEW V, NEW g, g[{}] \in V,
         \A s \in SUBSET S : s # {} => \E x \in s : g[s \ {x}] \in V => g[s] \in V
  PROVE  g[S] \in V
<1> DEFINE N == {n \in Nat : \A s \in Upto(S, n) : g[s] \in V}
<1>1. 0 \in N
  <2>1. ASSUME NEW s \in Upto(S, 0) PROVE g[s] \in V
    BY NoneLeft
  <2>2. QED
    BY <2>1
<1>2. ASSUME NEW n \in N PROVE n + 1 \in N
  <2>1. ASSUME NEW s \in Upto(S, n + 1), s # {} PROVE g[s] \in V
    <3>1. s \in SUBSET S
      BY DEF Upto
    <3>2. PICK x \in s : g[s \ {x}] \in V => g[s] \in V
      BY <2>1, <3>1
    <3>3. s \ {x} \in Upto(S, n)
      BY OneLess
    <3>4. QED
      BY <3>2, <3>3
  <2>2. \A s \in Upto(S, n + 1) : g[s] \in V
    BY <2>1
  <2>3. QED
    BY <2>2
<1>3. N = Nat
  <2> HIDE DEF N
  <2>1. N \in SUBSET Nat
    BY DEF N
  <2>2. QED
    BY <1>1, <1>2, <2>1, AllNumbers
<1>4. Cardinality(S) \in N
  BY <1>3, FS_CardinalityType
<1>5. S \in Upto(S, Cardinality(S))
  BY FS_CardinalityType DEF Upto
<1>6. QED
  BY <1>4, <1>5

-------------------------------------------------------------------------------
(***************************************************************************)
(* Numbers in little-endian order: FoldRight with b + R * v.               *)
(***************************************************************************)
\* f gives each set of places of d the number that stands at them.
Unfolds(f, R, d) ==
  f = [s \in SUBSET DOMAIN d |-> IF s = {} THEN 0 ELSE d[Min(s)] + R * f[s \ {Min(s)}]]

\* There is such a function.
LEMMA PlacesExist ==
  ASSUME NEW R \in Nat, NEW d \in Seq(Nat)
  PROVE  \E f : Unfolds(f, R, d)
<1> DEFINE S == DOMAIN d
           pick == [s \in SUBSET S |-> Min(s)]
           step == [x \in S |-> [v \in Nat |-> d[x] + R * v]]
<1>2. S = 1 .. Len(d) /\ Len(d) \in Nat /\ \A x \in S : d[x] \in Nat
  OBVIOUS
<1>3. IsFiniteSet(S) /\ S \in SUBSET Nat
  BY <1>2, FS_Interval
<1>4. \A x \in S, v \in Nat : step[x][v] \in Nat
  <2> SUFFICES ASSUME NEW x \in S, NEW v \in Nat PROVE d[x] + R * v \in Nat
    OBVIOUS
  <2>1. d[x] \in Nat
    BY <1>2
  <2>2. R * v \in Nat
    OBVIOUS
  <2> HIDE DEF S
  <2>3. QED
    BY <2>1, <2>2
<1>5. \A s \in SUBSET S : s # {} => Min(s) \in s
  <2> SUFFICES ASSUME NEW s \in SUBSET S, s # {} PROVE Min(s) \in s
    OBVIOUS
  <2>1. \E x \in s : \A y \in s : x <= y
    BY <1>3, LeastNumber
  <2>2. QED
    BY <2>1 DEF Min
<1>6. \A s \in SUBSET S : s # {} => pick[s] \in s
  BY <1>5
<1>7. PICK g \in [SUBSET S -> Nat] : Folds(g, S, pick, step, 0)
  <2> HIDE DEF S, pick, step
  <2>1. QED
    BY <1>3, <1>4, <1>6, FoldExists
<1>8. Unfolds(g, R, d)
  <2>1. ASSUME NEW s \in SUBSET S
        PROVE  g[s] = IF s = {} THEN 0 ELSE d[Min(s)] + R * g[s \ {Min(s)}]
    <3>1. g[s] = IF s = {} THEN 0 ELSE step[pick[s]][g[s \ {pick[s]}]]
      BY <1>7 DEF Folds
    <3>2. ASSUME s # {} PROVE step[pick[s]][g[s \ {pick[s]}]] = d[Min(s)] + R * g[s \ {Min(s)}]
      <4>1. pick[s] = Min(s) /\ Min(s) \in S
        BY <1>5, <3>2
      <4> DEFINE v == g[s \ {Min(s)}]
      <4>2. v \in Nat
        BY <1>7
      <4> HIDE DEF v
      <4>3. step[Min(s)][v] = d[Min(s)] + R * v
        BY <4>1, <4>2
      <4> HIDE DEF step, pick
      <4>4. QED
        BY <4>1, <4>3 DEF v
    <3> HIDE DEF step, pick, S
    <3>3. QED
      BY <3>1, <3>2
  <2>2. QED
    BY <1>7, <2>1 DEF Unfolds
<1>9. QED
  BY <1>8

\* Of such a function, the values at the ends of d: each is the first number and R times
\* the value of the rest.
LEMMA PlacesValue ==
  ASSUME NEW R \in Nat, NEW d \in Seq(Nat), NEW f, Unfolds(f, R, d)
  PROVE  \A i \in 1 .. Len(d) + 1 :
           /\ f[i .. Len(d)] \in Nat
           /\ i = Len(d) + 1 => f[i .. Len(d)] = 0
           /\ i # Len(d) + 1 => f[i .. Len(d)] = d[i] + R * f[i + 1 .. Len(d)]
<1> DEFINE n == Len(d)
           End(i) == i .. n
           N == {k \in Nat : k <= n => f[End(n + 1 - k)] \in Nat}
<1>1. n \in Nat /\ DOMAIN d = 1 .. n /\ \A i \in 1 .. n : d[i] \in Nat
  OBVIOUS
<1>2. f[{}] = 0 /\ \A s \in SUBSET (1 .. n) : s # {} => f[s] = d[Min(s)] + R * f[s \ {Min(s)}]
  <2>1. f[{}] = 0 /\ \A s \in SUBSET DOMAIN d : s # {} => f[s] = d[Min(s)] + R * f[s \ {Min(s)}]
    BY DEF Unfolds
  <2>2. QED
    BY <1>1, <2>1
<1> HIDE DEF n
<1>3. f[End(n + 1)] = 0
  <2>1. End(n + 1) = {}
    BY <1>1
  <2>2. QED
    BY <1>2, <2>1
<1>4. ASSUME NEW i \in 1 .. n PROVE f[End(i)] = d[i] + R * f[End(i + 1)]
  <2>1. End(i) \in SUBSET (1 .. n) /\ i \in End(i) /\ End(i) \ {i} = End(i + 1)
    BY <1>1
  <2>2. Min(End(i)) = i
    BY <1>1 DEF Min
  <2> HIDE DEF End
  <2>3. QED
    BY <1>2, <2>1, <2>2
<1>5. 0 \in N
  BY <1>1, <1>3
<1>6. ASSUME NEW k \in N PROVE k + 1 \in N
  <2> SUFFICES ASSUME k + 1 <= n PROVE f[End(n + 1 - (k + 1))] \in Nat
    OBVIOUS
  <2> DEFINE i == n - k
  <2>1. i \in 1 .. n /\ n + 1 - (k + 1) = i /\ n + 1 - k = i + 1 /\ k <= n
    BY <1>1
  <2> HIDE DEF i
  <2>2. f[End(i + 1)] \in Nat /\ d[i] \in Nat
    BY <1>1, <2>1
  <2> HIDE DEF End
  <2>3. d[i] + R * f[End(i + 1)] \in Nat
    <3>1. \A a, b \in Nat : a + R * b \in Nat
      OBVIOUS
    <3>2. QED
      BY <2>2, <3>1
  <2>4. QED
    BY <1>4, <2>1, <2>3
<1>7. N = Nat
  <2> HIDE DEF N
  <2>1. N \in SUBSET Nat
    BY DEF N
  <2>2. QED
    BY <1>5, <1>6, <2>1, AllNumbers
<1>8. ASSUME NEW i \in 1 .. n + 1 PROVE f[End(i)] \in Nat
  <2> DEFINE k == n + 1 - i
  <2>1. k \in Nat /\ k <= n /\ n + 1 - k = i
    BY <1>1
  <2> HIDE DEF k, End
  <2>2. k \in N
    BY <1>7, <2>1
  <2>3. QED
    BY <2>1, <2>2
<1>9. ASSUME NEW i \in 1 .. n + 1
      PROVE /\ f[End(i)] \in Nat
            /\ i = n + 1 => f[End(i)] = 0
            /\ i # n + 1 => f[End(i)] = d[i] + R * f[End(i + 1)]
  <2>1. i # n + 1 => i \in 1 .. n
    BY <1>1
  <2> HIDE DEF End
  <2>2. QED
    BY <1>3, <1>4, <1>8, <2>1
<1>10. QED
  BY <1>9 DEF n

\* The number that stands in d: v[i] is that of its places from i on.
LEMMA LittleEndian ==
  ASSUME NEW R \in Nat, NEW d \in Seq(Nat)
  PROVE  \E v \in [1 .. Len(d) + 1 -> Nat] :
           /\ FoldRight(LAMBDA b, high : b + R * high, d, 0) = v[1]
           /\ v[Len(d) + 1] = 0
           /\ \A i \in 1 .. Len(d) : v[i] = d[i] + R * v[i + 1]
<1> DEFINE f == CHOOSE e : Unfolds(e, R, d)
           v == [i \in 1 .. Len(d) + 1 |-> f[i .. Len(d)]]
<1>1. FoldRight(LAMBDA b, high : b + R * high, d, 0) = f[DOMAIN d]
  BY DEF FoldRight, MapThenFoldSet, Unfolds
<1>2. Unfolds(f, R, d)
  BY PlacesExist
<1> HIDE DEF f
<1>3. \A i \in 1 .. Len(d) + 1 :
           /\ f[i .. Len(d)] \in Nat
           /\ i = Len(d) + 1 => f[i .. Len(d)] = 0
           /\ i # Len(d) + 1 => f[i .. Len(d)] = d[i] + R * f[i + 1 .. Len(d)]
  BY <1>2, PlacesValue
<1>4. Len(d) \in Nat /\ DOMAIN d = 1 .. Len(d)
  OBVIOUS
<1>5. v \in [1 .. Len(d) + 1 -> Nat] /\ v[1] = f[DOMAIN d] /\ v[Len(d) + 1] = 0
  BY <1>3, <1>4
<1>6. ASSUME NEW i \in 1 .. Len(d) PROVE v[i] = d[i] + R * v[i + 1]
  <2>1. i \in 1 .. Len(d) + 1 /\ i + 1 \in 1 .. Len(d) + 1 /\ i # Len(d) + 1
    BY <1>4
  <2>2. v[i] = f[i .. Len(d)] /\ v[i + 1] = f[i + 1 .. Len(d)]
    BY <2>1
  <2> HIDE DEF v
  <2>3. QED
    BY <1>3, <2>1, <2>2
<1>7. QED
  BY <1>1, <1>5, <1>6
===============================================================================
