-------------------------- MODULE RouteTable_proofs ---------------------------
(***************************************************************************)
(* What route_table_valid establishes, for every table and every finite    *)
(* set of nodes: a table is accepted iff each destination ranks the nodes, *)
(* every entry leading to a node of the network of lower rank.             *)
(***************************************************************************)
EXTENDS RouteTable, FiniteSetTheorems, WellFoundedInduction, TLAPS

\* A set of natural numbers has a least element.
LEMMA LeastNumber ==
  ASSUME NEW S \in SUBSET Nat, S # {}
  PROVE  \E x \in S : \A y \in S : x <= y
<1> DEFINE R == {p \in Nat \X Nat : p[1] < p[2]}
<1>1. IsWellFoundedOn(R, Nat)
  <2>1. R = OpToRel(<, Nat)
    BY DEF OpToRel
  <2>2. QED
    BY <2>1, NatLessThanWellFounded
<1>2. \A x, y \in Nat : y < x => <<y, x>> \in R
  BY DEF R
<1> HIDE DEF R
<1>3. PICK x \in S : \A y \in S : ~(<<y, x>> \in R)
  BY <1>1, WFMin
<1>4. ASSUME NEW y \in S PROVE x <= y
  <2>1. x \in Nat /\ y \in Nat
    OBVIOUS
  <2>2. ~(y < x)
    BY <1>2, <1>3, <2>1
  <2>3. QED
    BY <2>1, <2>2
<1>5. QED
  BY <1>4

-------------------------------------------------------------------------------
(***************************************************************************)
(* Walks.                                                                  *)
(***************************************************************************)

\* Where a walk for d goes on from x.
Toward(t, nodes, d, x) ==
  IF x # d /\ x \in nodes /\ HasEntry(t, x, d) THEN t[x][d] ELSE x

IsWalk(w, t, nodes, s, d, n) ==
  w = [h \in 0 .. n |-> IF h = 0 THEN s ELSE Toward(t, nodes, d, w[h - 1])]

ReachesIn(t, nodes, s, d, n) == \E w : IsWalk(w, t, nodes, s, d, n) /\ w[n] = d

\* The hops it takes to get from s to d.
IsHops(t, nodes, s, d, n) ==
  n \in Nat /\ ReachesIn(t, nodes, s, d, n) /\ \A k \in 0 .. n - 1 : ~ReachesIn(t, nodes, s, d, k)
Hops(t, nodes, s, d) == CHOOSE n \in Nat : IsHops(t, nodes, s, d, n)

Steps(w, t, nodes, s, d, n) ==
  /\ w = [h \in 0 .. n |-> w[h]] /\ w[0] = s
  /\ \A h \in 1 .. n : w[h] = Toward(t, nodes, d, w[h - 1])

LEMMA WalkFacts ==
  ASSUME NEW t, NEW nodes, NEW s, NEW d, NEW n \in Nat, NEW w
  PROVE  IsWalk(w, t, nodes, s, d, n) <=> Steps(w, t, nodes, s, d, n)
<1> DEFINE T(x) == Toward(t, nodes, d, x)
           f == [h \in 0 .. n |-> IF h = 0 THEN s ELSE T(w[h - 1])]
<1>1. IsWalk(w, t, nodes, s, d, n) <=> w = f
  BY DEF IsWalk
<1>2. DOMAIN f = 0 .. n /\ f[0] = s /\ \A h \in 1 .. n : f[h] = T(w[h - 1])
  <2> HIDE DEF T
  <2>1. 0 \in 0 .. n /\ \A h \in 1 .. n : h \in 0 .. n /\ h # 0
    OBVIOUS
  <2>2. QED
    BY <2>1
<1>3. f = [h \in 0 .. n |-> f[h]]
  OBVIOUS
<1> HIDE DEF f, T
<1>4. ASSUME w = f
      PROVE  w = [h \in 0 .. n |-> w[h]] /\ w[0] = s /\ \A h \in 1 .. n : w[h] = T(w[h - 1])
  BY <1>2, <1>3, <1>4
<1>5. ASSUME w = [h \in 0 .. n |-> w[h]], w[0] = s, \A h \in 1 .. n : w[h] = T(w[h - 1])
      PROVE  w = f
  <2>1. \A h \in 0 .. n : h = 0 \/ h \in 1 .. n
    OBVIOUS
  <2>2. \A h \in 0 .. n : w[h] = f[h]
    BY <1>2, <1>5, <2>1
  <2>3. QED
    BY <1>3, <1>5, <2>2
<1>6. QED
  BY <1>1, <1>4, <1>5 DEF T, Steps

\* There is a walk of every length from every place.
LEMMA WalkExists ==
  ASSUME NEW t, NEW nodes, NEW s, NEW d, NEW n \in Nat
  PROVE  \E w : IsWalk(w, t, nodes, s, d, n)
<1> DEFINE W(k) == \E w : IsWalk(w, t, nodes, s, d, k)
           S == {k \in Nat : ~W(k)}
<1>1. W(0)
  <2> DEFINE w == [h \in 0 .. 0 |-> s]
  <2>1. /\ w = [h \in 0 .. 0 |-> w[h]] /\ w[0] = s
        /\ \A h \in 1 .. 0 : w[h] = Toward(t, nodes, d, w[h - 1])
    OBVIOUS
  <2> HIDE DEF w
  <2>2. Steps(w, t, nodes, s, d, 0)
    BY <2>1 DEF Steps
  <2>3. IsWalk(w, t, nodes, s, d, 0)
    BY <2>2, WalkFacts
  <2>4. QED
    BY <2>3
<1>2. ASSUME NEW k \in Nat, W(k) PROVE W(k + 1)
  <2>1. PICK v : IsWalk(v, t, nodes, s, d, k)
    BY <1>2
  <2>2. v[0] = s /\ \A h \in 1 .. k : v[h] = Toward(t, nodes, d, v[h - 1])
    <3>1. Steps(v, t, nodes, s, d, k)
      BY <2>1, WalkFacts
    <3>2. QED
      BY <3>1 DEF Steps
  <2> DEFINE w == [h \in 0 .. k + 1 |-> IF h = k + 1 THEN Toward(t, nodes, d, v[k]) ELSE v[h]]
  <2>3. k + 1 \in Nat /\ w = [h \in 0 .. k + 1 |-> w[h]]
    OBVIOUS
  <2>4. w[0] = s
    <3>1. 0 \in 0 .. k + 1 /\ 0 # k + 1
      OBVIOUS
    <3>2. QED
      BY <2>2, <3>1
  <2>5. ASSUME NEW h \in 1 .. k + 1 PROVE w[h] = Toward(t, nodes, d, w[h - 1])
    <3>1. h - 1 \in 0 .. k + 1 /\ h - 1 # k + 1 /\ h \in 0 .. k + 1
      OBVIOUS
    <3>2. w[h - 1] = v[h - 1]
      BY <3>1
    <3>3. CASE h = k + 1
      BY <3>1, <3>2, <3>3
    <3>4. CASE h # k + 1
      <4>1. h \in 1 .. k
        BY <3>4
      <4>2. w[h] = v[h]
        BY <3>1, <3>4
      <4>3. QED
        BY <2>2, <3>2, <4>1, <4>2
    <3>5. QED
      BY <3>3, <3>4
  <2> HIDE DEF w
  <2>6. Steps(w, t, nodes, s, d, k + 1)
    BY <2>3, <2>4, <2>5 DEF Steps
  <2>7. IsWalk(w, t, nodes, s, d, k + 1)
    BY <2>3, <2>6, WalkFacts
  <2>8. QED
    BY <2>7
<1> HIDE DEF W
<1>3. S = {}
  <2> SUFFICES ASSUME S # {} PROVE FALSE
    OBVIOUS
  <2>1. PICK k \in S : \A y \in S : k <= y
    BY LeastNumber
  <2>2. k \in Nat /\ k # 0
    BY <1>1, <2>1
  <2>3. k - 1 \in Nat /\ ~(k <= k - 1) /\ (k - 1) + 1 = k
    BY <2>2
  <2>4. W(k - 1)
    BY <2>1, <2>3
  <2>5. W((k - 1) + 1)
    BY <1>2, <2>3, <2>4
  <2>6. QED
    BY <2>1, <2>3, <2>5
<1>4. QED
  BY <1>3 DEF W

\* The walk of the code is one of them.
LEMMA ReachesFacts ==
  ASSUME NEW t, NEW nodes, NEW s, NEW d, Cardinality(nodes) \in Nat
  PROVE  \E w : /\ IsWalk(w, t, nodes, s, d, Cardinality(nodes))
                /\ Reaches(t, nodes, s, d) <=> w[Cardinality(nodes)] = d
<1> DEFINE n == Cardinality(nodes)
           walk == CHOOSE w : w = [h \in 0 .. n |-> IF h = 0 THEN s ELSE Toward(t, nodes, d, w[h - 1])]
<1>1. \E w : w = [h \in 0 .. n |-> IF h = 0 THEN s ELSE Toward(t, nodes, d, w[h - 1])]
  <2> HIDE DEF n, walk
  <2>1. n \in Nat
    BY DEF n
  <2>2. PICK w : IsWalk(w, t, nodes, s, d, n)
    BY <2>1, WalkExists
  <2>3. QED
    BY <2>2 DEF IsWalk
<1>2. IsWalk(walk, t, nodes, s, d, n)
  BY <1>1 DEF IsWalk
<1>3. Reaches(t, nodes, s, d) <=> walk[n] = d
  BY DEF Reaches, Toward
<1>4. QED
  BY <1>2, <1>3
\* A walk of k + 1 hops is a hop and a walk of k hops.
LEMMA ReachesStep ==
  ASSUME NEW t, NEW nodes, NEW s, NEW d, NEW k \in Nat
  PROVE  /\ ReachesIn(t, nodes, s, d, k + 1) <=> ReachesIn(t, nodes, Toward(t, nodes, d, s), d, k)
         /\ ReachesIn(t, nodes, s, d, 0) <=> s = d
<1> DEFINE T(x) == Toward(t, nodes, d, x)
<1>0. k + 1 \in Nat /\ 0 \in 0 .. k /\ 0 \in 0 .. k + 1 /\ k \in 0 .. k /\ k + 1 \in 0 .. k + 1
      /\ 1 \in 1 .. k + 1 /\ 1 - 1 = 0 /\ (k + 1) - 1 = k /\ k + 1 # 0
  OBVIOUS
<1>1. ASSUME ReachesIn(t, nodes, s, d, k + 1) PROVE ReachesIn(t, nodes, T(s), d, k)
  <2>1. PICK w : IsWalk(w, t, nodes, s, d, k + 1) /\ w[k + 1] = d
    BY <1>1 DEF ReachesIn
  <2>2. Steps(w, t, nodes, s, d, k + 1)
    BY <1>0, <2>1, WalkFacts
  <2>3. w[0] = s /\ \A h \in 1 .. k + 1 : w[h] = T(w[h - 1])
    BY <2>2 DEF Steps
  <2> DEFINE v == [h \in 0 .. k |-> w[h + 1]]
  <2>4. v = [h \in 0 .. k |-> v[h]] /\ v[k] = d
    BY <1>0, <2>1
  <2>5. v[0] = T(s)
    BY <1>0, <2>3
  <2>6. ASSUME NEW h \in 1 .. k PROVE v[h] = T(v[h - 1])
    <3>1. h \in 0 .. k /\ h - 1 \in 0 .. k /\ (h - 1) + 1 = h /\ h + 1 \in 1 .. k + 1 /\ (h + 1) - 1 = h
      OBVIOUS
    <3>2. v[h] = w[h + 1] /\ v[h - 1] = w[h]
      BY <3>1
    <3>3. w[h + 1] = T(w[h])
      BY <2>3, <3>1
    <3>4. QED
      BY <3>2, <3>3
  <2> HIDE DEF v
  <2>7. Steps(v, t, nodes, T(s), d, k)
    BY <2>4, <2>5, <2>6 DEF Steps
  <2> HIDE DEF T
  <2>8. IsWalk(v, t, nodes, T(s), d, k)
    BY <2>7, WalkFacts
  <2>9. QED
    BY <2>4, <2>8 DEF ReachesIn
<1>2. ASSUME ReachesIn(t, nodes, T(s), d, k) PROVE ReachesIn(t, nodes, s, d, k + 1)
  <2>1. PICK v : IsWalk(v, t, nodes, T(s), d, k) /\ v[k] = d
    BY <1>2 DEF ReachesIn
  <2>2. Steps(v, t, nodes, T(s), d, k)
    <3> HIDE DEF T
    <3>1. QED
      BY <2>1, WalkFacts
  <2>3. v[0] = T(s) /\ \A h \in 1 .. k : v[h] = T(v[h - 1])
    BY <2>2 DEF Steps
  <2> DEFINE w == [h \in 0 .. k + 1 |-> IF h = 0 THEN s ELSE v[h - 1]]
  <2>4. w = [h \in 0 .. k + 1 |-> w[h]] /\ w[k + 1] = d /\ w[0] = s
    BY <1>0, <2>1
  <2>5. ASSUME NEW h \in 1 .. k + 1 PROVE w[h] = T(w[h - 1])
    <3>1. h \in 0 .. k + 1 /\ h - 1 \in 0 .. k + 1 /\ h # 0 /\ (h = 1 \/ h - 1 \in 1 .. k)
      OBVIOUS
    <3>2. w[h] = v[h - 1]
      BY <3>1
    <3>3. CASE h = 1
      BY <1>0, <2>3, <2>4, <3>2, <3>3
    <3>4. CASE h - 1 \in 1 .. k
      <4>1. h - 1 # 0
        BY <3>4
      <4>2. w[h - 1] = v[(h - 1) - 1]
        BY <3>1, <4>1
      <4>3. QED
        BY <2>3, <3>2, <3>4, <4>2
    <3>5. QED
      BY <3>1, <3>3, <3>4
  <2> HIDE DEF w
  <2>6. Steps(w, t, nodes, s, d, k + 1)
    BY <2>4, <2>5 DEF Steps
  <2>7. IsWalk(w, t, nodes, s, d, k + 1)
    BY <1>0, <2>6, WalkFacts
  <2>8. QED
    BY <2>4, <2>7 DEF ReachesIn
<1>3. ReachesIn(t, nodes, s, d, 0) <=> s = d
  <2>1. \A w : IsWalk(w, t, nodes, s, d, 0) => w[0] = s
    <3>1. ASSUME NEW w, IsWalk(w, t, nodes, s, d, 0) PROVE w[0] = s
      <4>1. Steps(w, t, nodes, s, d, 0)
        BY <3>1, WalkFacts
      <4>2. QED
        BY <4>1 DEF Steps
    <3>2. QED
      BY <3>1
  <2>2. \E w : IsWalk(w, t, nodes, s, d, 0)
    BY WalkExists
  <2>3. QED
    BY <2>1, <2>2 DEF ReachesIn
<1>4. QED
  BY <1>1, <1>2, <1>3

\* What can be reached is reached in a least number of hops.
LEMMA HopsLeast ==
  ASSUME NEW t, NEW nodes, NEW s, NEW d, NEW n \in Nat, ReachesIn(t, nodes, s, d, n)
  PROVE  /\ IsHops(t, nodes, s, d, Hops(t, nodes, s, d)) /\ Hops(t, nodes, s, d) \in 0 .. n
         /\ \A k \in Nat : IsHops(t, nodes, s, d, k) => k = Hops(t, nodes, s, d)
<1> DEFINE R(k) == ReachesIn(t, nodes, s, d, k)
           S == {k \in Nat : R(k)}
<1>1. PICK m \in S : \A y \in S : m <= y
  <2> HIDE DEF R
  <2>1. n \in S
    BY DEF R
  <2>2. QED
    BY <2>1, LeastNumber
<1>2. IsHops(t, nodes, s, d, m) /\ m <= n
  <2> HIDE DEF R
  <2>1. m \in Nat /\ R(m) /\ m <= n
    BY <1>1 DEF R
  <2>2. \A k \in 0 .. m - 1 : k \in Nat /\ ~(m <= k)
    BY <2>1
  <2>3. \A k \in 0 .. m - 1 : ~R(k)
    BY <1>1, <2>2
  <2>4. QED
    BY <2>1, <2>3 DEF R, IsHops
<1>3. \A j, k \in Nat : IsHops(t, nodes, s, d, j) /\ IsHops(t, nodes, s, d, k) => j = k
  <2> SUFFICES ASSUME NEW j \in Nat, NEW k \in Nat,
                      IsHops(t, nodes, s, d, j), IsHops(t, nodes, s, d, k), j # k
               PROVE  FALSE
    OBVIOUS
  <2>1. j \in 0 .. k - 1 \/ k \in 0 .. j - 1
    OBVIOUS
  <2>2. QED
    BY <2>1 DEF IsHops
<1>4. IsHops(t, nodes, s, d, Hops(t, nodes, s, d)) /\ Hops(t, nodes, s, d) \in Nat
  BY <1>1, <1>2 DEF Hops
<1>5. QED
  BY <1>1, <1>2, <1>3, <1>4
-------------------------------------------------------------------------------
(***************************************************************************)
(* Accepted tables.                                                        *)
(***************************************************************************)

\* A walk that gets to d moves at every place but d.
LEMMA WalkMoves ==
  ASSUME NEW t, NEW nodes, NEW s, NEW d, NEW n \in Nat, ReachesIn(t, nodes, s, d, n), s # d
  PROVE  LET h == Hops(t, nodes, s, d) IN
         /\ s \in nodes /\ HasEntry(t, s, d) /\ Toward(t, nodes, d, s) = t[s][d]
         /\ h \in 1 .. n /\ IsHops(t, nodes, t[s][d], d, h - 1)
<1> DEFINE h == Hops(t, nodes, s, d)
           u == Toward(t, nodes, d, s)
<1>1. IsHops(t, nodes, s, d, h) /\ h \in 0 .. n
  <2> HIDE DEF h
  <2>1. QED
    BY HopsLeast DEF h
<1> HIDE DEF h, u
<1>2. h # 0
  <2>1. ~ReachesIn(t, nodes, s, d, 0)
    BY ReachesStep
  <2>2. QED
    BY <1>1, <2>1 DEF IsHops
<1>3. h - 1 \in Nat /\ (h - 1) + 1 = h /\ h - 1 \in 0 .. h - 1
  BY <1>1, <1>2
<1>4. ReachesIn(t, nodes, u, d, h - 1)
  <2>1. ReachesIn(t, nodes, s, d, (h - 1) + 1)
    BY <1>1, <1>3 DEF IsHops
  <2>2. QED
    BY <1>3, <2>1, ReachesStep DEF u
<1>5. u # s
  BY <1>1, <1>3, <1>4 DEF IsHops
<1>6. s \in nodes /\ HasEntry(t, s, d) /\ u = t[s][d]
  BY <1>5 DEF u, Toward
<1>7. ASSUME NEW k \in 0 .. (h - 1) - 1, ReachesIn(t, nodes, u, d, k) PROVE FALSE
  <2>1. k \in Nat /\ k + 1 \in 0 .. h - 1
    BY <1>1
  <2>2. ReachesIn(t, nodes, s, d, k + 1)
    BY <1>7, <2>1, ReachesStep DEF u
  <2>3. QED
    BY <1>1, <2>1, <2>2 DEF IsHops
<1>8. IsHops(t, nodes, u, d, h - 1)
  BY <1>3, <1>4, <1>7 DEF IsHops
<1>9. QED
  BY <1>1, <1>2, <1>6, <1>8 DEF h, u

\* So every hop leads to a node one hop nearer.
LEMMA OneNearer ==
  ASSUME NEW t, NEW nodes, NEW d \in nodes, NEW s, NEW n \in Nat,
         ReachesIn(t, nodes, s, d, n), s # d
  PROVE  /\ s \in nodes /\ HasEntry(t, s, d) /\ t[s][d] \in nodes
         /\ Hops(t, nodes, s, d) \in 1 .. n
         /\ Hops(t, nodes, t[s][d], d) = Hops(t, nodes, s, d) - 1
<1> DEFINE h == Hops(t, nodes, s, d)
           u == t[s][d]
<1>1. s \in nodes /\ HasEntry(t, s, d) /\ h \in 1 .. n /\ IsHops(t, nodes, u, d, h - 1)
  BY WalkMoves
<1> HIDE DEF h, u
<1>2. h - 1 \in Nat /\ ReachesIn(t, nodes, u, d, h - 1)
  BY <1>1 DEF IsHops
<1>3. Hops(t, nodes, u, d) = h - 1
  BY <1>1, <1>2, HopsLeast
<1>4. u \in nodes
  <2>1. CASE u = d
    BY <2>1
  <2>2. CASE u # d
    BY <1>2, <2>2, WalkMoves
  <2>3. QED
    BY <2>1, <2>2
<1>5. QED
  BY <1>1, <1>3, <1>4 DEF h, u

LEMMA ValidReaches ==
  ASSUME NEW nodes, IsFiniteSet(nodes), NEW t, Valid(t, nodes), NEW d \in nodes, NEW s \in nodes
  PROVE  Cardinality(nodes) \in Nat /\ ReachesIn(t, nodes, s, d, Cardinality(nodes))
<1>1. Cardinality(nodes) \in Nat
  BY FS_CardinalityType
<1>2. PICK w : /\ IsWalk(w, t, nodes, s, d, Cardinality(nodes))
               /\ Reaches(t, nodes, s, d) <=> w[Cardinality(nodes)] = d
  BY <1>1, ReachesFacts
<1>3. QED
  BY <1>1, <1>2 DEF Valid, ReachesIn

\* Every node but the destination has an entry, which leads one hop nearer.
LEMMA ValidHops ==
  ASSUME NEW nodes, IsFiniteSet(nodes), NEW t, Valid(t, nodes), NEW d \in nodes, NEW s \in nodes
  PROVE  /\ Hops(t, nodes, s, d) \in Nat
         /\ Hops(t, nodes, s, d) = 0 <=> s = d
         /\ s # d => /\ HasEntry(t, s, d) /\ t[s][d] \in nodes
                     /\ Hops(t, nodes, s, d) # 0
                     /\ Hops(t, nodes, t[s][d], d) = Hops(t, nodes, s, d) - 1
<1> DEFINE h == Hops(t, nodes, s, d)
           n == Cardinality(nodes)
<1>1. n \in Nat /\ ReachesIn(t, nodes, s, d, n)
  BY ValidReaches
<1> HIDE DEF n
<1>2. IsHops(t, nodes, s, d, h) /\ h \in Nat
  <2> HIDE DEF h
  <2>1. QED
    BY <1>1, HopsLeast DEF h
<1>3. CASE s # d
  <2>1. HasEntry(t, s, d) /\ t[s][d] \in nodes /\ h \in 1 .. n /\ Hops(t, nodes, t[s][d], d) = h - 1
    BY <1>1, <1>3, OneNearer
  <2>2. QED
    BY <1>3, <2>1
<1>4. CASE s = d
  <2>1. ReachesIn(t, nodes, s, d, 0)
    BY <1>4, ReachesStep
  <2> HIDE DEF h
  <2>2. ~(0 \in 0 .. h - 1)
    BY <1>2, <2>1 DEF IsHops
  <2>3. h = 0
    BY <1>2, <2>2
  <2>4. QED
    BY <1>4, <2>3 DEF h
<1>5. QED
  BY <1>3, <1>4

\* A ranking of the nodes for a destination.
IsRank(rank, t, nodes, d) ==
  /\ rank \in [nodes -> 0 .. Cardinality(nodes) - 1]
  /\ \A s \in nodes \ {d} :
       HasEntry(t, s, d) /\ t[s][d] \in nodes /\ rank[t[s][d]] < rank[s]

\* There are fewer hops to a node than nodes, as the nodes on the way differ.
LEMMA HopsBounded ==
  ASSUME NEW nodes, IsFiniteSet(nodes), NEW t, Valid(t, nodes), NEW d \in nodes, NEW s \in nodes
  PROVE  Hops(t, nodes, s, d) \in 0 .. Cardinality(nodes) - 1
<1> DEFINE f == [x \in nodes |-> Hops(t, nodes, x, d)]
           D == {f[x] : x \in nodes}
           n == f[s]
<1>1. f \in [nodes -> Nat] /\ f \in [nodes -> D]
  BY ValidHops
<1>2. ASSUME NEW x \in nodes, f[x] # 0 PROVE f[x] - 1 \in D
  <2>1. x # d
    BY <1>2, ValidHops
  <2>2. t[x][d] \in nodes /\ f[t[x][d]] = f[x] - 1
    BY <2>1, ValidHops
  <2>3. QED
    BY <2>2
<1>3. IsFiniteSet(D) /\ Cardinality(D) <= Cardinality(nodes)
  <2>1. f \in Surjection(nodes, D)
    BY <1>1 DEF Surjection
  <2> HIDE DEF f, D
  <2>2. QED
    BY <2>1, FS_Surjection
<1>4. n \in Nat /\ n \in D
  BY <1>1
<1> HIDE DEF f, n
<1>5. 0 .. n \subseteq D
  <2> DEFINE S == {k \in 0 .. n : n - k \notin D}
  <2> SUFFICES ASSUME S # {} PROVE FALSE
    <3>1. ASSUME NEW k \in 0 .. n, S = {} PROVE k \in D
      <4>1. n - k \in 0 .. n /\ n - (n - k) = k
        BY <1>4
      <4>2. QED
        BY <3>1, <4>1
    <3>2. QED
      BY <3>1
  <2>1. S \in SUBSET Nat
    OBVIOUS
  <2>2. PICK k \in S : \A y \in S : k <= y
    BY <2>1, LeastNumber
  <2>3. k \in 0 .. n /\ n - k \notin D
    OBVIOUS
  <2>4. k # 0
    BY <1>4, <2>3
  <2>5. k - 1 \in 0 .. n /\ ~(k <= k - 1) /\ n - (k - 1) # 0 /\ (n - (k - 1)) - 1 = n - k
    BY <1>4, <2>3, <2>4
  <2>6. n - (k - 1) \in D
    BY <2>2, <2>5
  <2>7. PICK x \in nodes : f[x] = n - (k - 1)
    BY <2>6
  <2>8. QED
    BY <1>2, <2>3, <2>5, <2>7
<1>6. Cardinality(0 .. n) = n + 1 /\ Cardinality(0 .. n) <= Cardinality(D)
  <2> HIDE DEF D
  <2>1. 0 \in Int /\ n \in Int
    BY <1>4
  <2>2. Cardinality(0 .. n) = IF 0 > n THEN 0 ELSE n - 0 + 1
    BY <2>1, FS_Interval, Zenon
  <2>3. Cardinality(0 .. n) <= Cardinality(D)
    BY <1>3, <1>5, FS_Subset
  <2>4. QED
    BY <1>4, <2>2, <2>3
<1>7. Cardinality(nodes) \in Nat /\ Cardinality(D) \in Nat
  <2> HIDE DEF D
  <2>1. QED
    BY <1>3, FS_CardinalityType
<1>8. n \in 0 .. Cardinality(nodes) - 1
  <2> HIDE DEF D
  <2>1. QED
    BY <1>3, <1>4, <1>6, <1>7
<1>9. QED
  BY <1>8 DEF n, f

\* An accepted table ranks the nodes, and a table that ranks them leads everywhere.
LEMMA ValidRanks ==
  ASSUME NEW nodes, IsFiniteSet(nodes), NEW t, Valid(t, nodes), NEW d \in nodes
  PROVE  \E rank : IsRank(rank, t, nodes, d)
<1> DEFINE f == [x \in nodes |-> Hops(t, nodes, x, d)]
<1>1. f \in [nodes -> 0 .. Cardinality(nodes) - 1]
  BY HopsBounded
<1>2. ASSUME NEW s \in nodes \ {d}
      PROVE  HasEntry(t, s, d) /\ t[s][d] \in nodes /\ f[t[s][d]] < f[s]
  <2>1. HasEntry(t, s, d) /\ t[s][d] \in nodes /\ f[t[s][d]] = f[s] - 1
    BY ValidHops
  <2>2. f[s] \in Nat
    BY ValidHops
  <2>3. QED
    BY <2>1, <2>2
<1>3. IsRank(f, t, nodes, d)
  <2> HIDE DEF f
  <2>1. QED
    BY <1>1, <1>2 DEF IsRank
<1>4. QED
  BY <1>3

LEMMA RankedReaches ==
  ASSUME NEW nodes, IsFiniteSet(nodes), NEW t, NEW d \in nodes, NEW s \in nodes,
         NEW rank, IsRank(rank, t, nodes, d)
  PROVE  Reaches(t, nodes, s, d)
<1> DEFINE n == Cardinality(nodes)
<1>1. n \in Nat
  BY FS_CardinalityType
<1>2. PICK w : IsWalk(w, t, nodes, s, d, n) /\ (Reaches(t, nodes, s, d) <=> w[n] = d)
  BY <1>1, ReachesFacts
<1> HIDE DEF n
<1>3. Steps(w, t, nodes, s, d, n)
  BY <1>1, <1>2, WalkFacts
<1>4. w[0] = s /\ \A h \in 1 .. n : w[h] = Toward(t, nodes, d, w[h - 1])
  BY <1>3 DEF Steps
<1>5. /\ rank \in [nodes -> 0 .. n - 1]
      /\ \A x \in nodes \ {d} : HasEntry(t, x, d) /\ t[x][d] \in nodes /\ rank[t[x][d]] < rank[x]
  BY DEF IsRank, n
<1> DEFINE Near(h) == w[h] \in nodes /\ rank[w[h]] + h <= n - 1
           S == {h \in 0 .. n : ~(w[h] = d \/ Near(h))}
<1>6. S = {}
  <2> SUFFICES ASSUME S # {} PROVE FALSE
    OBVIOUS
  <2>1. S \in SUBSET Nat
    OBVIOUS
  <2>2. PICK h \in S : \A y \in S : h <= y
    BY <2>1, LeastNumber
  <2>3. h \in 0 .. n /\ w[h] # d /\ ~Near(h)
    OBVIOUS
  <2>4. h # 0
    <3>1. rank[s] \in 0 .. n - 1
      BY <1>5
    <3>2. QED
      BY <1>1, <1>4, <2>3, <3>1
  <2>5. h \in 1 .. n /\ h - 1 \in 0 .. n /\ ~(h <= h - 1)
    BY <1>1, <2>3, <2>4
  <2>6. w[h - 1] = d \/ Near(h - 1)
    BY <2>2, <2>5
  <2>7. w[h] = Toward(t, nodes, d, w[h - 1])
    BY <1>4, <2>5
  <2>8. w[h - 1] # d
    BY <2>3, <2>7 DEF Toward
  <2>9. w[h - 1] \in nodes \ {d} /\ rank[w[h - 1]] + (h - 1) <= n - 1
    BY <2>6, <2>8
  <2>10. w[h] = t[w[h - 1]][d] /\ w[h] \in nodes /\ rank[w[h]] < rank[w[h - 1]]
    BY <1>5, <2>7, <2>9 DEF Toward
  <2>11. rank[w[h]] \in Int /\ rank[w[h - 1]] \in Int
    BY <1>5, <2>9, <2>10
  <2>12. rank[w[h]] + h <= n - 1
    BY <1>1, <2>5, <2>9, <2>10, <2>11
  <2>13. QED
    BY <2>3, <2>10, <2>12
<1>7. w[n] = d
  <2>1. w[n] = d \/ Near(n)
    BY <1>1, <1>6
  <2>2. ASSUME Near(n) PROVE FALSE
    <3>1. rank[w[n]] \in 0 .. n - 1 /\ rank[w[n]] + n <= n - 1
      BY <1>5, <2>2
    <3>2. QED
      BY <1>1, <3>1
  <2>3. QED
    BY <2>1, <2>2
<1>8. QED
  BY <1>2, <1>7
===============================================================================
