--------------------------- MODULE RouteWalk_proofs ---------------------------
(***************************************************************************)
(* Proofs about routing tables and the walks of packets: for every size of *)
(* network and every sequence of edits, route_table_valid accepts exactly  *)
(* the tables without loops, dead ends and ways out of the network.        *)
(***************************************************************************)
EXTENDS RouteWalk, RouteTable_proofs, SequenceTheorems

LEMMA NodeFacts ==
  ASSUME topology \in Topology
  PROVE  /\ topology.x \in Nat \ {0} /\ topology.y \in Nat \ {0} /\ topology.x * topology.y \in Nat
         /\ Node = 0 .. topology.x * topology.y - 1 /\ IsFiniteSet(Node)
<1>1. topology.x \in Nat \ {0} /\ topology.y \in Nat \ {0}
  <2> DEFINE P == Nat \ {0}
             A == [kind : {"single ring", "double ring"}, x : Rings, y : {1}]
             B == [kind : {"edited ring"}, x : Edited, y : {1}]
             C == [kind : {"mesh", "double mesh"}, x : Widths, y : Heights]
  <2>1. /\ Rings \subseteq P /\ Edited \subseteq P /\ 1 \in P
        /\ Widths \subseteq P /\ Heights \subseteq P
    BY SizesAssumption
  <2> HIDE DEF P
  <2>2. \A r \in A : r.x \in P /\ r.y \in P
    BY <2>1
  <2>3. \A r \in B : r.x \in P /\ r.y \in P
    BY <2>1
  <2>4. \A r \in C : r.x \in P /\ r.y \in P
    BY <2>1
  <2>5. topology \in A \cup B \cup C
    BY Zenon DEF Topology
  <2> HIDE DEF A, B, C
  <2>6. QED
    BY <2>2, <2>3, <2>4, <2>5 DEF P
<1>2. topology.x * topology.y \in Nat
  BY <1>1
<1> DEFINE n == topology.x * topology.y
<1>3. IsFiniteSet(0 .. n - 1)
  <2> HIDE DEF n
  <2>1. 0 \in Int /\ n - 1 \in Int
    BY <1>2 DEF n
  <2>2. QED
    BY <2>1, FS_Interval, Zenon
<1>4. QED
  BY <1>1, <1>2, <1>3 DEF Node

\* A packet comes one hop nearer with each hop.
Remaining(n) == Hops(table, Node, n, dst)

IInv ==
  /\ topology \in Topology
  /\ trail \in Seq(Node)
  /\ trail # <<>> => Valid(table, Node) /\ dst \in Node
  /\ \A i, j \in DOMAIN trail : i < j => Remaining(trail[j]) < Remaining(trail[i])

LEMMA DepartIInv ==
  ASSUME IInv, NEW s \in Node, NEW d \in Node, Depart(s, d)
  PROVE  IInv'
<1>1. trail' = <<s>> /\ dst' = d /\ topology' = topology /\ table' = table /\ Valid(table, Node)
  BY DEF Depart
<1>2. Node' = Node
  BY <1>1 DEF Node
<1>3. trail' \in Seq(Node) /\ DOMAIN trail' = {1}
  BY <1>1
<1>4. \A i, j \in {1} : ~(i < j)
  OBVIOUS
<1>5. QED
  BY <1>1, <1>2, <1>3, <1>4 DEF IInv, Remaining

LEMMA HopIInv ==
  ASSUME IInv, Hop
  PROVE  IInv'
<1> DEFINE n == Len(trail)
           u == table[At][dst]
<1>1. /\ topology \in Topology /\ trail \in Seq(Node) /\ trail # <<>> /\ At # dst
      /\ Valid(table, Node) /\ dst \in Node
      /\ trail' = Append(trail, u) /\ topology' = topology /\ table' = table /\ dst' = dst
  BY DEF IInv, Hop
<1>2. n \in Nat /\ n # 0 /\ DOMAIN trail = 1 .. n /\ At = trail[n] /\ At \in Node
  <2>1. n \in Nat /\ DOMAIN trail = 1 .. n /\ n # 0
    BY <1>1, LenProperties, EmptySeq
  <2>2. n \in DOMAIN trail
    BY <2>1
  <2>3. QED
    BY <1>1, <2>1, <2>2, ElementOfSeq DEF At
<1>3. u \in Node /\ Remaining(u) = Remaining(At) - 1 /\ \A x \in Node : Remaining(x) \in Nat
  <2>1. IsFiniteSet(Node)
    BY <1>1, NodeFacts
  <2>2. QED
    BY <1>1, <1>2, <2>1, ValidHops DEF Remaining
<1>4. /\ trail' \in Seq(Node) /\ DOMAIN trail' = 1 .. n + 1
      /\ trail'[n + 1] = u /\ \A i \in 1 .. n : trail'[i] = trail[i]
  <2> HIDE DEF u
  <2>1. QED
    BY <1>1, <1>2, <1>3, AppendProperties
<1>5. /\ Node' = Node /\ \A x : Remaining(x)' = Hops(table, Node, x, dst)
  BY <1>1 DEF Node, Remaining
<1> HIDE DEF n, u
<1>6. ASSUME NEW i \in 1 .. n + 1, NEW j \in 1 .. n + 1, i < j
      PROVE  Remaining(trail'[j]) < Remaining(trail'[i])
  <2>1. i \in 1 .. n /\ trail'[i] = trail[i] /\ trail[i] \in Node
    <3>1. i \in 1 .. n
      BY <1>2, <1>6
    <3>2. QED
      BY <1>1, <1>2, <1>4, <3>1, ElementOfSeq
  <2>2. CASE j = n + 1
    <3>1. i = n \/ Remaining(At) < Remaining(trail[i])
      <4>1. i = n \/ i < n
        BY <1>2, <2>1
      <4>2. n \in DOMAIN trail /\ i \in DOMAIN trail
        BY <1>2, <2>1
      <4>3. QED
        BY <1>2, <4>1, <4>2 DEF IInv
    <3>2. Remaining(At) <= Remaining(trail[i])
      BY <1>2, <1>3, <2>1, <3>1
    <3>3. Remaining(u) < Remaining(trail[i])
      BY <1>2, <1>3, <2>1, <3>2
    <3>4. QED
      BY <1>4, <2>1, <2>2, <3>3
  <2>3. CASE j # n + 1
    <3>1. j \in DOMAIN trail /\ i \in DOMAIN trail /\ trail'[j] = trail[j]
      BY <1>2, <1>4, <2>1, <2>3
    <3>2. QED
      BY <1>6, <2>1, <3>1 DEF IInv
  <2>4. QED
    BY <2>2, <2>3
<1>7. ASSUME NEW i \in DOMAIN trail', NEW j \in DOMAIN trail', i < j
      PROVE  Remaining(trail[j])' < Remaining(trail[i])'
  BY <1>1, <1>4, <1>5, <1>6, <1>7 DEF Remaining
<1>8. Valid(table, Node)' /\ dst' \in Node'
  BY <1>1, <1>5
<1>9. QED
  BY <1>1, <1>4, <1>5, <1>7, <1>8 DEF IInv

LEMMA NextIInv ==
  ASSUME IInv, [Next]_vars
  PROVE  IInv'
<1>1. CASE UNCHANGED vars
  BY <1>1 DEF IInv, vars, Node, Remaining
<1>2. ASSUME NEW s \in Node, NEW d \in Node, NEW hop \in Node \cup Stranger,
             RouteInsert(s, d, hop) \/ RouteDelete(s, d)
      PROVE  IInv'
  <2>1. trail = <<>> /\ trail' = trail /\ topology' = topology
    BY <1>2 DEF RouteInsert, RouteDelete, Editing
  <2>2. Node' = Node /\ DOMAIN trail' = {}
    BY <2>1 DEF Node
  <2>3. QED
    BY <2>1, <2>2 DEF IInv
<1>3. ASSUME NEW s \in Node, NEW d \in Node, Depart(s, d) PROVE IInv'
  BY <1>3, DepartIInv
<1>4. CASE Hop
  BY <1>4, HopIInv
<1>5. QED
  BY <1>1, <1>2, <1>3, <1>4 DEF Next

(***************************************************************************)
(* The invariant: a packet in the network is in an accepted table, and it  *)
(* has fewer hops ahead of it at every place than at the ones before.      *)
(***************************************************************************)
THEOREM Invariant == Spec => []IInv
<1>1. Init => IInv
  <2> SUFFICES ASSUME Init PROVE IInv
    OBVIOUS
  <2>1. trail = <<>> /\ DOMAIN trail = {} /\ topology \in Topology
    BY DEF Init
  <2>2. QED
    BY <2>1 DEF IInv
<1>2. IInv /\ [Next]_vars => IInv'
  BY NextIInv
<1>3. QED
  BY <1>1, <1>2, PTL DEF Spec

\* The walk of the validation with the ranking of the property.
LEMMA AcceptsRanked ==
  ASSUME topology \in Topology
  PROVE  Valid(table, Node) <=> \A d \in Node : Ranked(d)
<1>1. IsFiniteSet(Node)
  BY NodeFacts
<1>2. ASSUME NEW d \in Node PROVE Ranked(d) <=> \E rank : IsRank(rank, table, Node, d)
  BY DEF Ranked, IsRank
<1>3. ASSUME Valid(table, Node), NEW d \in Node PROVE Ranked(d)
  BY <1>1, <1>2, <1>3, ValidRanks
<1>4. ASSUME \A d \in Node : Ranked(d) PROVE Valid(table, Node)
  <2> SUFFICES ASSUME NEW s \in Node, NEW d \in Node PROVE Reaches(table, Node, s, d)
    BY DEF Valid
  <2>1. PICK rank : IsRank(rank, table, Node, d)
    BY <1>2, <1>4
  <2>2. QED
    BY <1>1, <2>1, RankedReaches
<1>5. QED
  BY <1>3, <1>4

(***************************************************************************)
(* The bounded walk of route_table_valid is a full check for loops, dead   *)
(* ends and ways out of the network, for every network and after every     *)
(* sequence of insertions and deletions; and in a network that accepted    *)
(* its table no packet meets a node twice or makes next_hop throw.         *)
(***************************************************************************)
THEOREM LoopFree == Spec => []ValidIsLoopFree
<1>1. IInv => ValidIsLoopFree
  <2> SUFFICES ASSUME IInv PROVE ValidIsLoopFree
    OBVIOUS
  <2>1. topology \in Topology /\ trail \in Seq(Node)
    BY DEF IInv
  <2>2. Valid(table, Node) <=> \A d \in Node : Ranked(d)
    BY <2>1, AcceptsRanked
  <2>3. \A i \in DOMAIN trail : trail[i] \in Node
    BY <2>1
  <2>4. ASSUME NEW i \in DOMAIN trail, NEW j \in DOMAIN trail, i # j
        PROVE  trail[i] # trail[j]
    <3>1. i \in Nat /\ j \in Nat
      BY <2>1, LenProperties
    <3>2. i < j \/ j < i
      BY <2>4, <3>1
    <3>3. Remaining(trail[j]) < Remaining(trail[i]) \/ Remaining(trail[i]) < Remaining(trail[j])
      BY <3>2 DEF IInv
    <3>4. Remaining(trail[i]) \in Nat
      <4>1. trail # <<>>
        OBVIOUS
      <4>2. IsFiniteSet(Node)
        BY <2>1, NodeFacts
      <4>3. QED
        BY <2>3, <4>1, <4>2, ValidHops DEF IInv, Remaining
    <3>5. ~(Remaining(trail[i]) < Remaining(trail[i]))
      BY <3>4
    <3>6. QED
      BY <3>3, <3>5
  <2>5. QED
    BY <2>2, <2>3, <2>4 DEF ValidIsLoopFree
<1>2. QED
  BY <1>1, Invariant, PTL
-------------------------------------------------------------------------------
(***************************************************************************)
(* Circles and tori.                                                       *)
(***************************************************************************)

LEMMA ModFacts ==
  ASSUME NEW n \in Nat \ {0}, NEW a \in Int, a \in -n .. n
  PROVE  /\ a < 0 => a % n = a + n
         /\ 0 <= a /\ a < n => a % n = a
         /\ a = n => a % n = 0
<1>1. a < 0 => a % n = a + n
  OBVIOUS
<1>2. 0 <= a /\ a < n => a % n = a
  OBVIOUS
<1>3. a = n => a % n = 0
  OBVIOUS
<1>4. QED
  BY <1>1, <1>2, <1>3

LEMMA SmallDivision ==
  ASSUME NEW n \in Nat \ {0}, NEW a \in 0 .. n - 1
  PROVE  a % n = a /\ a \div n = 0 /\ a + 0 * n = a
OBVIOUS

LEMMA OneRow ==
  ASSUME NEW n \in Nat \ {0}
  PROVE  n * 1 = n
OBVIOUS

\* Around a circle each step brings one nearer.
LEMMA StepNearer ==
  ASSUME NEW n \in Nat \ {0}, NEW i \in 0 .. n - 1, NEW j \in 0 .. n - 1, NEW double \in BOOLEAN
  PROVE  /\ Around(i, j, n, double) \in 0 .. n - 1
         /\ Around(i, i, n, double) = 0
         /\ i # j => /\ StepTowards(i, j, n, double) \in 0 .. n - 1
                     /\ Around(StepTowards(i, j, n, double), j, n, double)
                          = Around(i, j, n, double) - 1
<1> DEFINE Ahead(k) == IF k <= j THEN j - k ELSE j - k + n
           Back(k) == IF j <= k THEN k - j ELSE k - j + n
           up == IF i = n - 1 THEN 0 ELSE i + 1
           down == IF i = 0 THEN n - 1 ELSE i - 1
<1>1. ASSUME NEW k \in 0 .. n - 1 PROVE (j - k) % n = Ahead(k) /\ (k - j) % n = Back(k)
  <2>1. j - k \in Int /\ j - k \in -n .. n /\ k - j \in Int /\ k - j \in -n .. n
    OBVIOUS
  <2>2. (j - k < 0 => (j - k) % n = j - k + n) /\ (0 <= j - k /\ j - k < n => (j - k) % n = j - k)
    BY <2>1, ModFacts
  <2>3. (k - j < 0 => (k - j) % n = k - j + n) /\ (0 <= k - j /\ k - j < n => (k - j) % n = k - j)
    BY <2>1, ModFacts
  <2>4. QED
    BY <2>2, <2>3
<1>2. (i + 1) % n = up /\ (i - 1) % n = down /\ up \in 0 .. n - 1 /\ down \in 0 .. n - 1
  <2>1. i + 1 \in Int /\ i + 1 \in -n .. n /\ i - 1 \in Int /\ i - 1 \in -n .. n
    OBVIOUS
  <2>2. (0 <= i + 1 /\ i + 1 < n => (i + 1) % n = i + 1) /\ (i + 1 = n => (i + 1) % n = 0)
    BY <2>1, ModFacts
  <2>3. (i - 1 < 0 => (i - 1) % n = i - 1 + n) /\ (0 <= i - 1 /\ i - 1 < n => (i - 1) % n = i - 1)
    BY <2>1, ModFacts
  <2>4. QED
    BY <2>2, <2>3
<1>3. \A k \in 0 .. n - 1 :
        Around(k, j, n, double) = IF double /\ Back(k) < Ahead(k) THEN Back(k) ELSE Ahead(k)
  BY <1>1, Zenon DEF Around
<1>4. StepTowards(i, j, n, double) = IF double /\ Back(i) < Ahead(i) THEN down ELSE up
  <2> HIDE DEF up, down, Ahead, Back
  <2>1. QED
    BY <1>1, <1>2, Zenon DEF StepTowards
<1>5. Around(i, j, n, double) \in 0 .. n - 1
  BY <1>3
<1>6. Around(i, i, n, double) = 0
  <2>1. i - i \in Int /\ i - i \in -n .. n /\ i - i = 0
    OBVIOUS
  <2>2. (i - i) % n = 0
    BY <2>1, ModFacts
  <2>3. QED
    BY <2>2 DEF Around
<1>7. ASSUME i # j, double /\ Back(i) < Ahead(i)
      PROVE  Around(down, j, n, double) = Around(i, j, n, double) - 1
  <2>1. Around(i, j, n, double) = Back(i)
    BY <1>3, <1>7
  <2>2. Back(down) = Back(i) - 1 /\ (Back(down) < Ahead(down) \/ Back(down) = Ahead(down))
    BY <1>7
  <2>3. Around(down, j, n, double) = Back(down)
    BY <1>2, <1>3, <1>7, <2>2
  <2>4. QED
    BY <2>1, <2>2, <2>3
<1>8. ASSUME i # j, ~(double /\ Back(i) < Ahead(i))
      PROVE  Around(up, j, n, double) = Around(i, j, n, double) - 1
  <2>1. Around(i, j, n, double) = Ahead(i)
    BY <1>3, <1>8
  <2>2. Ahead(up) = Ahead(i) - 1 /\ ~(double /\ Back(up) < Ahead(up))
    BY <1>8
  <2>3. Around(up, j, n, double) = Ahead(up)
    BY <1>2, <1>3, <2>2
  <2>4. QED
    BY <2>1, <2>2, <2>3
<1>9. QED
  BY <1>2, <1>4, <1>5, <1>6, <1>7, <1>8

\* The coordinates of a node.
LEMMA Coordinates ==
  ASSUME NEW x \in Nat \ {0}, NEW y \in Nat \ {0}
  PROVE  /\ \A s \in 0 .. x * y - 1 : s % x \in 0 .. x - 1 /\ s \div x \in 0 .. y - 1
         /\ \A s, d \in 0 .. x * y - 1 : s % x = d % x /\ s \div x = d \div x => s = d
         /\ \A a \in 0 .. x - 1, b \in 0 .. y - 1 :
              a + b * x \in 0 .. x * y - 1 /\ (a + b * x) % x = a /\ (a + b * x) \div x = b
<1>1. ASSUME NEW s \in 0 .. x * y - 1 PROVE s % x \in 0 .. x - 1 /\ s \div x \in 0 .. y - 1
  <2>1. s % x \in 0 .. x - 1
    OBVIOUS
  <2>2. s \div x \in 0 .. y - 1
    OBVIOUS
  <2>3. QED
    BY <2>1, <2>2
<1>2. ASSUME NEW s \in 0 .. x * y - 1, NEW d \in 0 .. x * y - 1, s % x = d % x, s \div x = d \div x
      PROVE  s = d
  <2>1. s \in Nat /\ d \in Nat
    OBVIOUS
  <2>2. QED
    BY <1>2, <2>1
<1>3. ASSUME NEW a \in 0 .. x - 1, NEW b \in 0 .. y - 1
      PROVE  a + b * x \in 0 .. x * y - 1 /\ (a + b * x) % x = a /\ (a + b * x) \div x = b
  <2>1. a + b * x \in 0 .. x * y - 1
    OBVIOUS
  <2>2. (a + b * x) % x = a
    OBVIOUS
  <2>3. (a + b * x) \div x = b
    OBVIOUS
  <2>4. QED
    BY <2>1, <2>2, <2>3
<1>4. QED
  BY <1>1, <1>2, <1>3
-------------------------------------------------------------------------------
(***************************************************************************)
(* Generated tables: a ring is a torus of one row.                         *)
(***************************************************************************)
Both == topology.kind \in {"double ring", "double mesh"}
XOf(s) == s % topology.x
YOf(s) == s \div topology.x

\* The next node: along x first, then along y.
Go(s, d) ==
  IF XOf(s) # XOf(d)
    THEN StepTowards(XOf(s), XOf(d), topology.x, Both) + YOf(s) * topology.x
    ELSE XOf(s) + StepTowards(YOf(s), YOf(d), topology.y, Both) * topology.x

LEMMA GoNearer ==
  ASSUME topology \in Topology, NEW s \in Node, NEW d \in Node
  PROVE  /\ Shortest(s, d) \in 0 .. topology.x * topology.y - 1
         /\ s # d => /\ Go(s, d) \in Node
                     /\ Shortest(Go(s, d), d) = Shortest(s, d) - 1
                     /\ IF XOf(s) # XOf(d) THEN YOf(Go(s, d)) = YOf(s)
                                           ELSE XOf(Go(s, d)) = XOf(s)
<1> DEFINE x == topology.x
           y == topology.y
           a == XOf(s)
           b == YOf(s)
           p == XOf(d)
           q == YOf(d)
           AX(i) == Around(i, p, x, Both)
           AY(i) == Around(i, q, y, Both)
<1>1. x \in Nat \ {0} /\ y \in Nat \ {0} /\ Node = 0 .. x * y - 1 /\ Both \in BOOLEAN
  BY NodeFacts DEF Both
<1>2. \A i \in Node : Shortest(i, d) = AX(XOf(i)) + AY(YOf(i))
  BY DEF Shortest, XOf, YOf, Both
<1> HIDE DEF x, y
<1>3. /\ \A i \in Node : XOf(i) \in 0 .. x - 1 /\ YOf(i) \in 0 .. y - 1
      /\ \A i, j \in Node : XOf(i) = XOf(j) /\ YOf(i) = YOf(j) => i = j
      /\ \A i \in 0 .. x - 1, j \in 0 .. y - 1 :
           i + j * x \in Node /\ XOf(i + j * x) = i /\ YOf(i + j * x) = j
  <2>1. \A i : XOf(i) = i % x /\ YOf(i) = i \div x
    BY DEF XOf, YOf, x
  <2> HIDE DEF XOf, YOf
  <2>2. /\ \A i \in Node : i % x \in 0 .. x - 1 /\ i \div x \in 0 .. y - 1
        /\ \A i, j \in Node : i % x = j % x /\ i \div x = j \div x => i = j
        /\ \A i \in 0 .. x - 1, j \in 0 .. y - 1 :
             i + j * x \in Node /\ (i + j * x) % x = i /\ (i + j * x) \div x = j
    <3> DEFINE N == 0 .. x * y - 1
    <3>1. /\ \A i \in N : i % x \in 0 .. x - 1 /\ i \div x \in 0 .. y - 1
          /\ \A i, j \in N : i % x = j % x /\ i \div x = j \div x => i = j
          /\ \A i \in 0 .. x - 1, j \in 0 .. y - 1 :
               i + j * x \in N /\ (i + j * x) % x = i /\ (i + j * x) \div x = j
      BY <1>1, Coordinates, Zenon
    <3>2. Node = N
      BY <1>1
    <3> HIDE DEF N
    <3>3. QED
      BY <3>1, <3>2, Zenon
  <2>3. QED
    BY <2>1, <2>2, Zenon
<1>4. a \in 0 .. x - 1 /\ p \in 0 .. x - 1 /\ b \in 0 .. y - 1 /\ q \in 0 .. y - 1
  BY <1>3
<1> HIDE DEF a, b, p, q
<1>5. /\ AX(a) \in 0 .. x - 1 /\ AY(b) \in 0 .. y - 1
      /\ a # p => LET u == StepTowards(a, p, x, Both) IN u \in 0 .. x - 1 /\ AX(u) = AX(a) - 1
      /\ b # q => LET u == StepTowards(b, q, y, Both) IN u \in 0 .. y - 1 /\ AY(u) = AY(b) - 1
  <2>1. /\ AX(a) \in 0 .. x - 1
        /\ a # p => LET u == StepTowards(a, p, x, Both) IN u \in 0 .. x - 1 /\ AX(u) = AX(a) - 1
    <3>1. x \in Nat \ {0} /\ a \in 0 .. x - 1 /\ p \in 0 .. x - 1 /\ Both \in BOOLEAN
      BY <1>1, <1>4
    <3>2. /\ Around(a, p, x, Both) \in 0 .. x - 1
          /\ a # p => /\ StepTowards(a, p, x, Both) \in 0 .. x - 1
                      /\ Around(StepTowards(a, p, x, Both), p, x, Both) = Around(a, p, x, Both) - 1
      BY <3>1, StepNearer
    <3>3. QED
      BY <3>2
  <2>2. /\ AY(b) \in 0 .. y - 1
        /\ b # q => LET u == StepTowards(b, q, y, Both) IN u \in 0 .. y - 1 /\ AY(u) = AY(b) - 1
    <3>1. y \in Nat \ {0} /\ b \in 0 .. y - 1 /\ q \in 0 .. y - 1 /\ Both \in BOOLEAN
      BY <1>1, <1>4
    <3>2. /\ Around(b, q, y, Both) \in 0 .. y - 1
          /\ b # q => /\ StepTowards(b, q, y, Both) \in 0 .. y - 1
                      /\ Around(StepTowards(b, q, y, Both), q, y, Both) = Around(b, q, y, Both) - 1
      BY <3>1, StepNearer
    <3>3. QED
      BY <3>2
  <2>3. QED
    BY <2>1, <2>2
<1> HIDE DEF AX, AY
<1>6. Shortest(s, d) = AX(a) + AY(b)
  BY <1>2 DEF a, b
<1>7. Shortest(s, d) \in 0 .. x * y - 1
  <2>1. ASSUME NEW i \in 0 .. x - 1, NEW j \in 0 .. y - 1 PROVE i + j \in 0 .. x * y - 1
    <3>1. j + 0 * x \in Int /\ j <= j * x /\ i + j * x \in 0 .. x * y - 1
      <4>1. j <= j * x
        BY <1>1
      <4>2. i + j * x \in 0 .. x * y - 1
        BY <1>1, <1>3
      <4>3. QED
        BY <1>1, <4>1, <4>2
    <3>2. QED
      BY <1>1, <3>1
  <2>2. QED
    BY <1>5, <1>6, <2>1
<1>8. ASSUME s # d, a # p
      PROVE  /\ Go(s, d) \in Node /\ Shortest(Go(s, d), d) = Shortest(s, d) - 1
             /\ YOf(Go(s, d)) = b
  <2> DEFINE u == StepTowards(a, p, x, Both)
  <2>1. u \in 0 .. x - 1 /\ AX(u) = AX(a) - 1
    BY <1>5, <1>8
  <2>2. Go(s, d) = u + b * x
    BY <1>8 DEF Go, a, b, p, x
  <2> HIDE DEF u
  <2>3. Go(s, d) \in Node /\ XOf(Go(s, d)) = u /\ YOf(Go(s, d)) = b
    BY <1>3, <1>4, <2>1, <2>2
  <2>4. Shortest(Go(s, d), d) = AX(u) + AY(b)
    BY <1>2, <2>3
  <2>5. AX(a) - 1 + AY(b) = AX(a) + AY(b) - 1
    BY <1>5
  <2>6. QED
    BY <1>5, <1>6, <2>1, <2>3, <2>4, <2>5
<1>9. ASSUME s # d, a = p
      PROVE  /\ Go(s, d) \in Node /\ Shortest(Go(s, d), d) = Shortest(s, d) - 1
             /\ XOf(Go(s, d)) = a
  <2> DEFINE u == StepTowards(b, q, y, Both)
  <2>1. b # q
    BY <1>3, <1>9 DEF a, b, p, q
  <2>2. u \in 0 .. y - 1 /\ AY(u) = AY(b) - 1
    BY <1>5, <2>1
  <2>3. Go(s, d) = a + u * x
    BY <1>9 DEF Go, a, b, p, q, x, y
  <2> HIDE DEF u
  <2>4. Go(s, d) \in Node /\ XOf(Go(s, d)) = a /\ YOf(Go(s, d)) = u
    BY <1>3, <1>4, <2>2, <2>3
  <2>5. Shortest(Go(s, d), d) = AX(a) + AY(u)
    BY <1>2, <2>4
  <2>6. AX(a) + (AY(b) - 1) = AX(a) + AY(b) - 1
    BY <1>5
  <2>7. QED
    BY <1>5, <1>6, <2>2, <2>4, <2>5, <2>6
<1>10. QED
  BY <1>7, <1>8, <1>9 DEF a, b, p, x, y

\* The kinds of topology.
LEMMA Kinds ==
  ASSUME topology \in Topology
  PROVE  /\ topology.kind \in {"single ring", "double ring", "edited ring", "mesh", "double mesh"}
         /\ topology.kind \in {"single ring", "double ring", "edited ring"} => topology.y = 1
<1> DEFINE A == [kind : {"single ring", "double ring"}, x : Rings, y : {1}]
           B == [kind : {"edited ring"}, x : Edited, y : {1}]
           C == [kind : {"mesh", "double mesh"}, x : Widths, y : Heights]
           Good(r) == /\ r.kind \in {"single ring", "double ring", "edited ring", "mesh", "double mesh"}
                      /\ r.kind \in {"single ring", "double ring", "edited ring"} => r.y = 1
<1>1. \A r \in A : Good(r)
  OBVIOUS
<1>2. \A r \in B : Good(r)
  OBVIOUS
<1>3. \A r \in C : Good(r)
  OBVIOUS
<1>4. topology \in A \cup B \cup C
  BY Zenon DEF Topology
<1> HIDE DEF A, B, C, Good
<1>5. Good(topology)
  BY <1>1, <1>2, <1>3, <1>4
<1>6. QED
  BY <1>5 DEF Good

\* The generators of rings take one step around the circle.
LEMMA RingSteps ==
  ASSUME NEW n \in Nat \ {0}, NEW s \in 0 .. n - 1, NEW d \in 0 .. n - 1, s # d
  PROVE  /\ HasEntry(SingleRing(n), s, d) /\ SingleRing(n)[s][d] = StepTowards(s, d, n, FALSE)
         /\ HasEntry(DoubleRing(n), s, d) /\ DoubleRing(n)[s][d] = StepTowards(s, d, n, TRUE)
<1>1. HasEntry(SingleRing(n), s, d) /\ SingleRing(n)[s][d] = (s + 1) % n
  BY DEF SingleRing, HasEntry
<1>2. StepTowards(s, d, n, FALSE) = (s + 1) % n
  BY DEF StepTowards
<1>3. HasEntry(DoubleRing(n), s, d)
  BY DEF DoubleRing, HasEntry
<1>4. DoubleRing(n)[s][d] = IF (d - s) % n <= ForwardReach(n) THEN (s + 1) % n ELSE (s - 1) % n
  <2>1. DoubleRing(n)[s][d] = CASE d = s -> s
                                [] d # s /\ (d - s) % n <= ForwardReach(n) -> (s + 1) % n
                                [] OTHER -> (s - 1) % n
    BY Zenon DEF DoubleRing
  <2>2. QED
    BY <2>1
<1>5. (d - s) % n <= ForwardReach(n) <=> ~((s - d) % n < (d - s) % n)
  <2> DEFINE f == IF s <= d THEN d - s ELSE d - s + n
             g == IF d <= s THEN s - d ELSE s - d + n
  <2>1. d - s \in Int /\ d - s \in -n .. n /\ s - d \in Int /\ s - d \in -n .. n
    OBVIOUS
  <2>2. (d - s < 0 => (d - s) % n = d - s + n) /\ (0 <= d - s /\ d - s < n => (d - s) % n = d - s)
    BY <2>1, ModFacts
  <2>3. (s - d < 0 => (s - d) % n = s - d + n) /\ (0 <= s - d /\ s - d < n => (s - d) % n = s - d)
    BY <2>1, ModFacts
  <2>4. (d - s) % n = f /\ (s - d) % n = g
    BY <2>2, <2>3
  <2>5. f + g = n /\ f \in Nat /\ g \in Nat
    OBVIOUS
  <2> HIDE DEF f, g
  <2>6. f <= n \div 2 <=> 2 * f <= n
    BY <2>5
  <2>7. QED
    BY <2>4, <2>5, <2>6 DEF ForwardReach
<1>6. StepTowards(s, d, n, TRUE) = IF (s - d) % n < (d - s) % n THEN (s - 1) % n ELSE (s + 1) % n
  BY DEF StepTowards
<1>7. DoubleRing(n)[s][d] = StepTowards(s, d, n, TRUE)
  <2>1. CASE (s - d) % n < (d - s) % n
    BY <1>4, <1>5, <1>6, <2>1
  <2>2. CASE ~((s - d) % n < (d - s) % n)
    BY <1>4, <1>5, <1>6, <2>2
  <2>3. QED
    BY <2>1, <2>2
<1>8. QED
  BY <1>1, <1>2, <1>3, <1>7

\* The generator of tori goes along x while it has to, then along y.
LEMMA TorusSteps ==
  ASSUME NEW x \in Nat \ {0}, NEW y \in Nat \ {0}, NEW double \in BOOLEAN,
         NEW s \in 0 .. x * y - 1, NEW d \in 0 .. x * y - 1, s # d
  PROVE  /\ HasEntry(Torus(x, y, double), s, d)
         /\ Torus(x, y, double)[s][d] =
              IF s % x # d % x
                THEN StepTowards(s % x, d % x, x, double) + (s \div x) * x
                ELSE (s % x) + StepTowards(s \div x, d \div x, y, double) * x
<1> DEFINE N == 0 .. x * y - 1
           T(i, j) == CASE j = i -> i
                        [] j % x # i % x -> StepTowards(i % x, j % x, x, double) + (i \div x) * x
                        [] OTHER -> (i % x) + StepTowards(i \div x, j \div x, y, double) * x
<1>1. Torus(x, y, double) = [i \in N |-> [j \in N |-> T(i, j)]]
  BY Zenon DEF Torus
<1>2. T(s, d) = IF s % x # d % x
                  THEN StepTowards(s % x, d % x, x, double) + (s \div x) * x
                  ELSE (s % x) + StepTowards(s \div x, d \div x, y, double) * x
  OBVIOUS
<1> HIDE DEF T
<1>3. s \in N /\ d \in N
  OBVIOUS
<1> HIDE DEF N
<1>4. HasEntry(Torus(x, y, double), s, d) /\ Torus(x, y, double)[s][d] = T(s, d)
  BY <1>1, <1>3 DEF HasEntry
<1>5. QED
  BY <1>2, <1>4, Zenon

LEMMA BothFacts ==
  /\ Both \in BOOLEAN
  /\ topology.kind \in {"single ring", "mesh"} => Both = FALSE
  /\ topology.kind \in {"double ring", "double mesh"} => Both = TRUE
<1>1. Both \in BOOLEAN
  BY DEF Both
<1>2. ASSUME topology.kind \in {"single ring", "mesh"} PROVE ~Both
  BY <1>2 DEF Both
<1>3. ASSUME topology.kind \in {"double ring", "double mesh"} PROVE Both
  BY <1>3 DEF Both
<1>4. QED
  BY <1>1, <1>2, <1>3, Zenon

\* The generators follow Go.
LEMMA TableGoes ==
  ASSUME topology \in Topology, topology.kind # "edited ring", table = Table(topology),
         NEW s \in Node, NEW d \in Node, s # d
  PROVE  HasEntry(table, s, d) /\ table[s][d] = Go(s, d)
<1> DEFINE x == topology.x
           y == topology.y
<1>1. x \in Nat \ {0} /\ y \in Nat \ {0} /\ Node = 0 .. x * y - 1
  BY NodeFacts
<1>2. /\ topology.kind = "single ring" => table = SingleRing(x) /\ Both = FALSE
      /\ topology.kind = "double ring" => table = DoubleRing(x) /\ Both = TRUE
      /\ topology.kind \in {"mesh", "double mesh"} => table = Torus(x, y, Both)
  <2> HIDE DEF x, y
  <2>1. ASSUME topology.kind = "single ring" PROVE table = SingleRing(x) /\ Both = FALSE
    <3>1. Both = FALSE
      BY <2>1, BothFacts
    <3>2. table = SingleRing(x)
      BY <2>1 DEF Table, x
    <3>3. QED
      BY <3>1, <3>2
  <2>2. ASSUME topology.kind = "double ring" PROVE table = DoubleRing(x) /\ Both = TRUE
    <3>1. Both = TRUE
      BY <2>2, BothFacts
    <3>2. table = DoubleRing(x)
      BY <2>2 DEF Table, x
    <3>3. QED
      BY <3>1, <3>2
  <2>3. ASSUME topology.kind = "mesh" PROVE table = Torus(x, y, Both)
    <3>1. Both = FALSE
      BY <2>3, BothFacts
    <3>2. table = Torus(x, y, FALSE)
      BY <2>3 DEF Table, x, y
    <3>3. QED
      BY <3>1, <3>2, Zenon
  <2>4. ASSUME topology.kind = "double mesh" PROVE table = Torus(x, y, Both)
    <3>1. Both = TRUE
      BY <2>4, BothFacts
    <3>2. table = Torus(x, y, TRUE)
      BY <2>4 DEF Table, x, y
    <3>3. QED
      BY <3>1, <3>2, Zenon
  <2>5. QED
    BY <2>1, <2>2, <2>3, <2>4, Zenon
<1>3. topology.kind \in {"single ring", "double ring"} => y = 1
  BY Kinds
<1>4. Go(s, d) = IF s % x # d % x
                   THEN StepTowards(s % x, d % x, x, Both) + (s \div x) * x
                   ELSE (s % x) + StepTowards(s \div x, d \div x, y, Both) * x
  BY Zenon DEF Go, XOf, YOf
<1> HIDE DEF x, y
<1>5. CASE topology.kind \in {"single ring", "double ring"}
  <2>0. x \in Nat \ {0} /\ Both \in BOOLEAN
    <3>1. Both \in BOOLEAN
      BY BothFacts
    <3>2. QED
      BY <1>1, <3>1
  <2>1. s \in 0 .. x - 1 /\ d \in 0 .. x - 1
    <3>1. y = 1
      BY <1>3, <1>5, Zenon
    <3>2. x * 1 = x
      BY <2>0, OneRow
    <3>3. Node = 0 .. x - 1
      BY <1>1, <3>1, <3>2, Zenon
    <3>4. QED
      BY <3>3
  <2>2. s % x = s /\ s \div x = 0 /\ d % x = d
    BY <2>0, <2>1, SmallDivision
  <2>3. StepTowards(s, d, x, Both) \in 0 .. x - 1
    BY <2>0, <2>1, StepNearer
  <2>4. Go(s, d) = StepTowards(s, d, x, Both) + 0 * x
    BY <1>4, <2>2, Zenon
  <2>5. Go(s, d) = StepTowards(s, d, x, Both)
    BY <2>0, <2>3, <2>4, SmallDivision
  <2>6. /\ HasEntry(SingleRing(x), s, d) /\ SingleRing(x)[s][d] = StepTowards(s, d, x, FALSE)
        /\ HasEntry(DoubleRing(x), s, d) /\ DoubleRing(x)[s][d] = StepTowards(s, d, x, TRUE)
    BY <2>0, <2>1, RingSteps
  <2>7. QED
    BY <1>2, <1>5, <2>5, <2>6
<1>6. CASE topology.kind \in {"mesh", "double mesh"}
  <2>1. s \in 0 .. x * y - 1 /\ d \in 0 .. x * y - 1
    BY <1>1
  <2>2. /\ HasEntry(Torus(x, y, Both), s, d)
        /\ Torus(x, y, Both)[s][d] =
             IF s % x # d % x
               THEN StepTowards(s % x, d % x, x, Both) + (s \div x) * x
               ELSE (s % x) + StepTowards(s \div x, d \div x, y, Both) * x
    <3>1. Both \in BOOLEAN
      BY BothFacts
    <3>2. QED
      BY <1>1, <2>1, <3>1, TorusSteps
  <2>3. table = Torus(x, y, Both)
    BY <1>2, <1>6
  <2>4. QED
    BY <1>4, <2>2, <2>3, Zenon
<1>7. QED
  BY <1>5, <1>6, Kinds
LEMMA Interval ==
  ASSUME NEW n \in Nat
  PROVE  Cardinality(0 .. n - 1) = n
<1>1. 0 \in Int /\ n - 1 \in Int
  OBVIOUS
<1>2. Cardinality(0 .. n - 1) = IF 0 > n - 1 THEN 0 ELSE n - 1 - 0 + 1
  BY <1>1, FS_Interval, Zenon
<1>3. (0 > n - 1 => n = 0) /\ n - 1 - 0 + 1 = n
  OBVIOUS
<1>4. QED
  BY <1>2, <1>3

LEMMA InRange ==
  ASSUME NEW n \in Nat, NEW v \in 0 .. n - 1
  PROVE  v \in Int /\ v - 1 < v
OBVIOUS

LEMMA Ends ==
  ASSUME NEW T, NEW w \in Seq(T), w # <<>>
  PROVE  Len(w) \in Int /\ 1 \in 1 .. Len(w) /\ w[1] \in T /\ w[Len(w)] \in T
<1>1. Len(w) \in Nat /\ Len(w) # 0 /\ DOMAIN w = 1 .. Len(w)
  BY LenProperties, EmptySeq
<1>2. 1 \in 1 .. Len(w) /\ Len(w) \in 1 .. Len(w)
  BY <1>1
<1>3. QED
  BY <1>1, <1>2, ElementOfSeq

LEMMA Appended ==
  ASSUME NEW T, NEW w \in Seq(T), w # <<>>, NEW e \in T
  PROVE  LET v == Append(w, e) IN Len(v) = Len(w) + 1 /\ v[1] = w[1] /\ v[Len(v)] = e
<1>1. 1 \in 1 .. Len(w)
  BY Ends
<1>2. QED
  BY <1>1, AppendProperties

LEMMA OneMore ==
  ASSUME NEW n \in Int, NEW a \in Int
  PROVE  (n + 1) - 1 + (a - 1) = n - 1 + a
OBVIOUS

Size == topology.x * topology.y

LEMMA SizeFacts ==
  ASSUME topology \in Topology
  PROVE  /\ IsFiniteSet(Node) /\ Size \in Nat /\ Node = 0 .. Size - 1 /\ Cardinality(Node) = Size
         /\ \A i, j \in Node : Shortest(i, j) \in 0 .. Size - 1
<1>1. IsFiniteSet(Node) /\ Size \in Nat /\ Node = 0 .. Size - 1
  BY NodeFacts DEF Size
<1>2. Cardinality(Node) = Size
  BY <1>1, Interval
<1>3. \A i, j \in Node : Shortest(i, j) \in 0 .. Size - 1
  BY GoNearer DEF Size
<1>4. QED
  BY <1>1, <1>2, <1>3

LEMMA ShortestInt ==
  ASSUME topology \in Topology, NEW i \in Node, NEW j \in Node
  PROVE  Shortest(i, j) \in Int /\ Shortest(i, j) - 1 < Shortest(i, j)
<1>1. Size \in Nat /\ Shortest(i, j) \in 0 .. Size - 1
  BY SizeFacts
<1>2. QED
  BY <1>1, InRange

\* The network accepts a generated table: the way that remains ranks the nodes.
LEMMA GeneratedValid ==
  ASSUME topology \in Topology, topology.kind # "edited ring", table = Table(topology)
  PROVE  Valid(table, Node)
<1> SUFFICES ASSUME NEW s \in Node, NEW d \in Node PROVE Reaches(table, Node, s, d)
  BY DEF Valid
<1> DEFINE rank == [i \in Node |-> Shortest(i, d)]
<1>1. IsFiniteSet(Node) /\ Cardinality(Node) = Size
  BY SizeFacts
<1>2. \A i \in Node : Shortest(i, d) \in 0 .. Cardinality(Node) - 1
  BY <1>1, SizeFacts
<1>3. rank \in [Node -> 0 .. Cardinality(Node) - 1]
  BY <1>2, Zenon
<1>4. ASSUME NEW i \in Node \ {d}
      PROVE  HasEntry(table, i, d) /\ table[i][d] \in Node /\ rank[table[i][d]] < rank[i]
  <2>1. HasEntry(table, i, d) /\ table[i][d] = Go(i, d)
    BY TableGoes
  <2>2. Go(i, d) \in Node /\ Shortest(Go(i, d), d) = Shortest(i, d) - 1
    BY GoNearer
  <2>3. Shortest(i, d) - 1 < Shortest(i, d)
    BY ShortestInt
  <2>4. rank[i] = Shortest(i, d) /\ rank[Go(i, d)] = Shortest(Go(i, d), d)
    BY <2>2
  <2>5. rank[table[i][d]] < rank[i]
    BY <2>1, <2>2, <2>3, <2>4, Zenon
  <2>6. QED
    BY <2>1, <2>2, <2>5, Zenon
<1>5. IsRank(rank, table, Node, d)
  <2> HIDE DEF rank
  <2>1. QED
    BY <1>3, <1>4 DEF IsRank
<1>6. QED
  BY <1>1, <1>5, RankedReaches

\* GeneratedRoutes with the table it is about.
Generated ==
  topology.kind # "edited ring" =>
    /\ table = Table(topology)
    /\ trail # <<>> =>
         /\ Len(trail) - 1 + Shortest(At, dst) = Shortest(trail[1], dst)
         /\ YOf(At) # YOf(trail[1]) => XOf(At) = XOf(dst)

LEMMA GeneratedHop ==
  ASSUME IInv, Generated, Hop
  PROVE  Generated'
<1> SUFFICES ASSUME topology.kind # "edited ring"
             PROVE  /\ table = Table(topology)
                    /\ Len(trail') - 1 + Shortest(At', dst) = Shortest(trail'[1], dst)
                    /\ YOf(At') # YOf(trail'[1]) => XOf(At') = XOf(dst)
  BY DEF Hop, Generated, Shortest, XOf, YOf
<1> DEFINE n == Len(trail)
           u == table[At][dst]
           S(i) == Shortest(i, dst)
<1>1. /\ topology \in Topology /\ table = Table(topology) /\ trail \in Seq(Node) /\ trail # <<>>
      /\ At # dst /\ dst \in Node /\ trail' = Append(trail, u)
      /\ n - 1 + S(At) = S(trail[1])
      /\ YOf(At) # YOf(trail[1]) => XOf(At) = XOf(dst)
  BY DEF IInv, Hop, Generated
<1>2. n \in Int /\ At \in Node /\ trail[1] \in Node
  BY <1>1, Ends DEF At
<1>3. u = Go(At, dst)
  BY <1>1, <1>2, TableGoes
<1>4. /\ u \in Node /\ S(u) = S(At) - 1
      /\ IF XOf(At) # XOf(dst) THEN YOf(u) = YOf(At) ELSE XOf(u) = XOf(At)
  <2> DEFINE v == Go(At, dst)
  <2> HIDE DEF S, u
  <2>1. /\ v \in Node /\ Shortest(v, dst) = Shortest(At, dst) - 1
        /\ IF XOf(At) # XOf(dst) THEN YOf(v) = YOf(At) ELSE XOf(v) = XOf(At)
    BY <1>1, <1>2, GoNearer
  <2>2. u = v
    BY <1>3
  <2> HIDE DEF v
  <2>3. QED
    BY <2>1, <2>2 DEF S
<1>5. S(At) \in Int
  BY <1>1, <1>2, ShortestInt
<1> HIDE DEF u, S
<1>6. Len(trail') = n + 1 /\ trail'[1] = trail[1] /\ At' = u
  BY <1>1, <1>4, Appended DEF At
<1>7. Len(trail') - 1 + S(u) = S(trail[1])
  <2>1. n - 1 + S(At) = S(trail[1]) /\ n \in Int /\ S(At) \in Int
    BY <1>1, <1>2, <1>5
  <2>2. (n + 1) - 1 + (S(At) - 1) = n - 1 + S(At)
    BY <2>1, OneMore, Zenon
  <2>3. QED
    BY <1>4, <1>6, <2>1, <2>2, Zenon
<1>8. YOf(u) # YOf(trail[1]) => XOf(u) = XOf(dst)
  BY <1>1, <1>4
<1>9. QED
  BY <1>1, <1>6, <1>7, <1>8 DEF S

LEMMA GeneratedNext ==
  ASSUME IInv, Generated, [Next]_vars
  PROVE  Generated'
<1>1. CASE UNCHANGED vars
  BY <1>1 DEF Generated, vars, At, Shortest, XOf, YOf
<1>2. ASSUME NEW s \in Node, NEW d \in Node, NEW hop \in Node \cup Stranger,
             RouteInsert(s, d, hop) \/ RouteDelete(s, d)
      PROVE  Generated'
  <2>1. topology.kind = "edited ring" /\ topology' = topology
    BY <1>2 DEF RouteInsert, RouteDelete, Editing
  <2>2. QED
    BY <2>1 DEF Generated
<1>3. ASSUME NEW s \in Node, NEW d \in Node, Depart(s, d) PROVE Generated'
  <2>1. trail' = <<s>> /\ topology' = topology /\ table' = table /\ dst' = d
    BY <1>3 DEF Depart
  <2>2. Len(trail') = 1 /\ trail'[1] = s /\ At' = s
    BY <2>1 DEF At
  <2>3. Shortest(s, d) \in Int
    <3>1. topology \in Topology
      BY DEF IInv
    <3> DEFINE k == topology.x * topology.y
    <3>2. Shortest(s, d) \in 0 .. k - 1 /\ k \in Nat
      BY <3>1, GoNearer, NodeFacts
    <3> HIDE DEF k
    <3>3. QED
      BY <3>2
  <2>4. 1 - 1 + Shortest(s, d) = Shortest(s, d)
    BY <2>3
  <2>5. Shortest(s, d)' = Shortest(s, d) /\ Shortest(At, dst)' = Shortest(s, d)
        /\ Shortest(trail[1], dst)' = Shortest(s, d) /\ YOf(At)' = YOf(s) /\ YOf(trail[1])' = YOf(s)
    BY <2>1, <2>2 DEF Shortest, YOf
  <2>6. QED
    BY <2>1, <2>2, <2>4, <2>5 DEF Generated
<1>4. CASE Hop
  BY <1>4, GeneratedHop
<1>5. QED
  BY <1>1, <1>2, <1>3, <1>4 DEF Next

(***************************************************************************)
(* The tables of the generators, for rings and tori of every size, odd or  *)
(* even: the network accepts them, and they take a packet from any node to *)
(* any other along a shortest way, in a torus along x before y.            *)
(***************************************************************************)
THEOREM ShortestRoutes == Spec => []GeneratedRoutes
<1>1. Init => IInv /\ Generated
  <2> SUFFICES ASSUME Init PROVE IInv /\ Generated
    OBVIOUS
  <2>1. trail = <<>> /\ DOMAIN trail = {} /\ topology \in Topology /\ table = Table(topology)
    BY DEF Init
  <2>2. QED
    BY <2>1 DEF IInv, Generated
<1>2. IInv /\ Generated /\ [Next]_vars => IInv' /\ Generated'
  BY NextIInv, GeneratedNext
<1>3. IInv /\ Generated => GeneratedRoutes
  <2> SUFFICES ASSUME IInv, Generated, topology.kind # "edited ring"
               PROVE  IF trail = <<>> THEN Valid(table, Node)
                      ELSE /\ Len(trail) - 1 + Shortest(At, dst) = Shortest(trail[1], dst)
                           /\ At \div topology.x # trail[1] \div topology.x
                                => At % topology.x = dst % topology.x
    BY DEF GeneratedRoutes
  <2>1. topology \in Topology /\ table = Table(topology)
    BY DEF IInv, Generated
  <2>2. Valid(table, Node)
    BY <2>1, GeneratedValid
  <2>3. QED
    BY <2>2 DEF Generated, XOf, YOf
<1>4. QED
  BY <1>1, <1>2, <1>3, PTL DEF Spec
===============================================================================
