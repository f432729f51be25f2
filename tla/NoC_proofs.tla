------------------------------ MODULE NoC_proofs -------------------------------
(***************************************************************************)
(* Proofs about the packet network: no packet is lost, doubled or put      *)
(* before another one of its message, receive slots are counted right, and *)
(* no router overflows, for every table, every number of ports and every   *)
(* traffic; and the network implements IBus.                               *)
(***************************************************************************)
EXTENDS NoC, RouteTable_proofs, SequenceTheorems

-------------------------------------------------------------------------------
(***************************************************************************)
(* Numbers and sequences.                                                  *)
(***************************************************************************)

\* Ascending lists a finite set of numbers, each once, the smaller ones first.
LEMMA AscendingFacts ==
  ASSUME NEW S \in SUBSET Nat, IsFiniteSet(S)
  PROVE  /\ Cardinality(S) \in Nat
         /\ Ascending(S) \in Seq(S)
         /\ Len(Ascending(S)) = Cardinality(S)
         /\ DOMAIN Ascending(S) = 1 .. Cardinality(S)
         /\ \A i \in DOMAIN Ascending(S) : Ascending(S)[i] \in S
         /\ \A i, j \in DOMAIN Ascending(S) : i < j => Ascending(S)[i] < Ascending(S)[j]
         /\ \A x \in S : \E i \in DOMAIN Ascending(S) : Ascending(S)[i] = x
<1> DEFINE n == Cardinality(S)
           Below(x) == {y \in S : y < x}
           rank(x) == Cardinality(Below(x))
           f == [x \in S |-> rank(x)]
           a == Ascending(S)
<1>1. n \in Nat
  BY FS_CardinalityType
<1>2. ASSUME NEW x \in S
      PROVE  rank(x) \in 0 .. n - 1 /\ rank(x) \in Nat /\ IsFiniteSet(Below(x))
  <2>1. IsFiniteSet(S \ {x}) /\ Cardinality(S \ {x}) = n - 1
    BY FS_RemoveElement
  <2>2. Below(x) \in SUBSET (S \ {x})
    OBVIOUS
  <2> HIDE DEF n, Below
  <2>3. IsFiniteSet(Below(x)) /\ Cardinality(Below(x)) <= n - 1
    BY <2>1, <2>2, FS_Subset
  <2>4. Cardinality(Below(x)) \in Nat
    BY <2>3, FS_CardinalityType
  <2>5. QED
    BY <1>1, <2>3, <2>4
<1>3. ASSUME NEW x \in S, NEW z \in S, x < z
      PROVE  rank(x) < rank(z)
  <2>1. Below(x) \in SUBSET Below(z) /\ x \in Below(z) /\ x \notin Below(x)
    <3>1. \A y \in S : y \in Nat
      OBVIOUS
    <3>2. ASSUME NEW y \in Below(x) PROVE y \in Below(z)
      BY <1>3, <3>1
    <3>3. x \in Below(z) /\ x \notin Below(x)
      BY <1>3, <3>1
    <3> HIDE DEF Below
    <3>4. QED
      BY <3>2, <3>3
  <2>2. IsFiniteSet(Below(z)) /\ IsFiniteSet(Below(x))
    BY <1>2
  <2> HIDE DEF Below
  <2>3. Cardinality(Below(x)) <= Cardinality(Below(z)) /\ Cardinality(Below(x)) # Cardinality(Below(z))
    BY <2>1, <2>2, FS_Subset
  <2>4. Cardinality(Below(x)) \in Nat /\ Cardinality(Below(z)) \in Nat
    BY <2>2, FS_CardinalityType
  <2>5. QED
    BY <2>3, <2>4
<1>4. a = [i \in 1 .. n |-> CHOOSE x \in S : rank(x) = i - 1]
  BY DEF Ascending
<1> HIDE DEF Below, rank, a, n
<1>5. \A x, z \in S : rank(x) = rank(z) => x = z
  <2>1. \A x \in S : rank(x) \in Nat /\ x \in Nat
    BY <1>2
  <2>2. QED
    BY <1>3, <2>1
<1>6. \A k \in 0 .. n - 1 : \E x \in S : rank(x) = k
  <2>1. IsFiniteSet(0 .. n - 1) /\ Cardinality(0 .. n - 1) = n
    BY <1>1, FS_Interval
  <2>2. f \in [S -> 0 .. n - 1] /\ \A x \in S : f[x] = rank(x)
    BY <1>2
  <2> HIDE DEF f
  <2>3. f \in Injection(S, 0 .. n - 1)
    BY <1>5, <2>2 DEF Injection, IsInjective
  <2>4. f \in Surjection(S, 0 .. n - 1)
    BY <2>1, <2>3, FS_Injection DEF n
  <2>5. QED
    BY <2>2, <2>4 DEF Surjection
<1>7. ASSUME NEW i \in 1 .. n
      PROVE  a[i] \in S /\ rank(a[i]) = i - 1
  <2>1. i - 1 \in 0 .. n - 1
    BY <1>1
  <2>2. \E x \in S : rank(x) = i - 1
    BY <1>6, <2>1
  <2>3. a[i] = CHOOSE x \in S : rank(x) = i - 1
    BY <1>4
  <2>4. QED
    BY <2>2, <2>3
<1>8. DOMAIN a = 1 .. n
  BY <1>4
<1>9. a \in Seq(S) /\ Len(a) = n
  <2>1. a \in [1 .. n -> S]
    BY <1>4, <1>7
  <2>2. QED
    BY <1>1, <1>8, <2>1, SeqDef
<1>10. ASSUME NEW i \in 1 .. n, NEW j \in 1 .. n, i < j
       PROVE  a[i] < a[j]
  <2>1. a[i] \in Nat /\ a[j] \in Nat /\ a[i] \in S /\ a[j] \in S
    BY <1>7
  <2>2. rank(a[i]) = i - 1 /\ rank(a[j]) = j - 1
    BY <1>7
  <2>3. i \in Int /\ j \in Int
    OBVIOUS
  <2>4. ~(a[j] < a[i]) /\ a[i] # a[j]
    BY <1>3, <1>10, <2>1, <2>2, <2>3
  <2>5. QED
    BY <2>1, <2>4
<1>11. ASSUME NEW x \in S PROVE \E i \in 1 .. n : a[i] = x
  <2>1. PICK i \in 1 .. n : i = rank(x) + 1
    BY <1>1, <1>2
  <2>2. a[i] \in S /\ rank(a[i]) = rank(x)
    BY <1>2, <1>7, <2>1
  <2>3. a[i] = x
    BY <1>5, <2>2
  <2>4. QED
    BY <2>3
<1>12. QED
  BY <1>1, <1>7, <1>8, <1>9, <1>10, <1>11 DEF a, n

-------------------------------------------------------------------------------
(***************************************************************************)
(* The network: ports, edges and routes.                                   *)
(***************************************************************************)

\* A port is at one node, at one position.
LEMMA PortFacts ==
  /\ \A p \in Port : NodeOf[p] \in Node
  /\ \A n \in Node : \A i \in DOMAIN PortsAt[n] :
       PortsAt[n][i] \in Port /\ NodeOf[PortsAt[n][i]] = n
<1>1. ASSUME NEW p \in Port PROVE NodeOf[p] \in Node /\ p \in Range(PortsAt[NodeOf[p]])
  <2>1. \E n \in Node : p \in Range(PortsAt[n])
    BY ConfigAssumption
  <2>2. NodeOf[p] = CHOOSE n \in Node : p \in Range(PortsAt[n])
    BY DEF NodeOf
  <2>3. QED
    BY <2>1, <2>2
<1>2. ASSUME NEW n \in Node, NEW i \in DOMAIN PortsAt[n]
      PROVE  PortsAt[n][i] \in Port /\ NodeOf[PortsAt[n][i]] = n
  <2>1. PortsAt[n] \in Seq(Port)
    BY ConfigAssumption
  <2>2. PortsAt[n][i] \in Port
    BY <2>1, LenProperties, ElementOfSeq
  <2>3. PICK j \in DOMAIN PortsAt[NodeOf[PortsAt[n][i]]] :
          PortsAt[NodeOf[PortsAt[n][i]]][j] = PortsAt[n][i]
    BY <1>1, <2>2 DEF Range
  <2>4. NodeOf[PortsAt[n][i]] \in Node
    BY <1>1, <2>2
  <2>5. NodeOf[PortsAt[n][i]] = n
    BY <2>3, <2>4, ConfigAssumption
  <2>6. QED
    BY <2>2, <2>5
<1>3. QED
  BY <1>1, <1>2

\* An edge joins two nodes.
LEMMA EdgeFacts ==
  ASSUME NEW e \in Edge
  PROVE  e = <<e[1], e[2]>> /\ e[1] \in Node /\ e[2] \in Node
<1> DEFINE hops == {<<s, Route[s][d]>> : s \in Node, d \in Node}
<1>1. \A h \in hops : h = <<h[1], h[2]>> /\ h[1] \in Node /\ h[2] \in Node
  BY ConfigAssumption
<1>2. e \in hops \cup {<<h[2], h[1]>> : h \in hops}
  BY DEF Edge
<1> HIDE DEF hops
<1>3. QED
  BY <1>1, <1>2

\* A table that is accepted never sends a packet to the node it is at.
LEMMA NoSelfHop ==
  ASSUME NEW n \in Node, NEW d \in Node, n # d
  PROVE  Route[n][d] \in Node /\ Route[n][d] # n
<1>1. IsFiniteSet(Node) /\ Valid(Route, Node) /\ Route[n][d] \in Node
  BY ConfigAssumption
<1> DEFINE h == Hops(Route, Node, n, d)
<1>2. h \in Nat /\ Hops(Route, Node, Route[n][d], d) = h - 1
  BY <1>1, ValidHops
<1> HIDE DEF h
<1>3. h - 1 # h
  BY <1>2
<1>4. QED
  BY <1>1, <1>2, <1>3 DEF h

\* So a packet that is not at its node leaves on an edge.
LEMMA ExitFacts ==
  ASSUME NEW n \in Node, NEW m \in Packet, ~Local(n, m)
  PROVE  Exit(n, m).edge \in Edge /\ Exit(n, m).edge[1] = n /\ Exit(n, m).channel \in Channel
<1>1. NodeOf[m.dst] \in Node /\ NodeOf[m.dst] # n
  BY PortFacts DEF Packet, Local
<1>2. Route[n][NodeOf[m.dst]] \in Node /\ Route[n][NodeOf[m.dst]] # n
  BY <1>1, NoSelfHop
<1>3. <<n, Route[n][NodeOf[m.dst]]>> \in Edge
  BY <1>1, <1>2 DEF Edge
<1>4. QED
  BY <1>3 DEF Exit, Packet

\* The positions of Rxs stand for the incoming edges.
LEMMA RxFacts ==
  ASSUME NEW n \in Node
  PROVE  Len(Rxs[n]) \in Nat /\ \A i \in 0 .. Len(Rxs[n]) - 1 : <<Rxs[n][i + 1], n>> \in Edge
<1> DEFINE S == {e[1] : e \in {x \in Edge : x[2] = n}}
<1>1. S \in SUBSET Node /\ \A k \in S : <<k, n>> \in Edge
  BY EdgeFacts
<1>2. S \in SUBSET Nat /\ IsFiniteSet(S)
  BY <1>1, ConfigAssumption, FS_Subset
<1>3. Rxs[n] = Ascending(S)
  BY DEF Rxs
<1> HIDE DEF S
<1>4. /\ Len(Rxs[n]) \in Nat /\ DOMAIN Rxs[n] = 1 .. Len(Rxs[n])
      /\ \A i \in DOMAIN Rxs[n] : Rxs[n][i] \in S
  BY <1>2, <1>3, AscendingFacts
<1>5. QED
  BY <1>1, <1>4

-------------------------------------------------------------------------------
(***************************************************************************)
(* The intake of a node.                                                   *)
(***************************************************************************)

\* A scan meets one of the entries that are ready first.
LEMMA ScanFinds ==
  ASSUME NEW n \in Nat, NEW ready \in SUBSET (0 .. n - 1), ready # {},
         NEW ptr, ptr = 0 \/ ptr \in 0 .. n - 1
  PROVE  \E i \in ready : MetFirst(i, ptr, ready, n)
<1> DEFINE D == {Distance(ptr, i, n) : i \in ready}
<1>1. ASSUME NEW i \in ready PROVE Distance(ptr, i, n) \in Nat
  BY DEF Distance
<1>2. D \in SUBSET Nat /\ D # {}
  BY <1>1
<1>3. PICK x \in D : \A y \in D : x <= y
  BY <1>2, LeastNumber
<1>4. PICK i \in ready : x = Distance(ptr, i, n)
  OBVIOUS
<1>5. \A j \in ready : Distance(ptr, i, n) <= Distance(ptr, j, n)
  BY <1>3, <1>4
<1>6. QED
  BY <1>5 DEF MetFirst

\* The lowest of some channels is one of them.
LEMMA LowestFacts ==
  ASSUME NEW channels \in SUBSET Channel, channels # {}
  PROVE  Lowest(channels) \in channels
<1>1. channels \in SUBSET Nat
  BY ConfigAssumption DEF Channel
<1>2. \E c \in channels : \A k \in channels : c <= k
  BY <1>1, LeastNumber
<1>3. QED
  BY <1>2 DEF Lowest

\* What is known of the candidate k of node n.
FromEdge(n, k) ==
  /\ k.from = "edge" /\ k.place \in Edge /\ k.place[2] = n /\ k.channel \in Channel
  /\ k.packet = output[k.place][k.channel] /\ k.packet # NoPacket
  /\ k.position \in 0 .. Len(Rxs[n]) - 1
FromPort(n, k) ==
  /\ k.from = "port" /\ k.place \in Port /\ NodeOf[k.place] = n /\ k.channel \in Channel
  /\ sendBuf[k.place][k.channel] # <<>> /\ k.packet = Head(sendBuf[k.place][k.channel])
  /\ k.position \in 0 .. Len(PortsAt[n]) - 1

\* The candidate is the packet of a register or the head of a buffer at its node.
LEMMA CandidateFacts ==
  ASSUME TypeOK, NEW n \in Node
  PROVE  \/ FromEdge(n, Candidate(n)) /\ Candidate(n).packet \in Packet
            /\ Candidate(n).taken = CanAccept(n, Candidate(n).packet)
         \/ FromPort(n, Candidate(n)) /\ Candidate(n).packet \in Packet
            /\ Candidate(n).taken = CanAccept(n, Candidate(n).packet)
         \/ Candidate(n).from = "none" /\ Candidate(n).taken = FALSE
<1> DEFINE i == CHOOSE k \in RxReady(n) : MetFirst(k, rxPtr[n], RxReady(n), Len(Rxs[n]))
           j == CHOOSE k \in SdReady(n) : MetFirst(k, sdPtr[n], SdReady(n), Len(PortsAt[n]))
           e == <<Rxs[n][i + 1], n>>
           p == PortsAt[n][j + 1]
           ce == Lowest(EdgeOffers(e))
           cp == Lowest(PortOffers(p))
<1>1. CASE RxReady(n) # {}
  <2>1. i \in RxReady(n)
    <3>1. Len(Rxs[n]) \in Nat
      BY RxFacts
    <3>2. rxPtr[n] = 0 \/ rxPtr[n] \in 0 .. Len(Rxs[n]) - 1
      BY DEF TypeOK
    <3>3. RxReady(n) \in SUBSET (0 .. Len(Rxs[n]) - 1)
      BY DEF RxReady
    <3>4. \E k \in RxReady(n) : MetFirst(k, rxPtr[n], RxReady(n), Len(Rxs[n]))
      BY <1>1, <3>1, <3>2, <3>3, ScanFinds
    <3>5. QED
      BY <3>4
  <2> HIDE DEF i
  <2>2. i \in 0 .. Len(Rxs[n]) - 1 /\ EdgeOffers(e) # {}
    BY <2>1 DEF RxReady
  <2>3. e \in Edge /\ e[2] = n
    BY <2>2, RxFacts
  <2> HIDE DEF e
  <2>4. ce \in Channel /\ output[e][ce] # NoPacket
    <3>1. EdgeOffers(e) \in SUBSET Channel
      BY DEF EdgeOffers
    <3>2. ce \in EdgeOffers(e)
      BY <2>2, <3>1, LowestFacts
    <3>3. QED
      BY <3>2 DEF EdgeOffers
  <2>5. output[e][ce] \in Packet
    BY <2>3, <2>4 DEF TypeOK
  <2>6. Candidate(n) = Met(n, "edge", i, e, ce, output[e][ce])
    BY <1>1 DEF Candidate, i, e
  <2> HIDE DEF ce
  <2>7. QED
    BY <2>2, <2>3, <2>4, <2>5, <2>6 DEF Met, FromEdge
<1>2. CASE RxReady(n) = {} /\ SdReady(n) # {}
  <2>1. j \in SdReady(n)
    <3>1. Len(PortsAt[n]) \in Nat
      BY ConfigAssumption, LenProperties
    <3>2. sdPtr[n] = 0 \/ sdPtr[n] \in 0 .. Len(PortsAt[n]) - 1
      BY DEF TypeOK
    <3>3. SdReady(n) \in SUBSET (0 .. Len(PortsAt[n]) - 1)
      BY DEF SdReady
    <3>4. \E k \in SdReady(n) : MetFirst(k, sdPtr[n], SdReady(n), Len(PortsAt[n]))
      BY <1>2, <3>1, <3>2, <3>3, ScanFinds
    <3>5. QED
      BY <3>4
  <2> HIDE DEF j
  <2>2. j \in 0 .. Len(PortsAt[n]) - 1 /\ PortOffers(p) # {}
    BY <2>1 DEF SdReady
  <2>3. p \in Port /\ NodeOf[p] = n
    <3>1. PortsAt[n] \in Seq(Port)
      BY ConfigAssumption
    <3>2. j + 1 \in DOMAIN PortsAt[n]
      BY <2>2, <3>1, LenProperties
    <3>3. QED
      BY <3>2, PortFacts
  <2> HIDE DEF p
  <2>4. cp \in Channel /\ sendBuf[p][cp] # <<>>
    <3>1. PortOffers(p) \in SUBSET Channel
      BY DEF PortOffers
    <3>2. cp \in PortOffers(p)
      BY <2>2, <3>1, LowestFacts
    <3>3. QED
      BY <3>2 DEF PortOffers
  <2>5. Head(sendBuf[p][cp]) \in Packet
    <3>1. sendBuf[p][cp] \in Seq(Packet)
      BY <2>3, <2>4 DEF TypeOK
    <3>2. QED
      BY <2>4, <3>1, HeadTailProperties
  <2>6. Candidate(n) = Met(n, "port", j, p, cp, Head(sendBuf[p][cp]))
    BY <1>2 DEF Candidate, j, p
  <2> HIDE DEF cp
  <2>7. QED
    BY <2>2, <2>3, <2>4, <2>5, <2>6 DEF Met, FromPort
<1>3. CASE RxReady(n) = {} /\ SdReady(n) = {}
  BY <1>3 DEF Candidate
<1>4. QED
  BY <1>1, <1>2, <1>3

-------------------------------------------------------------------------------
(***************************************************************************)
(* Where packets are.  A cycle is proved in three moves, so these are said *)
(* of the contents S of the send buffers, R of the receive buffers, O of   *)
(* the reassembly buffers, P of the pipelines, and I and Q of the input    *)
(* and output registers.                                                   *)
(***************************************************************************)
Packets(buf) == UNION {Range(buf[p][c]) : p \in Port, c \in Channel}
Orders(O) == UNION {O[n] : n \in Node}
Pipes(P) == UNION {{P[n][i].packet : i \in DOMAIN P[n]} : n \in Node}
Regs(X) == {X[e][c] : e \in Edge, c \in Channel} \ {NoPacket}

\* No two places of one kind hold the same packet.
BufApart(buf) ==
  \A p, q \in Port, c, d \in Channel : \A i \in DOMAIN buf[p][c], j \in DOMAIN buf[q][d] :
    buf[p][c][i] = buf[q][d][j] => p = q /\ c = d /\ i = j
OrderApart(O) == \A n \in Node : \A m \in O[n] : NodeOf[m.dst] = n
PipeApart(P) ==
  \A n, k \in Node : \A i \in DOMAIN P[n], j \in DOMAIN P[k] :
    P[n][i].packet = P[k][j].packet => n = k /\ i = j
RegApart(X) ==
  \A e, f \in Edge, c, d \in Channel :
    X[e][c] # NoPacket /\ X[e][c] = X[f][d] => e = f /\ c = d

\* No two places of different kinds do.
Disjoint(S, R, O, P, I, Q) ==
  /\ S \cap (R \cup O \cup P \cup I \cup Q) = {}
  /\ R \cap (O \cup P \cup I \cup Q) = {}
  /\ O \cap (P \cup I \cup Q) = {}
  /\ P \cap (I \cup Q) = {}
  /\ I \cap Q = {}

Apart(S, R, O, P, I, Q) ==
  /\ BufApart(S) /\ BufApart(R) /\ OrderApart(O) /\ PipeApart(P) /\ RegApart(I) /\ RegApart(Q)
  /\ Disjoint(Packets(S), Packets(R), Orders(O), Pipes(P), Regs(I), Regs(Q))

All(S, R, O, P, I, Q) ==
  Packets(S) \cup Packets(R) \cup Orders(O) \cup Pipes(P) \cup Regs(I) \cup Regs(Q)

Everything == All(sendBuf, recvBuf, orderBuf, pipeline, input, output)

\* The types of the places.
BufType(buf) == buf \in [Port -> [Channel -> Seq(Packet)]]
PipeType(P) == P \in [Node -> Seq([packet : Packet, wait : 0 .. RouteLatency])]
RegType(X) == X \in [Edge -> [Channel -> Packet \cup {NoPacket}]]

\* The elements of a buffer, a pipeline, a register are those of its set.
LEMMA PacketsFacts ==
  ASSUME NEW buf, BufType(buf)
  PROVE  /\ \A p \in Port, c \in Channel : \A i \in DOMAIN buf[p][c] :
              buf[p][c][i] \in Packets(buf) /\ buf[p][c][i] \in Packet
         /\ \A m \in Packets(buf) : m \in Packet /\ \E p \in Port, c \in Channel :
              \E i \in DOMAIN buf[p][c] : m = buf[p][c][i]
<1>1. ASSUME NEW p \in Port, NEW c \in Channel, NEW i \in DOMAIN buf[p][c]
      PROVE  buf[p][c][i] \in Packets(buf) /\ buf[p][c][i] \in Packet
  <2>1. buf[p][c] \in Seq(Packet)
    BY DEF BufType
  <2>2. buf[p][c][i] \in Packet
    BY <2>1, LenProperties, ElementOfSeq
  <2>3. buf[p][c][i] \in Range(buf[p][c])
    BY DEF Range
  <2>4. QED
    BY <2>2, <2>3 DEF Packets
<1>2. ASSUME NEW m \in Packets(buf)
      PROVE  \E p \in Port, c \in Channel : \E i \in DOMAIN buf[p][c] : m = buf[p][c][i]
  BY DEF Packets, Range
<1>3. QED
  BY <1>1, <1>2

LEMMA PipesFacts ==
  ASSUME NEW P, PipeType(P)
  PROVE  /\ \A n \in Node : \A i \in DOMAIN P[n] :
              /\ P[n][i].packet \in Pipes(P)
              /\ P[n][i] \in [packet : Packet, wait : 0 .. RouteLatency]
         /\ \A m \in Pipes(P) : m \in Packet /\ \E n \in Node :
              \E i \in DOMAIN P[n] : m = P[n][i].packet
<1>1. ASSUME NEW n \in Node, NEW i \in DOMAIN P[n]
      PROVE  P[n][i].packet \in Pipes(P) /\ P[n][i] \in [packet : Packet, wait : 0 .. RouteLatency]
  <2>1. P[n] \in Seq([packet : Packet, wait : 0 .. RouteLatency])
    BY DEF PipeType
  <2>2. P[n][i] \in [packet : Packet, wait : 0 .. RouteLatency]
    BY <2>1, LenProperties, ElementOfSeq
  <2>3. P[n][i].packet \in Pipes(P)
    BY DEF Pipes
  <2>4. QED
    BY <2>2, <2>3
<1>2. ASSUME NEW m \in Pipes(P)
      PROVE  \E n \in Node : \E i \in DOMAIN P[n] : m = P[n][i].packet
  BY DEF Pipes
<1>3. QED
  BY <1>1, <1>2

LEMMA RegsFacts ==
  ASSUME NEW X, RegType(X)
  PROVE  /\ \A e \in Edge, c \in Channel :
              X[e][c] # NoPacket => X[e][c] \in Regs(X) /\ X[e][c] \in Packet
         /\ \A m \in Regs(X) : m \in Packet /\ m # NoPacket /\ \E e \in Edge, c \in Channel :
              m = X[e][c]
<1>1. ASSUME NEW e \in Edge, NEW c \in Channel, X[e][c] # NoPacket
      PROVE  X[e][c] \in Regs(X) /\ X[e][c] \in Packet
  BY <1>1 DEF RegType, Regs
<1>2. ASSUME NEW m \in Regs(X)
      PROVE  m # NoPacket /\ \E e \in Edge, c \in Channel : m = X[e][c]
  BY DEF Regs
<1>3. QED
  BY <1>1, <1>2

-------------------------------------------------------------------------------
(***************************************************************************)
(* The first move of a cycle: the intake.                                  *)
(***************************************************************************)
Took == [n \in Node |-> Candidate(n)]
TakenPackets == {Took[n].packet : n \in {k \in Node : Took[k].taken}}
Rest ==
  [p \in Port |-> [c \in Channel |->
     IF TakenFrom(Took[NodeOf[p]], "port", p, c) THEN Tail(sendBuf[p][c]) ELSE sendBuf[p][c]]]
Out ==
  [e \in Edge |-> [c \in Channel |->
     IF TakenFrom(Took[e[2]], "edge", e, c) THEN NoPacket ELSE output[e][c]]]

LEMMA TookFacts ==
  ASSUME TypeOK, NEW n \in Node
  PROVE  /\ Took[n].taken \in BOOLEAN
         /\ Took[n].taken =>
              /\ Took[n].packet \in Packet
              /\ FromEdge(n, Took[n]) \/ FromPort(n, Took[n])
              /\ CanAccept(n, Took[n].packet)
<1>1. Took[n] = Candidate(n)
  BY DEF Took
<1>2. CanAccept(n, Candidate(n).packet) \in BOOLEAN
  BY DEF CanAccept
<1>3. QED
  BY <1>1, <1>2, CandidateFacts

\* The packets taken were in a send buffer or an output register.
LEMMA TakenFacts ==
  ASSUME TypeOK, NEW n \in Node, Took[n].taken
  PROVE  /\ FromPort(n, Took[n]) => Took[n].packet \in Packets(sendBuf)
         /\ FromEdge(n, Took[n]) => Took[n].packet \in Regs(output)
<1>1. ASSUME FromPort(n, Took[n]) PROVE Took[n].packet \in Packets(sendBuf)
  <2> DEFINE b == sendBuf[Took[n].place][Took[n].channel]
  <2>1. b \in Seq(Packet) /\ b # <<>> /\ Took[n].packet = b[1]
    BY <1>1 DEF FromPort, TypeOK
  <2>2. 1 \in DOMAIN b
    BY <2>1, EmptySeq, LenProperties
  <2>3. BufType(sendBuf) /\ Took[n].place \in Port /\ Took[n].channel \in Channel
    BY <1>1 DEF FromPort, TypeOK, BufType
  <2>4. QED
    BY <2>1, <2>2, <2>3, PacketsFacts
<1>2. ASSUME FromEdge(n, Took[n]) PROVE Took[n].packet \in Regs(output)
  <2>1. RegType(output)
    BY DEF TypeOK, RegType
  <2>2. QED
    BY <1>2, <2>1, RegsFacts DEF FromEdge
<1>3. QED
  BY <1>1, <1>2

\* A buffer of which a packet is taken loses its head.
LEMMA HeadTaken ==
  ASSUME TypeOK, NEW n \in Node, FromPort(n, Took[n])
  PROVE  LET b == sendBuf[Took[n].place][Took[n].channel] IN
         1 \in DOMAIN b /\ b[1] = Took[n].packet
<1> DEFINE b == sendBuf[Took[n].place][Took[n].channel]
<1>1. b \in Seq(Packet) /\ b # <<>> /\ Took[n].packet = b[1]
  BY DEF FromPort, TypeOK
<1>2. 1 \in DOMAIN b
  BY <1>1, EmptySeq, LenProperties
<1>3. QED
  BY <1>1, <1>2

\* Two nodes do not take the same packet.
LEMMA TakenOnce ==
  ASSUME TypeOK, BufApart(sendBuf), RegApart(output), Packets(sendBuf) \cap Regs(output) = {},
         NEW n \in Node, NEW k \in Node, Took[n].taken, Took[k].taken,
         Took[n].packet = Took[k].packet
  PROVE  n = k
<1>1. FromPort(n, Took[n]) \/ FromEdge(n, Took[n])
  BY TookFacts
<1>2. FromPort(k, Took[k]) \/ FromEdge(k, Took[k])
  BY TookFacts
<1>3. CASE FromPort(n, Took[n]) /\ FromPort(k, Took[k])
  <2>1. /\ 1 \in DOMAIN sendBuf[Took[n].place][Took[n].channel]
        /\ 1 \in DOMAIN sendBuf[Took[k].place][Took[k].channel]
        /\ sendBuf[Took[n].place][Took[n].channel][1] = sendBuf[Took[k].place][Took[k].channel][1]
    BY <1>3, HeadTaken
  <2>2. /\ Took[n].place \in Port /\ NodeOf[Took[n].place] = n /\ Took[n].channel \in Channel
        /\ Took[k].place \in Port /\ NodeOf[Took[k].place] = k /\ Took[k].channel \in Channel
    BY <1>3 DEF FromPort
  <2>3. Took[n].place = Took[k].place
    BY <2>1, <2>2 DEF BufApart
  <2>4. QED
    BY <2>2, <2>3
<1>4. CASE FromEdge(n, Took[n]) /\ FromEdge(k, Took[k])
  <2>1. /\ Took[n].place \in Edge /\ Took[n].place[2] = n /\ Took[n].channel \in Channel
        /\ Took[k].place \in Edge /\ Took[k].place[2] = k /\ Took[k].channel \in Channel
        /\ output[Took[n].place][Took[n].channel] # NoPacket
        /\ output[Took[n].place][Took[n].channel] = output[Took[k].place][Took[k].channel]
    BY <1>4 DEF FromEdge
  <2>2. Took[n].place = Took[k].place
    BY <2>1 DEF RegApart
  <2>3. QED
    BY <2>1, <2>2
<1>5. CASE FromPort(n, Took[n]) /\ FromEdge(k, Took[k])
  <2>1. Took[n].packet \in Packets(sendBuf) /\ Took[k].packet \in Regs(output)
    BY <1>5, TakenFacts
  <2>2. QED
    BY <2>1
<1>6. CASE FromEdge(n, Took[n]) /\ FromPort(k, Took[k])
  <2>1. Took[k].packet \in Packets(sendBuf) /\ Took[n].packet \in Regs(output)
    BY <1>6, TakenFacts
  <2>2. QED
    BY <2>1
<1>7. QED
  BY <1>1, <1>2, <1>3, <1>4, <1>5, <1>6

\* A send buffer stays as it is or loses its head.
LEMMA RestPlaces ==
  ASSUME TypeOK, NEW p \in Port, NEW c \in Channel
  PROVE  LET hit == TakenFrom(Took[NodeOf[p]], "port", p, c) IN
         /\ Rest[p][c] \in Seq(Packet)
         /\ hit => /\ Took[NodeOf[p]].taken /\ NodeOf[p] \in Node
                   /\ Took[NodeOf[p]].packet = sendBuf[p][c][1]
                   /\ \A i \in DOMAIN Rest[p][c] :
                        /\ i + 1 \in DOMAIN sendBuf[p][c] /\ i + 1 # 1
                        /\ Rest[p][c][i] = sendBuf[p][c][i + 1]
                   /\ \A i \in DOMAIN sendBuf[p][c] : i # 1 =>
                        i - 1 \in DOMAIN Rest[p][c] /\ Rest[p][c][i - 1] = sendBuf[p][c][i]
         /\ ~hit => Rest[p][c] = sendBuf[p][c]
<1> DEFINE hit == TakenFrom(Took[NodeOf[p]], "port", p, c)
           b == sendBuf[p][c]
<1>1. b \in Seq(Packet)
  BY DEF TypeOK
<1>2. Rest[p][c] = IF hit THEN Tail(b) ELSE b
  BY DEF Rest
<1>3. CASE hit
  <2>1. NodeOf[p] \in Node
    BY PortFacts
  <2>2. /\ Took[NodeOf[p]].taken /\ Took[NodeOf[p]].from = "port"
        /\ Took[NodeOf[p]].place = p /\ Took[NodeOf[p]].channel = c
    BY <1>3 DEF TakenFrom
  <2>3. FromPort(NodeOf[p], Took[NodeOf[p]])
    BY <2>1, <2>2, TookFacts DEF FromEdge
  <2>4. b # <<>> /\ Took[NodeOf[p]].packet = b[1]
    BY <1>1, <2>2, <2>3 DEF FromPort
  <2> HIDE DEF b
  <2>5. Len(b) \in Nat /\ DOMAIN b = 1 .. Len(b)
    BY <1>1, LenProperties
  <2>6. /\ Tail(b) \in Seq(Packet) /\ Len(Tail(b)) = Len(b) - 1
        /\ \A i \in 1 .. Len(Tail(b)) : Tail(b)[i] = b[i + 1]
    BY <1>1, <2>4, HeadTailProperties
  <2>7. DOMAIN Tail(b) = 1 .. Len(b) - 1
    BY <2>6, LenProperties
  <2>8. \A i \in DOMAIN Tail(b) : i + 1 \in DOMAIN b /\ i + 1 # 1 /\ Tail(b)[i] = b[i + 1]
    BY <2>5, <2>6, <2>7
  <2>9. \A i \in DOMAIN b : i # 1 => i - 1 \in DOMAIN Tail(b) /\ Tail(b)[i - 1] = b[i]
    BY <2>5, <2>6, <2>7
  <2>10. Rest[p][c] = Tail(b)
    BY <1>2, <1>3 DEF b
  <2>11. Rest[p][c] \in Seq(Packet)
    BY <2>6, <2>10
  <2>12. \A i \in DOMAIN Rest[p][c] : i + 1 \in DOMAIN b /\ i + 1 # 1 /\ Rest[p][c][i] = b[i + 1]
    BY <2>8, <2>10
  <2>13. \A i \in DOMAIN b : i # 1 => i - 1 \in DOMAIN Rest[p][c] /\ Rest[p][c][i - 1] = b[i]
    BY <2>9, <2>10
  <2>14. QED
    BY <1>3, <2>1, <2>2, <2>4, <2>11, <2>12, <2>13 DEF b
<1>4. CASE ~hit
  BY <1>1, <1>2, <1>4
<1>5. QED
  BY <1>3, <1>4

\* The send buffers lose the packets taken from them, and nothing else.
LEMMA RestFacts ==
  ASSUME TypeOK, BufApart(sendBuf), RegApart(output), Packets(sendBuf) \cap Regs(output) = {}
  PROVE  /\ BufType(Rest)
         /\ BufApart(Rest)
         /\ Packets(Rest) = Packets(sendBuf) \ TakenPackets
<1> DEFINE Hit(p, c) == TakenFrom(Took[NodeOf[p]], "port", p, c)
<1>1. BufType(sendBuf)
  BY DEF TypeOK, BufType
<1>2. ASSUME NEW p \in Port, NEW c \in Channel, Hit(p, c)
      PROVE  /\ Took[NodeOf[p]].taken /\ NodeOf[p] \in Node
             /\ Took[NodeOf[p]].packet = sendBuf[p][c][1]
  BY <1>2, RestPlaces
<1>3. ASSUME NEW p \in Port, NEW c \in Channel
      PROVE  /\ Rest[p][c] \in Seq(Packet)
             /\ Hit(p, c) => \A i \in DOMAIN Rest[p][c] :
                  /\ i + 1 \in DOMAIN sendBuf[p][c] /\ i + 1 # 1
                  /\ Rest[p][c][i] = sendBuf[p][c][i + 1]
             /\ Hit(p, c) => \A i \in DOMAIN sendBuf[p][c] : i # 1 =>
                  i - 1 \in DOMAIN Rest[p][c] /\ Rest[p][c][i - 1] = sendBuf[p][c][i]
             /\ ~Hit(p, c) => Rest[p][c] = sendBuf[p][c]
  BY RestPlaces
<1>4. BufType(Rest)
  <2>1. \A p \in Port, c \in Channel : Rest[p][c] \in Seq(Packet)
    BY <1>3
  <2>2. Rest = [p \in Port |-> [c \in Channel |-> Rest[p][c]]]
    BY DEF Rest
  <2>3. QED
    BY <2>1, <2>2 DEF BufType
\* Every place of Rest holds what a place of sendBuf holds, which is not a hit.
<1> DEFINE At(p, c, i) == IF Hit(p, c) THEN i + 1 ELSE i
<1>5. ASSUME NEW p \in Port, NEW c \in Channel, NEW i \in DOMAIN Rest[p][c]
      PROVE  /\ At(p, c, i) \in DOMAIN sendBuf[p][c] /\ Rest[p][c][i] = sendBuf[p][c][At(p, c, i)]
             /\ i \in Nat
             /\ Hit(p, c) => At(p, c, i) # 1
  <2>1. Rest[p][c] \in Seq(Packet)
    BY <1>3
  <2>2. i \in Nat
    BY <2>1, LenProperties
  <2>3. QED
    BY <1>3, <2>2
<1> HIDE DEF Hit
<1>6. BufApart(Rest)
  <2> SUFFICES ASSUME NEW p \in Port, NEW q \in Port, NEW c \in Channel, NEW d \in Channel,
                      NEW i \in DOMAIN Rest[p][c], NEW j \in DOMAIN Rest[q][d],
                      Rest[p][c][i] = Rest[q][d][j]
               PROVE  p = q /\ c = d /\ i = j
    BY DEF BufApart
  <2>1. /\ At(p, c, i) \in DOMAIN sendBuf[p][c] /\ Rest[p][c][i] = sendBuf[p][c][At(p, c, i)]
        /\ At(q, d, j) \in DOMAIN sendBuf[q][d] /\ Rest[q][d][j] = sendBuf[q][d][At(q, d, j)]
        /\ i \in Nat /\ j \in Nat
    BY <1>5
  <2> HIDE DEF At
  <2>2. p = q /\ c = d /\ At(p, c, i) = At(q, d, j)
    <3>1. PICK a \in DOMAIN sendBuf[p][c] : a = At(p, c, i) /\ Rest[p][c][i] = sendBuf[p][c][a]
      BY <2>1
    <3>2. PICK b \in DOMAIN sendBuf[q][d] : b = At(q, d, j) /\ Rest[q][d][j] = sendBuf[q][d][b]
      BY <2>1
    <3>3. sendBuf[p][c][a] = sendBuf[q][d][b]
      BY <3>1, <3>2
    <3>4. p = q /\ c = d /\ a = b
      BY <3>3 DEF BufApart
    <3>5. QED
      BY <3>1, <3>2, <3>4
  <2>3. i = j
    BY <2>1, <2>2 DEF At
  <2>4. QED
    BY <2>2, <2>3
<1>7. ASSUME NEW m \in Packets(Rest) PROVE m \in Packets(sendBuf) /\ m \notin TakenPackets
  <2>1. PICK p \in Port, c \in Channel : \E i \in DOMAIN Rest[p][c] : m = Rest[p][c][i]
    BY <1>4, PacketsFacts
  <2>2. PICK i \in DOMAIN Rest[p][c] : m = Rest[p][c][i]
    BY <2>1
  <2>3. /\ At(p, c, i) \in DOMAIN sendBuf[p][c] /\ m = sendBuf[p][c][At(p, c, i)]
        /\ Hit(p, c) => At(p, c, i) # 1
    BY <1>5, <2>2
  <2> HIDE DEF At
  <2>4. m \in Packets(sendBuf)
    BY <1>1, <2>3, PacketsFacts
  <2>5. ASSUME m \in TakenPackets PROVE FALSE
    <3>1. PICK n \in Node : Took[n].taken /\ Took[n].packet = m
      BY <2>5 DEF TakenPackets
    <3>2. FromPort(n, Took[n])
      BY <2>4, <3>1, TookFacts, TakenFacts
    <3>3. /\ 1 \in DOMAIN sendBuf[Took[n].place][Took[n].channel]
          /\ sendBuf[Took[n].place][Took[n].channel][1] = m
      BY <3>1, <3>2, HeadTaken
    <3>4. /\ Took[n].place \in Port /\ NodeOf[Took[n].place] = n /\ Took[n].channel \in Channel
          /\ Took[n].from = "port"
      BY <3>2 DEF FromPort
    <3>5. Took[n].place = p /\ Took[n].channel = c /\ At(p, c, i) = 1
      BY <2>3, <3>3, <3>4 DEF BufApart
    <3>6. Hit(p, c)
      BY <3>1, <3>4, <3>5 DEF Hit, TakenFrom
    <3>7. QED
      BY <2>3, <3>5, <3>6
  <2>6. QED
    BY <2>4, <2>5
<1>8. ASSUME NEW m \in Packets(sendBuf), m \notin TakenPackets PROVE m \in Packets(Rest)
  <2>1. PICK p \in Port, c \in Channel : \E i \in DOMAIN sendBuf[p][c] : m = sendBuf[p][c][i]
    BY <1>1, PacketsFacts
  <2>2. PICK i \in DOMAIN sendBuf[p][c] : m = sendBuf[p][c][i]
    BY <2>1
  <2>3. CASE Hit(p, c)
    <3>1. Took[NodeOf[p]].packet \in TakenPackets
      BY <1>2, <2>3 DEF TakenPackets, Hit
    <3>2. i # 1
      BY <1>2, <1>8, <2>2, <2>3, <3>1 DEF Hit
    <3>3. i - 1 \in DOMAIN Rest[p][c] /\ Rest[p][c][i - 1] = m
      BY <1>3, <2>2, <2>3, <3>2 DEF Hit
    <3>4. QED
      BY <1>4, <3>3, PacketsFacts
  <2>4. CASE ~Hit(p, c)
    <3>1. i \in DOMAIN Rest[p][c] /\ Rest[p][c][i] = m
      BY <1>3, <2>2, <2>4 DEF Hit
    <3>2. QED
      BY <1>4, <3>1, PacketsFacts
  <2>5. QED
    BY <2>3, <2>4
<1>9. QED
  BY <1>4, <1>6, <1>7, <1>8

\* The output registers lose the packets taken from them, and nothing else.
LEMMA OutFacts ==
  ASSUME TypeOK, BufApart(sendBuf), RegApart(output), Packets(sendBuf) \cap Regs(output) = {}
  PROVE  /\ RegType(Out)
         /\ RegApart(Out)
         /\ Regs(Out) = Regs(output) \ TakenPackets
<1> DEFINE Hit(e, c) == TakenFrom(Took[e[2]], "edge", e, c)
<1>1. RegType(output)
  BY DEF TypeOK, RegType
<1>2. ASSUME NEW e \in Edge, NEW c \in Channel, Hit(e, c)
      PROVE  Took[e[2]].taken /\ e[2] \in Node /\ Took[e[2]].packet = output[e][c]
  <2>1. e[2] \in Node
    BY EdgeFacts
  <2>2. /\ Took[e[2]].taken /\ Took[e[2]].from = "edge"
        /\ Took[e[2]].place = e /\ Took[e[2]].channel = c
    BY <1>2 DEF TakenFrom
  <2>3. FromEdge(e[2], Took[e[2]])
    BY <2>1, <2>2, TookFacts DEF FromPort
  <2>4. QED
    BY <2>1, <2>2, <2>3 DEF FromEdge
<1>3. ASSUME NEW e \in Edge, NEW c \in Channel
      PROVE  Out[e][c] = IF Hit(e, c) THEN NoPacket ELSE output[e][c]
  BY DEF Out
<1>4. RegType(Out)
  <2>1. \A e \in Edge, c \in Channel : Out[e][c] \in Packet \cup {NoPacket}
    BY <1>1, <1>3 DEF RegType
  <2>2. Out = [e \in Edge |-> [c \in Channel |-> Out[e][c]]]
    BY DEF Out
  <2>3. QED
    BY <2>1, <2>2 DEF RegType
<1> HIDE DEF Hit
<1>5. RegApart(Out)
  BY <1>3 DEF RegApart
<1>6. ASSUME NEW m \in Regs(Out) PROVE m \in Regs(output) /\ m \notin TakenPackets
  <2>1. PICK e \in Edge, c \in Channel : m = Out[e][c] /\ m # NoPacket
    BY <1>4, RegsFacts
  <2>2. m = output[e][c] /\ ~Hit(e, c)
    BY <1>3, <2>1
  <2>3. m \in Regs(output)
    BY <1>1, <2>1, <2>2, RegsFacts
  <2>4. ASSUME m \in TakenPackets PROVE FALSE
    <3>1. PICK n \in Node : Took[n].taken /\ Took[n].packet = m
      BY <2>4 DEF TakenPackets
    <3>2. FromEdge(n, Took[n])
      BY <2>3, <3>1, TookFacts, TakenFacts
    <3>3. /\ Took[n].place \in Edge /\ Took[n].place[2] = n /\ Took[n].channel \in Channel
          /\ Took[n].from = "edge" /\ output[Took[n].place][Took[n].channel] = m
      BY <3>1, <3>2 DEF FromEdge
    <3>4. Took[n].place = e /\ Took[n].channel = c
      BY <2>1, <2>2, <3>3 DEF RegApart
    <3>5. Hit(e, c)
      BY <3>1, <3>3, <3>4 DEF Hit, TakenFrom
    <3>6. QED
      BY <2>2, <3>5
  <2>5. QED
    BY <2>3, <2>4
<1>7. ASSUME NEW m \in Regs(output), m \notin TakenPackets PROVE m \in Regs(Out)
  <2>1. PICK e \in Edge, c \in Channel : m = output[e][c] /\ m # NoPacket
    BY <1>1, RegsFacts
  <2>2. CASE Hit(e, c)
    BY <1>2, <1>7, <2>1, <2>2 DEF TakenPackets, Hit
  <2>3. CASE ~Hit(e, c)
    BY <1>3, <1>4, <2>1, <2>3, RegsFacts
  <2>4. QED
    BY <2>2, <2>3
<1>8. QED
  BY <1>4, <1>5, <1>6, <1>7

-------------------------------------------------------------------------------
(***************************************************************************)
(* Messages as wholes.                                                     *)
(***************************************************************************)

\* Every packet of a message is there as soon as one is; the packets of one
\* message differ in idx only.
Whole(A) == \A m \in A : m.idx < m.count /\ \A i \in 0 .. m.count - 1 : [m EXCEPT !.idx = i] \in A
Consistent(A) == \A m, k \in A : m.id = k.id => k = [m EXCEPT !.idx = k.idx]

\* All packets of the message of m in order.
Block(m) == [i \in 1 .. m.count |-> [m EXCEPT !.idx = i - 1]]

LEMMA BlockFacts ==
  ASSUME NEW m \in Packet
  PROVE  /\ Block(m) \in Seq(Packet) /\ Len(Block(m)) = m.count
         /\ DOMAIN Block(m) = 1 .. m.count /\ m.count \in Nat
         /\ \A i \in 1 .. m.count :
              /\ Block(m)[i] = [m EXCEPT !.idx = i - 1] /\ Block(m)[i] \in Packet
              /\ Block(m)[i].id = m.id /\ Block(m)[i].dst = m.dst
              /\ Block(m)[i].channel = m.channel /\ Block(m)[i].idx = i - 1
              /\ Block(m)[i].count = m.count
<1>1. m.count \in Nat
  BY DEF Packet
<1>2. \A i \in 1 .. m.count : Block(m)[i] = [m EXCEPT !.idx = i - 1]
  BY DEF Block
<1>3. ASSUME NEW i \in 1 .. m.count
      PROVE  LET x == [m EXCEPT !.idx = i - 1] IN
             /\ x \in Packet /\ x.id = m.id /\ x.dst = m.dst /\ x.channel = m.channel
             /\ x.idx = i - 1 /\ x.count = m.count
  <2>1. i - 1 \in Nat
    BY <1>1
  <2>2. QED
    BY <2>1 DEF Packet
<1>4. DOMAIN Block(m) = 1 .. m.count
  BY DEF Block
<1>5. Block(m) \in Seq(Packet) /\ Len(Block(m)) = m.count
  <2>1. Block(m) \in [1 .. m.count -> Packet]
    BY <1>2, <1>3, <1>4 DEF Block
  <2>2. QED
    BY <1>1, <2>1, <1>4, SeqDef
<1>6. QED
  BY <1>1, <1>2, <1>3, <1>4, <1>5

\* As many packets of a message as it has are all of its packets, and are put in order.
LEMMA InOrderFacts ==
  ASSUME NEW S \in SUBSET Packet, NEW m \in S, \A q \in S : q.id = m.id /\ q.idx < q.count,
         Consistent(S), Cardinality(S) = m.count
  PROVE  /\ InOrder(S) = Block(m)
         /\ \A i \in 1 .. m.count : Block(m)[i] \in S
         /\ \A q \in S : \E i \in 1 .. m.count : q = Block(m)[i]
<1> DEFINE n == m.count
           f == [q \in S |-> q.idx]
<1>1. n \in Nat
  BY DEF Packet
<1>2. \A q \in S : q = [m EXCEPT !.idx = q.idx] /\ q.count = n /\ q.idx \in 0 .. n - 1
  BY DEF Consistent, Packet
<1> HIDE DEF n
<1>3. IsFiniteSet(0 .. n - 1) /\ Cardinality(0 .. n - 1) = n
  <2>1. 0 \in Int /\ n - 1 \in Int
    BY <1>1
  <2>2. /\ IsFiniteSet(0 .. n - 1)
        /\ Cardinality(0 .. n - 1) = IF 0 > n - 1 THEN 0 ELSE n - 1 - 0 + 1
    BY <2>1, FS_Interval, Zenon
  <2>3. (0 > n - 1 => n = 0) /\ n - 1 - 0 + 1 = n
    BY <1>1
  <2>4. QED
    BY <2>2, <2>3
<1>4. f \in Injection(S, 0 .. n - 1)
  <2>1. f \in [S -> 0 .. n - 1]
    BY <1>2
  <2>2. ASSUME NEW q \in S, NEW r \in S, f[q] = f[r] PROVE q = r
    BY <1>2, <2>2
  <2>3. QED
    BY <2>1, <2>2 DEF Injection, IsInjective
<1>5. f \in Surjection(S, 0 .. n - 1)
  <2>1. Cardinality(S) = n
    BY DEF n
  <2> HIDE DEF f
  <2>2. QED
    BY <1>3, <1>4, <2>1, FS_Injection
<1>6. \A k \in 0 .. n - 1 : \E q \in S : q.idx = k
  BY <1>5 DEF Surjection
<1>7. ASSUME NEW q \in S
      PROVE  Cardinality({x \in S : x.idx < q.idx}) = q.idx
  <2> DEFINE L == {x \in S : x.idx < q.idx}
             k == q.idx
             g == [x \in L |-> x.idx]
  <2>1. k \in 0 .. n - 1
    BY <1>2
  <2>2. IsFiniteSet(0 .. k - 1) /\ Cardinality(0 .. k - 1) = k
    <3>1. k \in Nat /\ 0 \in Int /\ k - 1 \in Int
      BY <1>1, <2>1
    <3> HIDE DEF k
    <3>2. IsFiniteSet(0 .. k - 1) /\ Cardinality(0 .. k - 1) = IF 0 > k - 1 THEN 0 ELSE k - 1 - 0 + 1
      BY <3>1, FS_Interval
    <3>3. QED
      BY <3>1, <3>2
  <2>3. g \in [L -> 0 .. k - 1] /\ \A x \in L : g[x] = x.idx
    <3>1. \A x \in L : x.idx \in 0 .. k - 1
      BY <1>1, <1>2, <2>1
    <3> HIDE DEF L
    <3>2. QED
      BY <3>1
  <2>4. \A x \in L : x \in S
    OBVIOUS
  <2>5. \A j \in 0 .. k - 1 : \E x \in L : x.idx = j
    BY <1>1, <1>6, <2>1
  <2> HIDE DEF L, g
  <2>6. g \in Injection(L, 0 .. k - 1)
    <3>1. ASSUME NEW x \in L, NEW y \in L, g[x] = g[y] PROVE x = y
      BY <1>2, <2>3, <2>4, <3>1
    <3>2. QED
      BY <2>3, <3>1 DEF Injection, IsInjective
  <2>7. g \in Surjection(L, 0 .. k - 1)
    BY <2>3, <2>5 DEF Surjection
  <2> HIDE DEF k
  <2>8. Cardinality(L) = Cardinality(0 .. k - 1)
    BY <2>2, <2>6, <2>7, FS_Injection
  <2>9. QED
    BY <2>2, <2>8 DEF L, k
<1> DEFINE rank(x) == Cardinality({q \in S : q.idx < x.idx})
<1>8. InOrder(S) = [i \in 1 .. n |-> CHOOSE x \in S : rank(x) = i - 1]
  BY DEF InOrder, n
<1>9. \A x \in S : rank(x) = x.idx
  BY <1>7
<1> HIDE DEF rank
<1>10. ASSUME NEW i \in 1 .. n
       PROVE  InOrder(S)[i] = [m EXCEPT !.idx = i - 1] /\ InOrder(S)[i] \in S
  <2>1. \E x \in S : rank(x) = i - 1
    <3>1. i - 1 \in 0 .. n - 1
      BY <1>1
    <3>2. QED
      BY <1>6, <1>9, <3>1
  <2>2. PICK x \in S : x = InOrder(S)[i] /\ rank(x) = i - 1
    BY <1>8, <2>1
  <2>3. QED
    BY <1>2, <1>9, <2>2
<1>11. InOrder(S) = Block(m)
  BY <1>8, <1>10 DEF Block, n
<1>12. \A i \in 1 .. n : Block(m)[i] \in S
  BY <1>10, <1>11
<1>13. ASSUME NEW q \in S PROVE \E i \in 1 .. n : q = Block(m)[i]
  <2>1. q.idx + 1 \in 1 .. n /\ (q.idx + 1) - 1 = q.idx
    BY <1>1, <1>2
  <2>2. Block(m)[q.idx + 1] = q
    BY <1>2, <2>1 DEF Block, n
  <2>3. QED
    BY <2>1, <2>2
<1>14. QED
  BY <1>11, <1>12, <1>13 DEF n

\* A sequence of whole messages for port p and channel c, each in order.
WholeSeq(r, p, c) ==
  \A i \in DOMAIN r :
    /\ r[i].dst = p /\ r[i].channel = c /\ r[i].idx < r[i].count
    /\ i - r[i].idx \in DOMAIN r
    /\ i - r[i].idx + r[i].count - 1 \in DOMAIN r
    /\ \A k \in 0 .. r[i].count - 1 : r[i - r[i].idx + k] = [r[i] EXCEPT !.idx = k]

\* One more message at the end.
LEMMA WholeSeqAppend ==
  ASSUME NEW p \in Port, NEW c \in Channel, NEW r \in Seq(Packet), WholeSeq(r, p, c),
         NEW m \in Packet, m.dst = p, m.channel = c, m.idx < m.count
  PROVE  WholeSeq(r \o Block(m), p, c)
<1> DEFINE b == Block(m)
           s == r \o b
           n == Len(r)
           k == m.count
<1>1. /\ b \in Seq(Packet) /\ Len(b) = k /\ k \in Nat
      /\ \A i \in 1 .. k : /\ b[i] = [m EXCEPT !.idx = i - 1] /\ b[i].dst = p /\ b[i].channel = c
                           /\ b[i].idx = i - 1 /\ b[i].count = k
  BY BlockFacts
<1>2. k # 0
  BY DEF Packet
<1>3. n \in Nat /\ DOMAIN r = 1 .. n
  BY LenProperties
<1> HIDE DEF b
<1>4. s \in Seq(Packet) /\ Len(s) = n + k
      /\ \A i \in 1 .. n + k : s[i] = IF i <= n THEN r[i] ELSE b[i - n]
  <2>1. /\ r \o b \in Seq(Packet) /\ Len(r \o b) = Len(r) + Len(b)
        /\ \A i \in 1 .. Len(r) + Len(b) :
             (r \o b)[i] = IF i <= Len(r) THEN r[i] ELSE b[i - Len(r)]
    <3>1. b \in Seq(Packet)
      BY <1>1
    <3>2. QED
      BY <3>1, ConcatProperties, Zenon
  <2> HIDE DEF k
  <2>2. QED
    BY <1>1, <2>1
<1> HIDE DEF s
<1>5. DOMAIN s = 1 .. n + k
  BY <1>4, LenProperties
<1> HIDE DEF n
<1> SUFFICES ASSUME NEW i \in 1 .. n + k
             PROVE  /\ s[i].dst = p /\ s[i].channel = c /\ s[i].idx < s[i].count
                    /\ i - s[i].idx \in 1 .. n + k
                    /\ i - s[i].idx + s[i].count - 1 \in 1 .. n + k
                    /\ \A j \in 0 .. s[i].count - 1 : s[i - s[i].idx + j] = [s[i] EXCEPT !.idx = j]
  BY <1>5 DEF WholeSeq, s, b
<1>6. CASE i <= n
  <2>1. i \in 1 .. n /\ s[i] = r[i]
    BY <1>3, <1>4, <1>6
  <2> DEFINE x == r[i].idx
             y == r[i].count
  <2>2. r[i] \in Packet
    BY <1>3, <2>1, ElementOfSeq DEF n
  <2>3. x \in Nat /\ y \in Nat
    BY <2>2 DEF Packet
  <2>4. /\ r[i].dst = p /\ r[i].channel = c /\ x < y
        /\ i - x \in 1 .. n /\ i - x + y - 1 \in 1 .. n
        /\ \A j \in 0 .. y - 1 : r[i - x + j] = [r[i] EXCEPT !.idx = j]
    BY <1>3, <2>1 DEF WholeSeq
  <2> HIDE DEF x, y
  <2>5. ASSUME NEW j \in 0 .. y - 1 PROVE s[i - x + j] = [r[i] EXCEPT !.idx = j]
    <3>1. i - x + j \in 1 .. n
      BY <1>3, <2>1, <2>3, <2>4
    <3>2. i - x + j \in 1 .. n + k /\ i - x + j <= n
      BY <1>1, <1>3, <3>1
    <3>3. s[i - x + j] = r[i - x + j]
      BY <1>4, <3>2
    <3>4. QED
      BY <2>4, <3>3
  <2>6. i - x \in 1 .. n + k /\ i - x + y - 1 \in 1 .. n + k
    BY <1>1, <1>3, <2>1, <2>3, <2>4
  <2>7. QED
    BY <2>1, <2>4, <2>5, <2>6 DEF x, y
<1>7. CASE ~(i <= n)
  <2> DEFINE h == i - n
  <2>1. h \in 1 .. k /\ i = n + h
    BY <1>1, <1>3, <1>7
  <2>2. s[i] = b[h]
    BY <1>4, <1>7
  <2> HIDE DEF h
  <2>3. /\ s[i] = [m EXCEPT !.idx = h - 1] /\ s[i].dst = p /\ s[i].channel = c
        /\ s[i].idx = h - 1 /\ s[i].count = k
    BY <1>1, <2>1, <2>2
  <2>4. s[i].idx < s[i].count /\ i - s[i].idx = n + 1 /\ i - s[i].idx \in 1 .. n + k
        /\ i - s[i].idx + s[i].count - 1 \in 1 .. n + k
    <3>1. h - 1 < k /\ i - (h - 1) = n + 1
      BY <1>1, <1>3, <2>1
    <3>2. n + 1 \in 1 .. n + k /\ (n + 1) + k - 1 \in 1 .. n + k
      BY <1>1, <1>3, <2>1
    <3>3. QED
      BY <2>3, <3>1, <3>2
  <2>5. ASSUME NEW j \in 0 .. k - 1
        PROVE  s[n + 1 + j] = [s[i] EXCEPT !.idx = j]
    <3>1. n + 1 + j \in 1 .. n + k /\ ~(n + 1 + j <= n) /\ (n + 1 + j) - n = j + 1
          /\ j + 1 \in 1 .. k /\ (j + 1) - 1 = j
      <4>1. n \in Nat /\ k \in Nat
        BY <1>1, <1>3
      <4>2. QED
        BY <4>1
    <3>2. s[n + 1 + j] = b[j + 1]
      BY <1>4, <3>1
    <3>3. b[j + 1] = [m EXCEPT !.idx = j]
      BY <1>1, <3>1
    <3>4. [s[i] EXCEPT !.idx = j] = [m EXCEPT !.idx = j]
      BY <2>3 DEF Packet
    <3>5. QED
      BY <3>2, <3>3, <3>4
  <2>6. QED
    BY <2>3, <2>4, <2>5
<1>8. QED
  BY <1>6, <1>7

\* The first message gone.
LEMMA WholeSeqDrop ==
  ASSUME NEW p \in Port, NEW c \in Channel, NEW r \in Seq(Packet), WholeSeq(r, p, c), r # <<>>
  PROVE  LET k == Head(r).count
             s == SubSeq(r, k + 1, Len(r))
         IN /\ r[1] = Head(r) /\ Head(r) \in Packet /\ Head(r).idx = 0
            /\ Head(r).dst = p /\ Head(r).channel = c
            /\ k \in 1 .. Len(r)
            /\ \A i \in 1 .. k : r[i] = [Head(r) EXCEPT !.idx = i - 1]
            /\ s \in Seq(Packet) /\ Len(s) = Len(r) - k
            /\ \A i \in DOMAIN s : i + k \in DOMAIN r /\ s[i] = r[i + k]
            /\ WholeSeq(s, p, c)
<1> DEFINE k == Head(r).count
           s == SubSeq(r, k + 1, Len(r))
           n == Len(r)
<1>1. n \in Nat /\ n # 0 /\ DOMAIN r = 1 .. n
  BY LenProperties, EmptySeq
<1>2. \A i \in 1 .. n : r[i] \in Packet
  BY <1>1, ElementOfSeq
<1>3. r[1] = Head(r) /\ Head(r) \in Packet
  BY <1>1, <1>2
<1>4. k \in Nat /\ Head(r).idx \in Nat
  BY <1>3 DEF Packet
<1>5. /\ Head(r).dst = p /\ Head(r).channel = c
      /\ 1 - Head(r).idx \in 1 .. n
      /\ 1 - Head(r).idx + k - 1 \in 1 .. n
      /\ \A j \in 0 .. k - 1 : r[1 - Head(r).idx + j] = [r[1] EXCEPT !.idx = j]
  <2>1. 1 \in DOMAIN r
    BY <1>1
  <2>2. QED
    BY <1>1, <1>3, <2>1 DEF WholeSeq
<1>6. Head(r).idx = 0 /\ k \in 1 .. n
  BY <1>1, <1>4, <1>5
<1>7. \A i \in 1 .. k : r[i] = [Head(r) EXCEPT !.idx = i - 1]
  <2> SUFFICES ASSUME NEW i \in 1 .. k PROVE r[i] = [Head(r) EXCEPT !.idx = i - 1]
    OBVIOUS
  <2>1. i - 1 \in 0 .. k - 1 /\ 1 - 0 + (i - 1) = i
    BY <1>4
  <2>2. QED
    BY <1>3, <1>5, <1>6, <2>1
<1>8. s \in Seq(Packet) /\ Len(s) = n - k /\ \A i \in 1 .. n - k : s[i] = r[i + k]
  <2> HIDE DEF n, k
  <2>1. k + 1 \in Int /\ n \in Int /\ \A i \in k + 1 .. n : r[i] \in Packet
    BY <1>1, <1>2, <1>6
  <2>2. /\ SubSeq(r, k + 1, n) \in Seq(Packet)
        /\ Len(SubSeq(r, k + 1, n)) = IF k + 1 <= n THEN n - (k + 1) + 1 ELSE 0
        /\ \A i \in 1 .. n - (k + 1) + 1 : SubSeq(r, k + 1, n)[i] = r[(k + 1) + i - 1]
    BY <2>1, SubSeqProperties
  <2>3. Len(SubSeq(r, k + 1, n)) = n - k
    BY <1>1, <1>6, <2>2
  <2>4. ASSUME NEW i \in 1 .. n - k PROVE SubSeq(r, k + 1, n)[i] = r[i + k]
    <3>1. i \in 1 .. n - (k + 1) + 1 /\ (k + 1) + i - 1 = i + k
      BY <1>1, <1>6
    <3>2. QED
      BY <2>2, <3>1
  <2>5. QED
    BY <2>2, <2>3, <2>4 DEF n
<1> HIDE DEF s
<1>9. DOMAIN s = 1 .. n - k
  BY <1>8, LenProperties
<1> HIDE DEF n, k
<1>10. ASSUME NEW i \in 1 .. n - k PROVE i + k \in 1 .. n /\ s[i] = r[i + k]
  BY <1>1, <1>6, <1>8
<1>11. WholeSeq(s, p, c)
  <2> SUFFICES ASSUME NEW i \in 1 .. n - k
               PROVE  /\ s[i].dst = p /\ s[i].channel = c /\ s[i].idx < s[i].count
                      /\ i - s[i].idx \in 1 .. n - k
                      /\ i - s[i].idx + s[i].count - 1 \in 1 .. n - k
                      /\ \A j \in 0 .. s[i].count - 1 : s[i - s[i].idx + j] = [s[i] EXCEPT !.idx = j]
    BY <1>9 DEF WholeSeq
  <2> DEFINE h == i + k
             x == s[i].idx
             y == s[i].count
  <2>1. h \in 1 .. n /\ s[i] = r[h] /\ s[i] \in Packet
    BY <1>2, <1>10
  <2>2. /\ r[h].dst = p /\ r[h].channel = c /\ x < y
        /\ h - x \in 1 .. n /\ h - x + y - 1 \in 1 .. n
        /\ \A j \in 0 .. y - 1 : r[h - x + j] = [r[h] EXCEPT !.idx = j]
    BY <1>1, <2>1 DEF WholeSeq
  <2>3. x \in Nat /\ y \in Nat
    BY <2>1 DEF Packet
  \* The message of s[i] starts behind the first message.
  <2>4. h - x > k
    <3> SUFFICES ASSUME h - x <= k PROVE FALSE
      BY <1>1, <1>6, <2>1, <2>3
    <3> DEFINE t == h - x
    <3>1. t \in 1 .. k
      BY <1>6, <2>2
    <3>2. 0 \in 0 .. y - 1
      BY <1>1, <1>6, <2>1, <2>2, <2>3
    <3>3. r[h - x + 0] = [r[h] EXCEPT !.idx = 0]
      BY <2>2, <3>2
    <3>4. r[t] = [Head(r) EXCEPT !.idx = t - 1]
      BY <1>7, <3>1 DEF k
    <3>5. h - x + 0 = t
      BY <2>3, <1>6
    <3>6. r[t].idx = 0 /\ r[t].count = y
      BY <2>1, <3>3, <3>5 DEF Packet
    <3>7. r[t].idx = t - 1 /\ r[t].count = k
      BY <1>3, <3>4 DEF Packet, k
    <3>8. t = 1 /\ y = k
      BY <3>1, <3>6, <3>7
    <3>9. h = 1 + x /\ h > k
      BY <1>1, <1>6, <2>1, <2>3, <3>8
    <3>10. QED
      BY <1>6, <2>2, <2>3, <3>8, <3>9
  <2>5. i - x \in 1 .. n - k /\ i - x + y - 1 \in 1 .. n - k
    <3>1. k \in Nat /\ n \in Nat /\ i \in Nat /\ x \in Nat /\ y \in Nat
      BY <1>1, <1>4, <2>3 DEF k
    <3>2. h - x \in 1 .. n /\ h - x + y - 1 \in 1 .. n /\ h - x > k /\ x < y
      BY <2>2, <2>4
    <3> HIDE DEF x, y
    <3>3. QED
      BY <3>1, <3>2
  <2>6. ASSUME NEW j \in 0 .. y - 1
        PROVE  s[i - x + j] = [s[i] EXCEPT !.idx = j]
    <3> HIDE DEF x, y
    <3>1. i - x + j \in 1 .. n - k
      BY <1>1, <1>6, <2>3, <2>5
    <3>2. s[i - x + j] = r[i - x + j + k]
      BY <1>10, <3>1
    <3>3. i - x + j + k = h - x + j
      BY <1>6, <2>3
    <3>4. QED
      BY <2>1, <2>2, <3>2, <3>3
  <2>7. QED
    BY <2>1, <2>2, <2>5, <2>6
<1>12. QED
  BY <1>1, <1>3, <1>5, <1>6, <1>7, <1>8, <1>9, <1>10, <1>11 DEF k, s, n

-------------------------------------------------------------------------------
(***************************************************************************)
(* Reassembly.                                                             *)
(***************************************************************************)
Separate == Apart(sendBuf, recvBuf, orderBuf, pipeline, input, output)

OrderNext == [n \in Node |-> OrderAfter(n, Took[n])]
RecvNext == [p \in Port |-> [c \in Channel |-> RecvAfter(p, c, Took[NodeOf[p]])]]
Arrivals == {Took[n].packet : n \in {k \in Node : Arrives(k, Took[k])}}
Done(n) == Completes(n, Took[n])

\* What is known of the packets the network holds.
Sound == Consistent(Everything) /\ \A m \in Everything : m.idx < m.count

\* The packets taken are among them.
LEMMA TakenHeld ==
  ASSUME TypeOK, NEW n \in Node, Took[n].taken
  PROVE  /\ Took[n].packet \in Packets(sendBuf) \cup Regs(output)
         /\ Took[n].packet \in Everything /\ Took[n].packet \in Packet
<1>1. Took[n].packet \in Packets(sendBuf) \cup Regs(output)
  BY TookFacts, TakenFacts
<1>2. QED
  BY <1>1, TookFacts DEF Everything, All

\* A message that is complete is handed over in order.
LEMMA DoneFacts ==
  ASSUME TypeOK, Sound, NEW n \in Node, Done(n)
  PROVE  LET m == Took[n].packet IN
         /\ Took[n].taken /\ m \in Packet /\ m.idx < m.count /\ NodeOf[m.dst] = n
         /\ InOrder(Together(n, m)) = Block(m)
         /\ \A i \in 1 .. m.count : Block(m)[i] \in Together(n, m)
         /\ \A q \in Together(n, m) : \E i \in 1 .. m.count : q = Block(m)[i]
<1> DEFINE m == Took[n].packet
           S == Together(n, m)
<1>1. Took[n].taken /\ Local(n, m) /\ Cardinality(S) = m.count
  BY DEF Done, Completes, Arrives
<1>2. m \in Packet /\ m \in Everything
  BY <1>1, TakenHeld
<1>3. m \in S /\ \A q \in S : q.id = m.id
  BY DEF Together
<1>4. ASSUME NEW q \in S PROVE q \in Everything /\ q \in Packet
  <2>1. CASE q = m
    BY <1>2, <2>1
  <2>2. CASE q \in orderBuf[n]
    <3>1. q \in Orders(orderBuf)
      BY <2>2 DEF Orders
    <3>2. q \in Packet
      BY <2>2 DEF TypeOK
    <3>3. QED
      BY <3>1, <3>2 DEF Everything, All
  <2>3. QED
    BY <2>1, <2>2 DEF Together
<1>5. NodeOf[m.dst] = n
  BY <1>1 DEF Local
<1> HIDE DEF S, m
<1>6. Consistent(S) /\ \A q \in S : q.idx < q.count
  BY <1>4 DEF Sound, Consistent
<1>7. S \in SUBSET Packet
  BY <1>4
<1>8. /\ InOrder(S) = Block(m)
      /\ \A i \in 1 .. m.count : Block(m)[i] \in S
      /\ \A q \in S : \E i \in 1 .. m.count : q = Block(m)[i]
  BY <1>1, <1>3, <1>6, <1>7, InOrderFacts
<1>9. m.idx < m.count
  BY <1>3, <1>6
<1>10. QED
  BY <1>1, <1>2, <1>5, <1>8, <1>9 DEF S, m

\* A receive buffer stays as it is or gets the message that is complete.
Gets(p, c) ==
  Done(NodeOf[p]) /\ Took[NodeOf[p]].packet.dst = p /\ Took[NodeOf[p]].packet.channel = c

LEMMA RecvNextFacts ==
  ASSUME TypeOK, Sound, NEW p \in Port, NEW c \in Channel
  PROVE  LET m == Took[NodeOf[p]].packet IN
         /\ Gets(p, c) => m \in Packet /\ RecvNext[p][c] = recvBuf[p][c] \o Block(m)
         /\ ~Gets(p, c) => RecvNext[p][c] = recvBuf[p][c]
         /\ recvBuf[p][c] \in Seq(Packet) /\ RecvNext[p][c] \in Seq(Packet)
         /\ \A i \in DOMAIN recvBuf[p][c] :
              i \in DOMAIN RecvNext[p][c] /\ RecvNext[p][c][i] = recvBuf[p][c][i]
         /\ \A i \in DOMAIN RecvNext[p][c] :
              \/ i \in DOMAIN recvBuf[p][c] /\ RecvNext[p][c][i] = recvBuf[p][c][i]
              \/ /\ Gets(p, c) /\ i - Len(recvBuf[p][c]) \in 1 .. m.count
                 /\ i = Len(recvBuf[p][c]) + (i - Len(recvBuf[p][c]))
                 /\ RecvNext[p][c][i] = Block(m)[i - Len(recvBuf[p][c])]
         /\ Gets(p, c) => \A j \in 1 .. m.count :
              \E i \in DOMAIN RecvNext[p][c] : RecvNext[p][c][i] = Block(m)[j]
<1> DEFINE m == Took[NodeOf[p]].packet
           r == recvBuf[p][c]
           s == RecvNext[p][c]
<1>1. NodeOf[p] \in Node
  BY PortFacts
<1>2. s = IF Gets(p, c) THEN r \o InOrder(Together(NodeOf[p], m)) ELSE r
  BY DEF RecvNext, RecvAfter, Gets, Done
<1>3. r \in Seq(Packet)
  BY DEF TypeOK
<1> HIDE DEF m, r, s
<1>4. Gets(p, c) => m \in Packet /\ s = r \o Block(m)
  BY <1>1, <1>2, DoneFacts DEF Gets, m
<1>5. ~Gets(p, c) => s = r
  BY <1>2
<1>6. Len(r) \in Nat /\ DOMAIN r = 1 .. Len(r)
  BY <1>3, LenProperties
<1>7. CASE Gets(p, c)
  <2> DEFINE b == Block(m)
             n == Len(r)
             k == m.count
  <2>1. b \in Seq(Packet) /\ Len(b) = k /\ k \in Nat
    BY <1>4, <1>7, BlockFacts
  <2> HIDE DEF b
  <2>2. s = r \o b
    BY <1>4, <1>7 DEF b
  <2>3. /\ r \o b \in Seq(Packet) /\ Len(r \o b) = Len(r) + Len(b)
        /\ \A i \in 1 .. Len(r) + Len(b) :
             (r \o b)[i] = IF i <= Len(r) THEN r[i] ELSE b[i - Len(r)]
    <3>1. b \in Seq(Packet)
      BY <2>1
    <3>2. QED
      BY <1>3, <3>1, ConcatProperties, Zenon
  <2> HIDE DEF n, k
  <2>4. /\ s \in Seq(Packet) /\ Len(s) = n + k /\ n \in Nat
        /\ \A i \in 1 .. n + k : s[i] = IF i <= n THEN r[i] ELSE b[i - n]
    BY <1>6, <2>1, <2>2, <2>3 DEF n
  <2>5. DOMAIN s = 1 .. n + k /\ DOMAIN r = 1 .. n
    <3>1. DOMAIN s = 1 .. Len(s)
      BY <2>4, LenProperties
    <3>2. QED
      BY <1>6, <2>4, <3>1 DEF n
  <2>6. \A i \in 1 .. n : i \in 1 .. n + k /\ s[i] = r[i]
    BY <2>1, <2>4
  <2>7. ASSUME NEW i \in 1 .. n + k, i \notin 1 .. n
        PROVE  i - n \in 1 .. k /\ i = n + (i - n) /\ s[i] = b[i - n]
    <3>1. ~(i <= n)
      BY <2>1, <2>4, <2>7
    <3>2. QED
      BY <2>1, <2>4, <3>1
  <2>8. ASSUME NEW j \in 1 .. k
        PROVE  \E i \in 1 .. n + k : s[i] = b[j]
    <3>1. n + j \in 1 .. n + k /\ ~(n + j <= n) /\ (n + j) - n = j
      BY <2>1, <2>4
    <3>2. s[n + j] = b[j]
      BY <2>4, <3>1
    <3>3. QED
      BY <3>1, <3>2
  <2>9. QED
    BY <1>3, <1>4, <1>7, <2>4, <2>5, <2>6, <2>7, <2>8 DEF m, r, s, b, n, k
<1>8. CASE ~Gets(p, c)
  BY <1>3, <1>5, <1>8 DEF m, r, s
<1>9. QED
  BY <1>7, <1>8

\* What the nodes have under reassembly and what the ports have received: the
\* arrivals are added, and complete messages move from the one to the other.
LEMMA OrderNextFacts ==
  ASSUME TypeOK, NEW n \in Node, OrderApart(orderBuf)
  PROVE  /\ OrderNext[n] \in SUBSET Packet
         /\ \A q \in OrderNext[n] :
              /\ q \in orderBuf[n] \/ (Arrives(n, Took[n]) /\ q = Took[n].packet)
              /\ NodeOf[q.dst] = n
              /\ Done(n) => q \notin Together(n, Took[n].packet)
         /\ \A q \in orderBuf[n] :
              q \in OrderNext[n] \/ (Done(n) /\ q \in Together(n, Took[n].packet))
         /\ Arrives(n, Took[n]) =>
              \/ Took[n].packet \in OrderNext[n]
              \/ Done(n) /\ Took[n].packet \in Together(n, Took[n].packet)
<1> DEFINE m == Took[n].packet
<1>1. Arrives(n, Took[n]) => m \in Packet /\ NodeOf[m.dst] = n
  BY TakenHeld DEF Arrives, Local
<1>2. \A q \in orderBuf[n] : q \in Packet /\ NodeOf[q.dst] = n
  BY DEF TypeOK, OrderApart
<1>3. m \in Together(n, m)
  BY DEF Together
<1>4. OrderNext[n] = OrderAfter(n, Took[n])
  BY DEF OrderNext
<1>5. Done(n) => Arrives(n, Took[n])
  BY DEF Done, Completes
<1>6. CASE Done(n)
  <2>1. OrderNext[n] = orderBuf[n] \ Together(n, m)
    BY <1>4, <1>6 DEF OrderAfter, Done
  <2> HIDE DEF m
  <2>2. QED
    BY <1>2, <1>3, <1>6, <2>1 DEF m
<1>7. CASE ~Done(n) /\ Arrives(n, Took[n])
  <2>1. OrderNext[n] = orderBuf[n] \cup {m}
    BY <1>4, <1>7 DEF OrderAfter, Done
  <2> HIDE DEF m
  <2>2. QED
    BY <1>1, <1>2, <1>7, <2>1 DEF m
<1>8. CASE ~Done(n) /\ ~Arrives(n, Took[n])
  <2>1. OrderNext[n] = orderBuf[n]
    BY <1>4, <1>8 DEF OrderAfter, Done
  <2>2. QED
    BY <1>2, <1>8, <2>1
<1>9. QED
  BY <1>5, <1>6, <1>7, <1>8

LEMMA ArrivalFacts ==
  ASSUME TypeOK, Sound, Separate
  PROVE  /\ OrderNext \in [Node -> SUBSET Packet] /\ OrderApart(OrderNext)
         /\ BufType(RecvNext) /\ BufApart(RecvNext)
         /\ Orders(OrderNext) \cap Packets(RecvNext) = {}
         /\ Orders(OrderNext) \cup Packets(RecvNext)
              = Orders(orderBuf) \cup Packets(recvBuf) \cup Arrivals
<1>1. /\ OrderApart(orderBuf) /\ BufApart(recvBuf)
      /\ Packets(recvBuf) \cap (Orders(orderBuf) \cup Packets(sendBuf) \cup Regs(output)) = {}
  BY DEF Separate, Apart, Disjoint
<1>2. OrderNext \in [Node -> SUBSET Packet] /\ OrderApart(OrderNext)
  <2>1. OrderNext = [n \in Node |-> OrderNext[n]]
    BY DEF OrderNext
  <2>2. \A n \in Node : OrderNext[n] \in SUBSET Packet
    BY <1>1, OrderNextFacts
  <2>3. \A n \in Node : \A m \in OrderNext[n] : NodeOf[m.dst] = n
    BY <1>1, OrderNextFacts
  <2>4. QED
    BY <2>1, <2>2, <2>3 DEF OrderApart
<1>3. BufType(recvBuf) /\ BufType(RecvNext)
  <2>1. RecvNext = [p \in Port |-> [c \in Channel |-> RecvNext[p][c]]]
    BY DEF RecvNext
  <2>2. \A p \in Port, c \in Channel : RecvNext[p][c] \in Seq(Packet)
    BY RecvNextFacts
  <2>3. RecvNext \in [Port -> [Channel -> Seq(Packet)]]
    BY <2>1, <2>2
  <2>4. QED
    BY <2>3 DEF BufType, TypeOK
\* The packets of a message that is complete were not received before.
<1>4. ASSUME NEW n \in Node, Done(n), NEW q \in Together(n, Took[n].packet)
      PROVE  /\ q \notin Packets(recvBuf)
             /\ q \in Orders(orderBuf) \/ q \in Arrivals
  <2>1. CASE q \in orderBuf[n]
    <3>1. q \in Orders(orderBuf)
      BY <2>1 DEF Orders
    <3>2. QED
      BY <1>1, <3>1
  <2>2. CASE q = Took[n].packet
    <3>1. Took[n].taken /\ Arrives(n, Took[n])
      BY <1>4 DEF Done, Completes, Arrives
    <3>2. q \in Packets(sendBuf) \cup Regs(output)
      BY <2>2, <3>1, TakenHeld
    <3>3. q \in Arrivals
      BY <2>2, <3>1 DEF Arrivals
    <3>4. QED
      BY <1>1, <3>2, <3>3
  <2>3. QED
    BY <2>1, <2>2 DEF Together
\* A place of a receive buffer is an old one or one of the message handed over.
<1>5. ASSUME NEW p \in Port, NEW c \in Channel, NEW i \in DOMAIN RecvNext[p][c]
      PROVE  \/ /\ i \in DOMAIN recvBuf[p][c] /\ RecvNext[p][c][i] = recvBuf[p][c][i]
                /\ RecvNext[p][c][i] \in Packets(recvBuf)
             \/ /\ NodeOf[p] \in Node /\ Gets(p, c) /\ Done(NodeOf[p])
                /\ RecvNext[p][c][i] \in Together(NodeOf[p], Took[NodeOf[p]].packet)
                /\ RecvNext[p][c][i].dst = p /\ RecvNext[p][c][i].channel = c
                /\ i = Len(recvBuf[p][c]) + (RecvNext[p][c][i].idx + 1)
  <2> DEFINE m == Took[NodeOf[p]].packet
             h == i - Len(recvBuf[p][c])
  <2>1. CASE i \in DOMAIN recvBuf[p][c] /\ RecvNext[p][c][i] = recvBuf[p][c][i]
    BY <1>3, <2>1, PacketsFacts
  <2>2. CASE Gets(p, c) /\ h \in 1 .. m.count /\ i = Len(recvBuf[p][c]) + h
             /\ RecvNext[p][c][i] = Block(m)[h]
    <3>1. NodeOf[p] \in Node /\ Done(NodeOf[p])
      BY <2>2, PortFacts DEF Gets
    <3>2. m \in Packet /\ m.dst = p /\ m.channel = c
      BY <2>2, <3>1, DoneFacts DEF Gets
    <3> HIDE DEF h
    <3>3. Block(m)[h] \in Together(NodeOf[p], m)
      BY <2>2, <3>1, DoneFacts
    <3> HIDE DEF m
    <3>4. Block(m)[h].dst = p /\ Block(m)[h].channel = c /\ Block(m)[h].idx = h - 1 /\ m.count \in Nat
      BY <2>2, <3>2, BlockFacts
    <3>5. h = Block(m)[h].idx + 1
      BY <2>2, <3>4
    <3>6. QED
      BY <2>2, <3>1, <3>3, <3>4, <3>5 DEF m
  <2>3. \/ i \in DOMAIN recvBuf[p][c] /\ RecvNext[p][c][i] = recvBuf[p][c][i]
        \/ Gets(p, c) /\ h \in 1 .. m.count /\ i = Len(recvBuf[p][c]) + h
             /\ RecvNext[p][c][i] = Block(m)[h]
    BY RecvNextFacts
  <2> HIDE DEF h, m
  <2>4. QED
    BY <2>1, <2>2, <2>3
<1>6. BufApart(RecvNext)
  <2> SUFFICES ASSUME NEW p \in Port, NEW q \in Port, NEW c \in Channel, NEW d \in Channel,
                      NEW i \in DOMAIN RecvNext[p][c], NEW j \in DOMAIN RecvNext[q][d],
                      RecvNext[p][c][i] = RecvNext[q][d][j]
               PROVE  p = q /\ c = d /\ i = j
    BY DEF BufApart
  <2> DEFINE x == RecvNext[p][c][i]
             y == RecvNext[q][d][j]
             Old(pp, cc, ii, xx) == ii \in DOMAIN recvBuf[pp][cc] /\ xx = recvBuf[pp][cc][ii]
                                    /\ xx \in Packets(recvBuf)
             New(pp, cc, ii, xx) == xx \notin Packets(recvBuf) /\ xx.dst = pp /\ xx.channel = cc
                                    /\ ii = Len(recvBuf[pp][cc]) + (xx.idx + 1)
  <2>1. Old(p, c, i, x) \/ New(p, c, i, x)
    BY <1>4, <1>5
  <2>2. Old(q, d, j, y) \/ New(q, d, j, y)
    BY <1>4, <1>5
  <2>3. x = y
    OBVIOUS
  <2> HIDE DEF x, y
  <2>4. CASE Old(p, c, i, x) /\ Old(q, d, j, y)
    <3>1. recvBuf[p][c][i] = recvBuf[q][d][j]
      BY <2>3, <2>4
    <3>2. i \in DOMAIN recvBuf[p][c] /\ j \in DOMAIN recvBuf[q][d]
      BY <2>4
    <3>3. QED
      BY <1>1, <3>1, <3>2 DEF BufApart
  <2>5. CASE New(p, c, i, x) /\ New(q, d, j, y)
    BY <2>3, <2>5
  <2>6. QED
    BY <2>1, <2>2, <2>3, <2>4, <2>5
<1>7. ASSUME NEW m \in Packets(RecvNext)
      PROVE  \/ m \in Packets(recvBuf)
             \/ \E n \in Node : Done(n) /\ m \in Together(n, Took[n].packet)
                                /\ NodeOf[m.dst] = n
  <2>1. PICK p \in Port, c \in Channel : \E i \in DOMAIN RecvNext[p][c] : m = RecvNext[p][c][i]
    BY <1>3, PacketsFacts
  <2>2. PICK i \in DOMAIN RecvNext[p][c] : m = RecvNext[p][c][i]
    BY <2>1
  <2>3. QED
    BY <1>5, <2>2
<1>8. ASSUME NEW n \in Node, Done(n), NEW q \in Together(n, Took[n].packet)
      PROVE  q \in Packets(RecvNext)
  <2> DEFINE m == Took[n].packet
  <2>1. m \in Packet /\ NodeOf[m.dst] = n /\ \E j \in 1 .. m.count : q = Block(m)[j]
    BY <1>8, DoneFacts
  <2>2. PICK j \in 1 .. m.count : q = Block(m)[j]
    BY <2>1
  <2>3. PICK p \in Port, c \in Channel : p = m.dst /\ c = m.channel
    BY <2>1 DEF Packet
  <2>4. NodeOf[p] = n /\ Gets(p, c) /\ \E i \in DOMAIN RecvNext[p][c] : RecvNext[p][c][i] = q
    <3>1. NodeOf[p] = n /\ m = Took[NodeOf[p]].packet
      BY <2>1, <2>3
    <3>2. Gets(p, c)
      BY <1>8, <2>3, <3>1 DEF Gets
    <3> HIDE DEF m
    <3>3. \A h \in 1 .. m.count :
            \E i \in DOMAIN RecvNext[p][c] : RecvNext[p][c][i] = Block(m)[h]
      BY <3>1, <3>2, RecvNextFacts
    <3>4. QED
      BY <2>2, <3>1, <3>2, <3>3
  <2>5. QED
    BY <1>3, <2>3, <2>4, PacketsFacts
<1>9. ASSUME NEW m \in Packets(recvBuf) PROVE m \in Packets(RecvNext)
  <2>1. PICK p \in Port, c \in Channel : \E i \in DOMAIN recvBuf[p][c] : m = recvBuf[p][c][i]
    BY <1>3, PacketsFacts
  <2>2. PICK i \in DOMAIN recvBuf[p][c] : m = recvBuf[p][c][i]
    BY <2>1
  <2>3. i \in DOMAIN RecvNext[p][c] /\ RecvNext[p][c][i] = m
    BY <2>2, RecvNextFacts
  <2>4. QED
    BY <1>3, <2>3, PacketsFacts
<1>10. ASSUME NEW m \in Orders(OrderNext)
       PROVE  \E n \in Node : /\ m \in orderBuf[n] \/ (Arrives(n, Took[n]) /\ m = Took[n].packet)
                              /\ NodeOf[m.dst] = n
                              /\ Done(n) => m \notin Together(n, Took[n].packet)
  <2>1. PICK n \in Node : m \in OrderNext[n]
    BY DEF Orders
  <2>2. QED
    BY <1>1, <2>1, OrderNextFacts
<1>11. ASSUME NEW m \in Orders(OrderNext)
       PROVE  (m \in Orders(orderBuf) \/ m \in Arrivals) /\ m \notin Packets(recvBuf)
  <2>1. PICK n \in Node : m \in orderBuf[n] \/ (Arrives(n, Took[n]) /\ m = Took[n].packet)
    BY <1>10
  <2>2. CASE m \in orderBuf[n]
    <3>1. m \in Orders(orderBuf)
      BY <2>2 DEF Orders
    <3>2. QED
      BY <1>1, <3>1
  <2>3. CASE Arrives(n, Took[n]) /\ m = Took[n].packet
    <3>1. m \in Arrivals
      BY <2>3 DEF Arrivals
    <3>2. Took[n].taken
      BY <2>3 DEF Arrives
    <3>3. m \in Packets(sendBuf) \cup Regs(output)
      BY <2>3, <3>2, TakenHeld
    <3>4. QED
      BY <1>1, <3>1, <3>3
  <2>4. QED
    BY <2>1, <2>2, <2>3
<1>12. Orders(OrderNext) \cap Packets(RecvNext) = {}
  <2> SUFFICES ASSUME NEW m \in Orders(OrderNext), m \in Packets(RecvNext) PROVE FALSE
    OBVIOUS
  <2>1. PICK n \in Node : Done(n) /\ m \in Together(n, Took[n].packet) /\ NodeOf[m.dst] = n
    BY <1>7, <1>11
  <2>2. PICK k \in Node : NodeOf[m.dst] = k /\ (Done(k) => m \notin Together(k, Took[k].packet))
    BY <1>10
  <2>3. QED
    BY <2>1, <2>2
<1>13. ASSUME NEW m \in Orders(orderBuf) PROVE m \in Orders(OrderNext) \cup Packets(RecvNext)
  <2>1. PICK n \in Node : m \in orderBuf[n]
    BY DEF Orders
  <2>2. m \in OrderNext[n] \/ (Done(n) /\ m \in Together(n, Took[n].packet))
    BY <1>1, <2>1, OrderNextFacts
  <2>3. QED
    BY <1>8, <2>2 DEF Orders
<1>14. ASSUME NEW m \in Arrivals PROVE m \in Orders(OrderNext) \cup Packets(RecvNext)
  <2>1. PICK n \in Node : Arrives(n, Took[n]) /\ m = Took[n].packet
    BY DEF Arrivals
  <2>2. m \in OrderNext[n] \/ (Done(n) /\ m \in Together(n, Took[n].packet))
    BY <1>1, <2>1, OrderNextFacts
  <2>3. QED
    BY <1>8, <2>2 DEF Orders
<1>15. Orders(OrderNext) \cup Packets(RecvNext)
         = Orders(orderBuf) \cup Packets(recvBuf) \cup Arrivals
  <2>1. \A m \in Packets(RecvNext) :
          m \in Packets(recvBuf) \/ m \in Orders(orderBuf) \/ m \in Arrivals
    BY <1>4, <1>7
  <2>2. QED
    BY <1>9, <1>11, <1>13, <1>14, <2>1
<1>16. QED
  BY <1>2, <1>3, <1>6, <1>12, <1>15

\* The receive buffers still hold whole messages.
LEMMA WholeNext ==
  ASSUME TypeOK, Sound, NEW p \in Port, NEW c \in Channel, WholeSeq(recvBuf[p][c], p, c)
  PROVE  WholeSeq(RecvNext[p][c], p, c)
<1> DEFINE m == Took[NodeOf[p]].packet
<1>1. recvBuf[p][c] \in Seq(Packet)
  BY DEF TypeOK
<1>2. CASE Gets(p, c)
  <2>1. NodeOf[p] \in Node /\ Done(NodeOf[p])
    BY <1>2, PortFacts DEF Gets
  <2>2. m \in Packet /\ m.idx < m.count /\ m.dst = p /\ m.channel = c
    BY <1>2, <2>1, DoneFacts DEF Gets
  <2>3. RecvNext[p][c] = recvBuf[p][c] \o Block(m)
    BY <1>2, RecvNextFacts
  <2> HIDE DEF m
  <2>4. QED
    BY <1>1, <2>2, <2>3, WholeSeqAppend
<1>3. CASE ~Gets(p, c)
  BY <1>3, RecvNextFacts
<1>4. QED
  BY <1>2, <1>3

-------------------------------------------------------------------------------
(***************************************************************************)
(* The pipelines with the packets taken.                                   *)
(***************************************************************************)
Queue == [n \in Node |-> Admit(n, Took[n])]
Forwarded == {Took[n].packet : n \in {k \in Node : Forwards(k, Took[k])}}

\* A pipeline holds packets for other nodes only.
Onward(P) == \A n \in Node : \A i \in DOMAIN P[n] : ~Local(n, P[n][i].packet)

\* The packets taken arrive or are forwarded.
LEMMA TakenSplit ==
  ASSUME TypeOK, Separate
  PROVE  TakenPackets = Arrivals \cup Forwarded /\ Arrivals \cap Forwarded = {}
<1>1. \A n \in Node : /\ Took[n].taken <=> Arrives(n, Took[n]) \/ Forwards(n, Took[n])
                      /\ ~(Arrives(n, Took[n]) /\ Forwards(n, Took[n]))
  BY DEF Arrives, Forwards
<1>2. TakenPackets = Arrivals \cup Forwarded
  BY <1>1 DEF TakenPackets, Arrivals, Forwarded
<1>3. ASSUME NEW m \in Arrivals, m \in Forwarded PROVE FALSE
  <2>1. PICK n \in Node : Arrives(n, Took[n]) /\ m = Took[n].packet
    BY DEF Arrivals
  <2>2. PICK k \in Node : Forwards(k, Took[k]) /\ m = Took[k].packet
    BY <1>3 DEF Forwarded
  <2>3. Took[n].taken /\ Took[k].taken /\ Took[n].packet = Took[k].packet
    BY <1>1, <2>1, <2>2
  <2>4. n = k
    BY <2>3, TakenOnce DEF Separate, Apart, Disjoint
  <2>5. QED
    BY <1>1, <2>1, <2>2, <2>4
<1>4. QED
  BY <1>2, <1>3

LEMMA AdmitFacts ==
  ASSUME TypeOK, NEW n \in Node
  PROVE  /\ pipeline[n] \in Seq([packet : Packet, wait : 0 .. RouteLatency])
         /\ Queue[n] \in Seq([packet : Packet, wait : 0 .. RouteLatency])
         /\ Len(Queue[n]) \in Nat /\ DOMAIN Queue[n] = 1 .. Len(Queue[n])
         /\ ~Forwards(n, Took[n]) => Queue[n] = pipeline[n]
         /\ Forwards(n, Took[n]) => Len(Queue[n]) = Len(pipeline[n]) + 1
         /\ \A i \in DOMAIN pipeline[n] :
              i \in DOMAIN Queue[n] /\ Queue[n][i] = pipeline[n][i]
         /\ \A i \in DOMAIN Queue[n] :
              \/ i \in DOMAIN pipeline[n] /\ Queue[n][i] = pipeline[n][i]
              \/ /\ Forwards(n, Took[n]) /\ i = Len(pipeline[n]) + 1
                 /\ Queue[n][i].packet = Took[n].packet /\ Queue[n][i].wait = RouteLatency
         /\ Forwards(n, Took[n]) =>
              \E i \in DOMAIN Queue[n] : Queue[n][i].packet = Took[n].packet
<1> DEFINE E == [packet : Packet, wait : 0 .. RouteLatency]
           x == [packet |-> Took[n].packet, wait |-> RouteLatency]
           s == pipeline[n]
           q == Queue[n]
<1>1. s \in Seq(E)
  BY DEF TypeOK
<1>2. q = IF Forwards(n, Took[n]) THEN Append(s, x) ELSE s
  BY DEF Queue, Admit
<1> HIDE DEF q, s, E
<1>3. Len(s) \in Nat /\ DOMAIN s = 1 .. Len(s)
  BY <1>1, LenProperties
<1>4. CASE Forwards(n, Took[n])
  <2>1. x \in E
    <3>1. Took[n].packet \in Packet
      BY <1>4, TakenHeld DEF Forwards
    <3>2. RouteLatency \in 0 .. RouteLatency
      BY ConfigAssumption
    <3>3. QED
      BY <3>1, <3>2 DEF E
  <2>2. q = Append(s, x) /\ x.packet = Took[n].packet /\ x.wait = RouteLatency
    BY <1>2, <1>4
  <2> HIDE DEF x
  <2>3. /\ q \in Seq(E) /\ Len(q) = Len(s) + 1
        /\ \A i \in 1 .. Len(s) : q[i] = s[i]
        /\ q[Len(s) + 1] = x
    BY <1>1, <2>1, <2>2, AppendProperties
  <2>4. DOMAIN q = 1 .. Len(q)
    BY <2>3, LenProperties
  <2>5. \A i \in 1 .. Len(q) : i \in 1 .. Len(s) \/ i = Len(s) + 1
    BY <1>3, <2>3
  <2>6. Len(s) + 1 \in 1 .. Len(q) /\ Len(q) \in Nat
    BY <1>3, <2>3
  <2>7. \A i \in 1 .. Len(s) : i \in 1 .. Len(q)
    BY <1>3, <2>3
  <2>8. QED
    BY <1>1, <1>3, <1>4, <2>2, <2>3, <2>4, <2>5, <2>6, <2>7 DEF q, s, E
<1>5. CASE ~Forwards(n, Took[n])
  BY <1>1, <1>2, <1>3, <1>5 DEF q, s, E
<1>6. QED
  BY <1>4, <1>5

LEMMA QueueFacts ==
  ASSUME TypeOK, Separate, Onward(pipeline)
  PROVE  /\ PipeType(Queue) /\ PipeApart(Queue) /\ Onward(Queue)
         /\ Pipes(Queue) = Pipes(pipeline) \cup Forwarded
<1>1. PipeApart(pipeline) /\ Pipes(pipeline) \cap (Packets(sendBuf) \cup Regs(output)) = {}
  BY DEF Separate, Apart, Disjoint
<1>2. PipeType(pipeline) /\ PipeType(Queue)
  <2>1. Queue = [n \in Node |-> Queue[n]]
    BY DEF Queue
  <2>2. \A n \in Node : Queue[n] \in Seq([packet : Packet, wait : 0 .. RouteLatency])
    BY AdmitFacts
  <2>3. QED
    BY <2>1, <2>2 DEF PipeType, TypeOK
<1>3. ASSUME NEW n \in Node, Forwards(n, Took[n])
      PROVE  /\ Took[n].taken /\ ~Local(n, Took[n].packet)
             /\ Took[n].packet \in Forwarded /\ Took[n].packet \notin Pipes(pipeline)
  <2>1. Took[n].taken /\ ~Local(n, Took[n].packet)
    BY <1>3 DEF Forwards
  <2>2. Took[n].packet \in Packets(sendBuf) \cup Regs(output)
    BY <2>1, TakenHeld
  <2>3. QED
    BY <1>1, <1>3, <2>1, <2>2 DEF Forwarded
<1>4. ASSUME NEW n \in Node, NEW i \in DOMAIN Queue[n]
      PROVE  \/ /\ i \in DOMAIN pipeline[n] /\ Queue[n][i].packet = pipeline[n][i].packet
                /\ Queue[n][i].packet \in Pipes(pipeline)
             \/ /\ Forwards(n, Took[n]) /\ i = Len(pipeline[n]) + 1
                /\ Queue[n][i].packet = Took[n].packet
  BY <1>2, AdmitFacts, PipesFacts
<1>5. PipeApart(Queue)
  <2> SUFFICES ASSUME NEW n \in Node, NEW k \in Node,
                      NEW i \in DOMAIN Queue[n], NEW j \in DOMAIN Queue[k],
                      Queue[n][i].packet = Queue[k][j].packet
               PROVE  n = k /\ i = j
    BY DEF PipeApart
  <2> DEFINE Old(nn, ii, x) == ii \in DOMAIN pipeline[nn] /\ x = pipeline[nn][ii].packet
                               /\ x \in Pipes(pipeline)
             New(nn, ii, x) == /\ Took[nn].taken /\ x = Took[nn].packet
                               /\ x \notin Pipes(pipeline) /\ ii = Len(pipeline[nn]) + 1
  <2>1. Old(n, i, Queue[n][i].packet) \/ New(n, i, Queue[n][i].packet)
    BY <1>3, <1>4
  <2>2. Old(k, j, Queue[k][j].packet) \/ New(k, j, Queue[k][j].packet)
    BY <1>3, <1>4
  <2>3. CASE Old(n, i, Queue[n][i].packet) /\ Old(k, j, Queue[k][j].packet)
    <3>1. i \in DOMAIN pipeline[n] /\ j \in DOMAIN pipeline[k]
      BY <2>3
    <3>2. pipeline[n][i].packet = pipeline[k][j].packet
      BY <2>3
    <3>3. QED
      BY <1>1, <3>1, <3>2 DEF PipeApart
  <2>4. CASE New(n, i, Queue[n][i].packet) /\ New(k, j, Queue[k][j].packet)
    <3>1. n = k
      BY <2>4, TakenOnce DEF Separate, Apart, Disjoint
    <3>2. QED
      BY <2>4, <3>1
  <2>5. ~(Old(n, i, Queue[n][i].packet) /\ New(k, j, Queue[k][j].packet))
    OBVIOUS
  <2>6. ~(New(n, i, Queue[n][i].packet) /\ Old(k, j, Queue[k][j].packet))
    OBVIOUS
  <2> HIDE DEF Old, New
  <2>7. QED
    BY <2>1, <2>2, <2>3, <2>4, <2>5, <2>6
<1>6. Onward(Queue)
  <2> SUFFICES ASSUME NEW n \in Node, NEW i \in DOMAIN Queue[n]
               PROVE  ~Local(n, Queue[n][i].packet)
    BY DEF Onward
  <2>1. QED
    BY <1>3, <1>4 DEF Onward
<1>7. ASSUME NEW m \in Pipes(Queue) PROVE m \in Pipes(pipeline) \cup Forwarded
  <2>1. PICK n \in Node : \E i \in DOMAIN Queue[n] : m = Queue[n][i].packet
    BY <1>2, PipesFacts
  <2>2. PICK i \in DOMAIN Queue[n] : m = Queue[n][i].packet
    BY <2>1
  <2>3. QED
    BY <1>3, <1>4, <2>2
<1>8. ASSUME NEW m \in Pipes(pipeline) PROVE m \in Pipes(Queue)
  <2>1. PICK n \in Node : \E i \in DOMAIN pipeline[n] : m = pipeline[n][i].packet
    BY <1>2, PipesFacts
  <2>2. PICK i \in DOMAIN Queue[n] : m = Queue[n][i].packet
    BY <2>1, AdmitFacts
  <2>3. QED
    BY <1>2, <2>2, PipesFacts
<1>9. ASSUME NEW m \in Forwarded PROVE m \in Pipes(Queue)
  <2>1. PICK n \in Node : Forwards(n, Took[n]) /\ m = Took[n].packet
    BY DEF Forwarded
  <2>2. PICK i \in DOMAIN Queue[n] : m = Queue[n][i].packet
    BY <2>1, AdmitFacts
  <2>3. QED
    BY <1>2, <2>2, PipesFacts
<1>10. QED
  BY <1>2, <1>5, <1>6, <1>7, <1>8, <1>9

-------------------------------------------------------------------------------
(***************************************************************************)
(* The second move of a cycle: packets leave the pipelines.                *)
(***************************************************************************)
Gone == [n \in Node |-> Released(n, Queue[n])]
In == [e \in Edge |-> Fill(e, Queue[e[1]], Gone[e[1]])]
Kept == [n \in Node |-> Keep(Queue[n], Gone[n])]
GonePackets == UNION {{Queue[n][i].packet : i \in Gone[n]} : n \in Node}

\* A cycle less to wait.
Waited(w) == IF w = 0 THEN 0 ELSE w - 1

\* The sequence k is q without the positions G: position i was position a[i].
Stays(q, G, k, a) ==
  /\ k \in Seq([packet : Packet, wait : 0 .. RouteLatency])
  /\ Cardinality(G) \in Nat /\ Cardinality(G) <= Len(q)
  /\ Len(k) = Len(q) - Cardinality(G) /\ Len(k) \in Nat
  /\ \A i \in DOMAIN k : /\ a[i] \in DOMAIN q /\ a[i] \notin G /\ k[i].packet = q[a[i]].packet
                         /\ k[i].wait = Waited(q[a[i]].wait)
  /\ \A i, j \in DOMAIN k : i < j => a[i] < a[j]
  /\ \A i, j \in DOMAIN k : a[i] = a[j] => i = j
  /\ \A h \in DOMAIN q : h \in G \/ \E i \in DOMAIN k : a[i] = h

\* What stays of a pipeline is the rest in its order.
LEMMA KeepFacts ==
  ASSUME NEW q \in Seq([packet : Packet, wait : 0 .. RouteLatency]), NEW G \in SUBSET DOMAIN q
  PROVE  Stays(q, G, Keep(q, G), Ascending(DOMAIN q \ G))
<1> DEFINE E == [packet : Packet, wait : 0 .. RouteLatency]
           S == DOMAIN q \ G
<1>0. PICK a, k : a = Ascending(S) /\ k = Keep(q, G)
  OBVIOUS
<1>1. Len(q) \in Nat /\ DOMAIN q = 1 .. Len(q)
  BY LenProperties
<1>2. IsFiniteSet(1 .. Len(q)) /\ Cardinality(1 .. Len(q)) = Len(q)
  <2>1. 1 \in Int /\ Len(q) \in Int
    BY <1>1
  <2>2. /\ IsFiniteSet(1 .. Len(q))
        /\ Cardinality(1 .. Len(q)) = IF 1 > Len(q) THEN 0 ELSE Len(q) - 1 + 1
    BY <2>1, FS_Interval, Zenon
  <2>3. QED
    BY <1>1, <2>2
<1>3. IsFiniteSet(G) /\ Cardinality(G) \in Nat /\ Cardinality(G) <= Len(q)
  <2>1. G \in SUBSET (1 .. Len(q))
    BY <1>1
  <2>2. QED
    BY <1>2, <2>1, FS_Subset, FS_CardinalityType
<1>4. IsFiniteSet(S) /\ Cardinality(S) = Len(q) - Cardinality(G)
  <2>1. DOMAIN q \cap G = G
    OBVIOUS
  <2>2. IsFiniteSet(DOMAIN q) /\ Cardinality(DOMAIN q) = Len(q)
    BY <1>1, <1>2
  <2>3. IsFiniteSet(DOMAIN q \ G)
        /\ Cardinality(DOMAIN q \ G) = Cardinality(DOMAIN q) - Cardinality(DOMAIN q \cap G)
    BY <2>2, FS_Difference
  <2>4. QED
    BY <2>1, <2>2, <2>3
<1>5. S \in SUBSET Nat
  BY <1>1
<1> HIDE DEF S
<1>6. /\ Cardinality(S) \in Nat /\ DOMAIN a = 1 .. Cardinality(S)
      /\ \A i \in DOMAIN a : a[i] \in S
      /\ \A i, j \in DOMAIN a : i < j => a[i] < a[j]
      /\ \A x \in S : \E i \in DOMAIN a : a[i] = x
  BY <1>0, <1>4, <1>5, AscendingFacts
<1>7. k = [i \in DOMAIN a |-> [q[a[i]] EXCEPT !.wait = IF q[a[i]].wait = 0 THEN 0 ELSE q[a[i]].wait - 1]]
  BY <1>0 DEF Keep, S
<1>8. \A h \in S : h \in DOMAIN q /\ h \notin G /\ q[h] \in E
  <2>1. \A h \in S : h \in DOMAIN q /\ h \notin G
    BY DEF S
  <2>2. \A h \in DOMAIN q : q[h] \in E
    BY <1>1, ElementOfSeq
  <2>3. QED
    BY <2>1, <2>2
<1>9. ASSUME NEW i \in DOMAIN a
      PROVE  k[i] \in E /\ k[i].packet = q[a[i]].packet /\ k[i].wait = Waited(q[a[i]].wait)
  <2> DEFINE x == q[a[i]]
             w == Waited(x.wait)
  <2>1. x \in E
    BY <1>6, <1>8
  <2>2. k[i] = [x EXCEPT !.wait = w]
    BY <1>7 DEF Waited
  <2> HIDE DEF x
  <2>3. w \in 0 .. RouteLatency
    <3>1. x.wait \in 0 .. RouteLatency /\ RouteLatency \in Nat
      BY <2>1, ConfigAssumption
    <3>2. QED
      BY <3>1 DEF Waited
  <2>4. w = Waited(x.wait)
    OBVIOUS
  <2> HIDE DEF w
  <2>5. /\ [x EXCEPT !.wait = w] \in E /\ [x EXCEPT !.wait = w].packet = x.packet
        /\ [x EXCEPT !.wait = w].wait = w
    BY <2>1, <2>3
  <2>6. QED
    BY <2>2, <2>4, <2>5 DEF x
<1>10. DOMAIN k = DOMAIN a
  BY <1>7
<1>11. k \in Seq(E) /\ Len(k) = Cardinality(S)
  <2>1. k \in [1 .. Cardinality(S) -> E]
    <3>1. k = [i \in 1 .. Cardinality(S) |-> k[i]]
      BY <1>6, <1>7
    <3>2. \A i \in 1 .. Cardinality(S) : k[i] \in E
      BY <1>6, <1>9
    <3> HIDE DEF E
    <3>3. QED
      BY <3>1, <3>2
  <2> HIDE DEF E
  <2>2. k \in Seq(E)
    BY <1>6, <2>1, SeqDef
  <2>3. DOMAIN k = 1 .. Len(k) /\ Len(k) \in Nat
    BY <2>2, LenProperties
  <2>4. QED
    BY <1>6, <1>10, <2>2, <2>3
<1>12. \A i, j \in DOMAIN k : a[i] = a[j] => i = j
  <2> SUFFICES ASSUME NEW i \in DOMAIN k, NEW j \in DOMAIN k, a[i] = a[j] PROVE i = j
    OBVIOUS
  <2>1. i \in Nat /\ j \in Nat /\ a[i] \in Nat
    <3>1. i \in 1 .. Cardinality(S) /\ j \in 1 .. Cardinality(S)
      BY <1>6, <1>10
    <3>2. a[i] \in S
      BY <1>6, <1>10
    <3>3. \A b \in Nat : \A x \in 1 .. b : x \in Nat
      OBVIOUS
    <3>4. i \in Nat /\ j \in Nat
      BY <1>6, <3>1, <3>3, Zenon
    <3>5. QED
      BY <1>5, <3>2, <3>4
  <2>2. ~(i < j) /\ ~(j < i)
    <3>1. i \in DOMAIN a /\ j \in DOMAIN a /\ ~(a[i] < a[j]) /\ ~(a[j] < a[i])
      BY <1>10, <2>1
    <3>2. \A x, y \in DOMAIN a : x < y => a[x] < a[y]
      BY <1>6
    <3>3. QED
      BY <3>1, <3>2, Zenon
  <2>3. QED
    BY <2>1, <2>2
<1>13. \A i \in DOMAIN k : /\ a[i] \in DOMAIN q /\ a[i] \notin G
                            /\ k[i].packet = q[a[i]].packet /\ k[i].wait = Waited(q[a[i]].wait)
  BY <1>6, <1>8, <1>9, <1>10
<1>14. \A h \in DOMAIN q : h \in G \/ \E i \in DOMAIN k : a[i] = h
  BY <1>6, <1>10 DEF S
<1>15. \A i, j \in DOMAIN k : i < j => a[i] < a[j]
  BY <1>6, <1>10
<1>16. Stays(q, G, k, a)
  <2>1. k \in Seq([packet : Packet, wait : 0 .. RouteLatency])
    BY <1>11 DEF E
  <2>2. Len(k) = Len(q) - Cardinality(G) /\ Len(k) \in Nat
    BY <1>4, <1>6, <1>11
  <2> HIDE DEF E
  <2>3. QED
    BY <1>3, <1>12, <1>13, <1>14, <1>15, <2>1, <2>2 DEF Stays
<1>17. QED
  BY <1>0, <1>16 DEF S

\* The packets that leave a node want different registers, all of them free.
LEMMA GoneFacts ==
  ASSUME TypeOK, PipeType(Queue), Onward(Queue), NEW n \in Node
  PROVE  /\ Gone[n] \in SUBSET DOMAIN Queue[n]
         /\ \A i \in Gone[n] :
              LET x == Exit(n, Queue[n][i].packet) IN
              /\ x.edge \in Edge /\ x.edge[1] = n /\ x.channel \in Channel
              /\ x = [edge |-> x.edge, channel |-> x.channel]
              /\ input[x.edge][x.channel] = NoPacket
         /\ \A i, j \in Gone[n] :
              Exit(n, Queue[n][i].packet) = Exit(n, Queue[n][j].packet) => i = j
         /\ \A i \in Gone[n] :
              /\ Queue[n][i].wait = 0
              /\ \A j \in 1 .. i - 1 : Queue[n][j].wait = 0 =>
                   Exit(n, Queue[n][j].packet) # Exit(n, Queue[n][i].packet)
<1> DEFINE x(i) == Exit(n, Queue[n][i].packet)
<1>1. Gone[n] = {i \in DOMAIN Queue[n] :
        /\ Queue[n][i].wait = 0
        /\ input[x(i).edge][x(i).channel] = NoPacket
        /\ \A j \in 1 .. i - 1 : Queue[n][j].wait = 0 => x(j) # x(i)}
  BY DEF Gone, Released
<1>2. Queue[n] \in Seq([packet : Packet, wait : 0 .. RouteLatency])
  BY DEF PipeType
<1>3. DOMAIN Queue[n] = 1 .. Len(Queue[n]) /\ Len(Queue[n]) \in Nat
  BY <1>2, LenProperties
<1>4. ASSUME NEW i \in DOMAIN Queue[n]
      PROVE  /\ x(i).edge \in Edge /\ x(i).edge[1] = n /\ x(i).channel \in Channel
             /\ x(i) = [edge |-> x(i).edge, channel |-> x(i).channel]
  <2>1. Queue[n][i].packet \in Packet /\ ~Local(n, Queue[n][i].packet)
    BY PipesFacts DEF Onward
  <2>2. x(i).edge \in Edge /\ x(i).edge[1] = n /\ x(i).channel \in Channel
    BY <2>1, ExitFacts
  <2>3. x(i) = [edge |-> x(i).edge, channel |-> x(i).channel]
    BY DEF Exit
  <2>4. QED
    BY <2>2, <2>3
<1> HIDE DEF x
<1>5. \A i \in Gone[n] : i \in DOMAIN Queue[n] /\ input[x(i).edge][x(i).channel] = NoPacket
  BY <1>1
<1>6. ASSUME NEW i \in Gone[n], NEW j \in Gone[n], x(i) = x(j) PROVE i = j
  <2>1. i \in Nat /\ j \in Nat /\ i >= 1 /\ j >= 1
    BY <1>3, <1>5
  <2>2. ~(i < j)
    <3> SUFFICES ASSUME i < j PROVE FALSE
      OBVIOUS
    <3>1. i \in 1 .. j - 1
      BY <2>1
    <3>2. QED
      BY <1>1, <1>6, <3>1
  <2>3. ~(j < i)
    <3> SUFFICES ASSUME j < i PROVE FALSE
      OBVIOUS
    <3>1. j \in 1 .. i - 1
      BY <2>1
    <3>2. QED
      BY <1>1, <1>6, <3>1
  <2>4. QED
    BY <2>1, <2>2, <2>3
<1>7. \A i \in Gone[n] :
        Queue[n][i].wait = 0 /\ \A j \in 1 .. i - 1 : Queue[n][j].wait = 0 => x(j) # x(i)
  BY <1>1
<1>8. QED
  BY <1>4, <1>5, <1>6, <1>7 DEF x

\* An input register stays as it is or, if it was empty, gets a packet.
LEMMA FillFacts ==
  ASSUME TypeOK, PipeType(Queue), Onward(Queue), NEW e \in Edge, NEW c \in Channel
  PROVE  \/ /\ e[1] \in Node /\ input[e][c] = NoPacket
            /\ \E i \in Gone[e[1]] :
                 /\ i \in DOMAIN Queue[e[1]]
                 /\ Exit(e[1], Queue[e[1]][i].packet) = [edge |-> e, channel |-> c]
                 /\ In[e][c] = Queue[e[1]][i].packet
         \/ /\ In[e][c] = input[e][c]
            /\ ~\E i \in Gone[e[1]] :
                  Exit(e[1], Queue[e[1]][i].packet) = [edge |-> e, channel |-> c]
<1> DEFINE n == e[1]
           came == {i \in Gone[n] : Exit(n, Queue[n][i].packet) = [edge |-> e, channel |-> c]}
<1>1. n \in Node
  BY EdgeFacts
<1>2. In[e][c] = IF came = {} THEN input[e][c]
                 ELSE Queue[n][CHOOSE i \in came : TRUE].packet
  BY DEF In, Fill
<1>3. CASE came = {}
  BY <1>2, <1>3
<1>4. CASE came # {}
  <2>1. PICK i \in came : In[e][c] = Queue[n][i].packet
    BY <1>2, <1>4
  <2>2. i \in Gone[n] /\ Exit(n, Queue[n][i].packet) = [edge |-> e, channel |-> c]
    OBVIOUS
  <2> HIDE DEF came, n
  <2>3. i \in DOMAIN Queue[n] /\ input[e][c] = NoPacket
    <3>1. i \in DOMAIN Queue[n]
      BY <1>1, <2>2, GoneFacts
    <3>2. LET x == Exit(n, Queue[n][i].packet) IN input[x.edge][x.channel] = NoPacket
      BY <1>1, <2>2, GoneFacts
    <3>3. QED
      BY <2>2, <3>1, <3>2
  <2>4. QED
    BY <1>1, <2>1, <2>2, <2>3 DEF n
<1>5. QED
  BY <1>3, <1>4

\* The input registers gain what leaves the pipelines.
LEMMA InFacts ==
  ASSUME TypeOK, RegApart(input), PipeType(Queue), PipeApart(Queue), Onward(Queue),
         Pipes(Queue) \cap Regs(input) = {}
  PROVE  RegType(In) /\ RegApart(In) /\ Regs(In) = Regs(input) \cup GonePackets
<1> DEFINE x(n, i) == Exit(n, Queue[n][i].packet)
<1>1. RegType(input)
  BY DEF TypeOK, RegType
<1>2. ASSUME NEW e \in Edge, NEW c \in Channel
      PROVE  \/ /\ e[1] \in Node /\ input[e][c] = NoPacket
                /\ \E i \in Gone[e[1]] :
                     /\ i \in DOMAIN Queue[e[1]] /\ x(e[1], i) = [edge |-> e, channel |-> c]
                     /\ In[e][c] = Queue[e[1]][i].packet
                     /\ In[e][c] \in Pipes(Queue) /\ In[e][c] \in GonePackets
                     /\ In[e][c] \in Packet
             \/ /\ In[e][c] = input[e][c]
                /\ ~\E i \in Gone[e[1]] : x(e[1], i) = [edge |-> e, channel |-> c]
  <2>1. CASE /\ e[1] \in Node /\ input[e][c] = NoPacket
             /\ \E i \in Gone[e[1]] :
                  /\ i \in DOMAIN Queue[e[1]]
                  /\ x(e[1], i) = [edge |-> e, channel |-> c]
                  /\ In[e][c] = Queue[e[1]][i].packet
    <3>1. PICK i \in Gone[e[1]] : /\ i \in DOMAIN Queue[e[1]]
                                  /\ x(e[1], i) = [edge |-> e, channel |-> c]
                                  /\ In[e][c] = Queue[e[1]][i].packet
      BY <2>1
    <3>2. In[e][c] \in Pipes(Queue) /\ In[e][c] \in Packet
      BY <2>1, <3>1, PipesFacts
    <3>3. In[e][c] \in GonePackets
      BY <2>1, <3>1 DEF GonePackets
    <3> HIDE DEF x
    <3>4. QED
      BY <2>1, <3>1, <3>2, <3>3
  <2>2. CASE /\ In[e][c] = input[e][c]
             /\ ~\E i \in Gone[e[1]] : x(e[1], i) = [edge |-> e, channel |-> c]
    BY <2>2
  <2>3. QED
    BY <2>1, <2>2, FillFacts
<1> HIDE DEF x
<1>3. RegType(In)
  <2>1. \A e \in Edge, c \in Channel : In[e][c] \in Packet \cup {NoPacket}
    <3> SUFFICES ASSUME NEW e \in Edge, NEW c \in Channel PROVE In[e][c] \in Packet \cup {NoPacket}
      OBVIOUS
    <3>1. input[e][c] \in Packet \cup {NoPacket}
      BY <1>1 DEF RegType
    <3>2. QED
      BY <1>2, <3>1
  <2>2. In = [e \in Edge |-> [c \in Channel |-> In[e][c]]]
    BY DEF In, Fill
  <2>3. QED
    BY <2>1, <2>2 DEF RegType
<1>4. RegApart(In)
  <2> SUFFICES ASSUME NEW e \in Edge, NEW f \in Edge, NEW c \in Channel, NEW d \in Channel,
                      In[e][c] # NoPacket, In[e][c] = In[f][d]
               PROVE  e = f /\ c = d
    BY DEF RegApart
  <2> DEFINE Old(ee, cc, m) == m = input[ee][cc] /\ m \notin Pipes(Queue)
             New(ee, cc, m) == ee[1] \in Node /\ m \in Pipes(Queue) /\
               \E i \in DOMAIN Queue[ee[1]] : /\ x(ee[1], i) = [edge |-> ee, channel |-> cc]
                                              /\ m = Queue[ee[1]][i].packet
  <2>1. \A ee \in Edge, cc \in Channel :
          In[ee][cc] # NoPacket => Old(ee, cc, In[ee][cc]) \/ New(ee, cc, In[ee][cc])
    <3> SUFFICES ASSUME NEW ee \in Edge, NEW cc \in Channel, In[ee][cc] # NoPacket
                 PROVE  Old(ee, cc, In[ee][cc]) \/ New(ee, cc, In[ee][cc])
      OBVIOUS
    <3>1. CASE In[ee][cc] = input[ee][cc]
      <4>1. In[ee][cc] \in Regs(input)
        BY <1>1, <3>1, RegsFacts
      <4>2. QED
        BY <3>1, <4>1
    <3>2. CASE In[ee][cc] # input[ee][cc]
      BY <1>2, <3>2
    <3>3. QED
      BY <3>1, <3>2
  <2>2. PICK m : m = In[e][c]
    OBVIOUS
  <2>3. (Old(e, c, m) \/ New(e, c, m)) /\ (Old(f, d, m) \/ New(f, d, m))
    <3> HIDE DEF Old, New
    <3>1. m = In[f][d] /\ In[f][d] # NoPacket
      BY <2>2
    <3>2. QED
      BY <2>1, <2>2, <3>1
  <2>4. CASE Old(e, c, m) /\ Old(f, d, m)
    <3>1. input[e][c] = input[f][d] /\ input[e][c] # NoPacket
      BY <2>2, <2>4
    <3>2. QED
      BY <3>1 DEF RegApart
  <2>5. CASE New(e, c, m) /\ New(f, d, m)
    <3>1. PICK i \in DOMAIN Queue[e[1]] :
            x(e[1], i) = [edge |-> e, channel |-> c] /\ m = Queue[e[1]][i].packet
      BY <2>5
    <3>2. PICK j \in DOMAIN Queue[f[1]] :
            x(f[1], j) = [edge |-> f, channel |-> d] /\ m = Queue[f[1]][j].packet
      BY <2>5
    <3>3. e[1] \in Node /\ f[1] \in Node
      BY <2>5
    <3>4. e[1] = f[1] /\ i = j
      <4>1. Queue[e[1]][i].packet = Queue[f[1]][j].packet
        BY <3>1, <3>2
      <4>2. QED
        BY <3>3, <4>1 DEF PipeApart
    <3>5. [edge |-> e, channel |-> c] = [edge |-> f, channel |-> d]
      BY <3>1, <3>2, <3>4
    <3>6. QED
      BY <3>5
  <2>6. QED
    BY <2>3, <2>4, <2>5
<1>5. ASSUME NEW m \in Regs(In) PROVE m \in Regs(input) \cup GonePackets
  <2>1. PICK e \in Edge, c \in Channel : m = In[e][c] /\ m # NoPacket
    BY <1>3, RegsFacts
  <2>2. CASE m = input[e][c]
    BY <1>1, <2>1, <2>2, RegsFacts
  <2>3. CASE m # input[e][c]
    BY <1>2, <2>1, <2>3
  <2>4. QED
    BY <2>2, <2>3
<1>6. ASSUME NEW m \in Regs(input) PROVE m \in Regs(In)
  <2>1. PICK e \in Edge, c \in Channel : m = input[e][c] /\ m # NoPacket
    BY <1>1, RegsFacts
  <2>2. m = In[e][c]
    BY <1>2, <2>1
  <2>3. QED
    BY <1>3, <2>1, <2>2, RegsFacts
<1>7. ASSUME NEW m \in GonePackets PROVE m \in Regs(In)
  <2>1. PICK n \in Node : \E i \in Gone[n] : m = Queue[n][i].packet
    BY DEF GonePackets
  <2>2. PICK i \in Gone[n] : m = Queue[n][i].packet
    BY <2>1
  <2>3. PICK e \in Edge, c \in Channel : x(n, i) = [edge |-> e, channel |-> c] /\ e[1] = n
    <3>1. LET z == Exit(n, Queue[n][i].packet) IN
             z.edge \in Edge /\ z.edge[1] = n /\ z.channel \in Channel
             /\ z = [edge |-> z.edge, channel |-> z.channel]
      BY <2>2, GoneFacts
    <3>2. QED
      BY <3>1 DEF x
  <2>4. PICK j \in Gone[n] : j \in DOMAIN Queue[n] /\ x(n, j) = [edge |-> e, channel |-> c]
                             /\ In[e][c] = Queue[n][j].packet /\ In[e][c] \in Packet
    BY <1>2, <2>3
  <2>5. i = j
    <3>1. x(n, i) = x(n, j)
      BY <2>3, <2>4
    <3>2. Exit(n, Queue[n][i].packet) = Exit(n, Queue[n][j].packet)
      BY <3>1 DEF x
    <3>3. QED
      BY <2>2, <2>4, <3>2, GoneFacts
  <2>6. In[e][c] = m /\ m # NoPacket
    BY <2>2, <2>4, <2>5, NoPacketAssumption
  <2>7. QED
    BY <1>3, <2>6, RegsFacts
<1>8. QED
  BY <1>3, <1>4, <1>5, <1>6, <1>7

\* The pipelines lose what leaves them.
LEMMA KeptFacts ==
  ASSUME TypeOK, PipeType(Queue), PipeApart(Queue), Onward(Queue)
  PROVE  /\ PipeType(Kept) /\ PipeApart(Kept) /\ Onward(Kept)
         /\ GonePackets \subseteq Pipes(Queue)
         /\ Pipes(Kept) = Pipes(Queue) \ GonePackets
         /\ \A n \in Node : /\ Len(Kept[n]) = Len(Queue[n]) - Cardinality(Gone[n])
                            /\ Len(Kept[n]) \in Nat /\ Cardinality(Gone[n]) \in Nat
<1> DEFINE a(n) == Ascending(DOMAIN Queue[n] \ Gone[n])
           E == [packet : Packet, wait : 0 .. RouteLatency]
<1>1. ASSUME NEW n \in Node
      PROVE  /\ Gone[n] \in SUBSET DOMAIN Queue[n]
             /\ Kept[n] \in Seq(E)
             /\ Len(Kept[n]) = Len(Queue[n]) - Cardinality(Gone[n])
             /\ Len(Kept[n]) \in Nat /\ Cardinality(Gone[n]) \in Nat
             /\ \A i \in DOMAIN Kept[n] :
                  /\ a(n)[i] \in DOMAIN Queue[n] /\ a(n)[i] \notin Gone[n]
                  /\ Kept[n][i].packet = Queue[n][a(n)[i]].packet
             /\ \A i, j \in DOMAIN Kept[n] : a(n)[i] = a(n)[j] => i = j
             /\ \A h \in DOMAIN Queue[n] : h \in Gone[n] \/ \E i \in DOMAIN Kept[n] : a(n)[i] = h
  <2>1. Gone[n] \in SUBSET DOMAIN Queue[n]
    BY GoneFacts
  <2>2. Queue[n] \in Seq(E)
    BY DEF PipeType
  <2>3. Kept[n] = Keep(Queue[n], Gone[n])
    BY DEF Kept
  <2>4. a(n) = Ascending(DOMAIN Queue[n] \ Gone[n])
    OBVIOUS
  <2> HIDE DEF a
  <2>5. Stays(Queue[n], Gone[n], Kept[n], a(n))
    BY <2>1, <2>2, <2>3, <2>4, KeepFacts
  <2>6. QED
    BY <2>1, <2>5 DEF Stays
<1> HIDE DEF a
<1>0. ASSUME NEW n \in Node, NEW i \in DOMAIN Kept[n]
      PROVE  \E g \in DOMAIN Queue[n] :
               g = a(n)[i] /\ g \notin Gone[n] /\ Kept[n][i].packet = Queue[n][g].packet
  <2>1. /\ a(n)[i] \in DOMAIN Queue[n] /\ a(n)[i] \notin Gone[n]
        /\ Kept[n][i].packet = Queue[n][a(n)[i]].packet
    BY <1>1, Zenon
  <2>2. QED
    BY <2>1, Zenon
<1>2. PipeType(Kept)
  <2>1. Kept = [n \in Node |-> Kept[n]]
    BY DEF Kept
  <2>2. \A n \in Node : Kept[n] \in Seq(E)
    BY <1>1
  <2>3. QED
    BY <2>1, <2>2 DEF PipeType
<1>3. PipeApart(Kept)
  <2> SUFFICES ASSUME NEW n \in Node, NEW k \in Node,
                      NEW i \in DOMAIN Kept[n], NEW j \in DOMAIN Kept[k],
                      Kept[n][i].packet = Kept[k][j].packet
               PROVE  n = k /\ i = j
    BY DEF PipeApart
  <2>1. PICK g \in DOMAIN Queue[n] : g = a(n)[i] /\ Kept[n][i].packet = Queue[n][g].packet
    BY <1>0
  <2>2. PICK h \in DOMAIN Queue[k] : h = a(k)[j] /\ Kept[k][j].packet = Queue[k][h].packet
    BY <1>0
  <2>3. n = k /\ g = h
    <3>1. Queue[n][g].packet = Queue[k][h].packet
      BY <2>1, <2>2
    <3>2. QED
      BY <3>1 DEF PipeApart
  <2>4. \A x, y \in DOMAIN Kept[n] : a(n)[x] = a(n)[y] => x = y
    BY <1>1
  <2>5. QED
    BY <2>1, <2>2, <2>3, <2>4
<1>4. Onward(Kept)
  <2> SUFFICES ASSUME NEW n \in Node, NEW i \in DOMAIN Kept[n]
               PROVE  ~Local(n, Kept[n][i].packet)
    BY DEF Onward
  <2>1. PICK g \in DOMAIN Queue[n] : Kept[n][i].packet = Queue[n][g].packet
    BY <1>0
  <2>2. QED
    BY <2>1 DEF Onward
<1>5. ASSUME NEW m \in GonePackets PROVE m \in Pipes(Queue) /\ m \notin Pipes(Kept)
  <2>1. PICK n \in Node : \E i \in Gone[n] : m = Queue[n][i].packet
    BY DEF GonePackets
  <2>2. PICK i \in Gone[n] : m = Queue[n][i].packet
    BY <2>1
  <2>3. i \in DOMAIN Queue[n]
    BY <1>1
  <2>4. ASSUME m \in Pipes(Kept) PROVE FALSE
    <3>1. PICK k \in Node : \E j \in DOMAIN Kept[k] : m = Kept[k][j].packet
      BY <1>2, <2>4, PipesFacts
    <3>2. PICK j \in DOMAIN Kept[k] : m = Kept[k][j].packet
      BY <3>1
    <3>3. PICK h \in DOMAIN Queue[k] : h \notin Gone[k] /\ m = Queue[k][h].packet
      BY <1>0, <3>2
    <3>4. n = k /\ i = h
      <4>1. Queue[n][i].packet = Queue[k][h].packet
        BY <2>2, <3>3
      <4>2. QED
        BY <2>3, <4>1 DEF PipeApart
    <3>5. QED
      BY <3>3, <3>4
  <2>5. QED
    BY <2>2, <2>3, <2>4, PipesFacts
<1>6. ASSUME NEW m \in Pipes(Queue), m \notin GonePackets PROVE m \in Pipes(Kept)
  <2>1. PICK n \in Node : \E h \in DOMAIN Queue[n] : m = Queue[n][h].packet
    BY PipesFacts
  <2>2. PICK h \in DOMAIN Queue[n] : m = Queue[n][h].packet
    BY <2>1
  <2>3. h \notin Gone[n]
    BY <1>6, <2>2 DEF GonePackets
  <2>4. PICK i \in DOMAIN Kept[n] : a(n)[i] = h
    BY <1>1, <2>3
  <2>5. Kept[n][i].packet = m
    BY <1>0, <2>2, <2>4
  <2>6. QED
    BY <1>2, <2>5, PipesFacts
<1>7. ASSUME NEW m \in Pipes(Kept) PROVE m \in Pipes(Queue)
  <2>1. PICK n \in Node : \E i \in DOMAIN Kept[n] : m = Kept[n][i].packet
    BY <1>2, PipesFacts
  <2>2. PICK i \in DOMAIN Kept[n] : m = Kept[n][i].packet
    BY <2>1
  <2>3. PICK h \in DOMAIN Queue[n] : m = Queue[n][h].packet
    BY <1>0, <2>2
  <2>4. QED
    BY <2>3, PipesFacts
<1>8. QED
  BY <1>1, <1>2, <1>3, <1>4, <1>5, <1>6, <1>7

-------------------------------------------------------------------------------
(***************************************************************************)
(* The third move of a cycle: packets cross the edges.                     *)
(***************************************************************************)
Crossing == [e \in Edge |-> Moved(In[e], Out[e])]
InNext ==
  [e \in Edge |-> [c \in Channel |-> IF c \in Crossing[e] THEN NoPacket ELSE In[e][c]]]
OutNext ==
  [e \in Edge |-> [c \in Channel |-> IF c \in Crossing[e] THEN In[e][c] ELSE Out[e][c]]]

\* Only a packet moves, and only to a free register.
LEMMA MovedFacts ==
  ASSUME NEW in, NEW out, NEW c \in Moved(in, out)
  PROVE  c \in Channel /\ in[c] # NoPacket /\ out[c] = NoPacket
BY DEF Moved

LEMMA MoveFacts ==
  ASSUME RegType(In), RegApart(In), RegType(Out), RegApart(Out), Regs(In) \cap Regs(Out) = {}
  PROVE  /\ RegType(InNext) /\ RegApart(InNext) /\ RegType(OutNext) /\ RegApart(OutNext)
         /\ Regs(InNext) \cap Regs(OutNext) = {}
         /\ Regs(InNext) \cup Regs(OutNext) = Regs(In) \cup Regs(Out)
<1>1. ASSUME NEW e \in Edge, NEW c \in Channel
      PROVE  /\ c \in Crossing[e] => In[e][c] # NoPacket /\ Out[e][c] = NoPacket
             /\ InNext[e][c] = IF c \in Crossing[e] THEN NoPacket ELSE In[e][c]
             /\ OutNext[e][c] = IF c \in Crossing[e] THEN In[e][c] ELSE Out[e][c]
  BY MovedFacts DEF Crossing, InNext, OutNext
<1>2. ASSUME NEW e \in Edge, NEW c \in Channel
      PROVE  In[e][c] \in Packet \cup {NoPacket} /\ Out[e][c] \in Packet \cup {NoPacket}
  BY DEF RegType
<1>3. RegType(InNext) /\ RegType(OutNext)
  <2>1. \A e \in Edge, c \in Channel :
          InNext[e][c] \in Packet \cup {NoPacket} /\ OutNext[e][c] \in Packet \cup {NoPacket}
    BY <1>1, <1>2
  <2>2. /\ InNext = [e \in Edge |-> [c \in Channel |-> InNext[e][c]]]
        /\ OutNext = [e \in Edge |-> [c \in Channel |-> OutNext[e][c]]]
    BY DEF InNext, OutNext
  <2>3. QED
    BY <2>1, <2>2 DEF RegType
<1>4. RegApart(InNext)
  <2> SUFFICES ASSUME NEW e \in Edge, NEW f \in Edge, NEW c \in Channel, NEW d \in Channel,
                      InNext[e][c] # NoPacket, InNext[e][c] = InNext[f][d]
               PROVE  e = f /\ c = d
    BY DEF RegApart
  <2>1. In[e][c] # NoPacket /\ In[e][c] = In[f][d]
    BY <1>1
  <2>2. QED
    BY <2>1 DEF RegApart
\* What the output registers hold then was in an input or an output register.
<1>5. ASSUME NEW e \in Edge, NEW c \in Channel, OutNext[e][c] # NoPacket
      PROVE  \/ c \in Crossing[e] /\ OutNext[e][c] = In[e][c] /\ OutNext[e][c] \in Regs(In)
             \/ c \notin Crossing[e] /\ OutNext[e][c] = Out[e][c] /\ OutNext[e][c] \in Regs(Out)
  BY <1>1, <1>5, RegsFacts
<1>6. RegApart(OutNext)
  <2> SUFFICES ASSUME NEW e \in Edge, NEW f \in Edge, NEW c \in Channel, NEW d \in Channel,
                      OutNext[e][c] # NoPacket, OutNext[e][c] = OutNext[f][d]
               PROVE  e = f /\ c = d
    BY DEF RegApart
  <2>1. CASE OutNext[e][c] \in Regs(In)
    <3>1. In[e][c] # NoPacket /\ In[e][c] = In[f][d]
      BY <1>5, <2>1
    <3>2. QED
      BY <3>1 DEF RegApart
  <2>2. CASE OutNext[e][c] \notin Regs(In)
    <3>1. Out[e][c] # NoPacket /\ Out[e][c] = Out[f][d]
      <4>1. OutNext[e][c] = Out[e][c]
        BY <1>5, <2>2
      <4>2. OutNext[f][d] = Out[f][d]
        BY <1>5, <2>2
      <4>3. QED
        BY <4>1, <4>2
    <3>2. QED
      BY <3>1 DEF RegApart
  <2>3. QED
    BY <2>1, <2>2
<1>7. ASSUME NEW m \in Regs(InNext)
      PROVE  m \in Regs(In) /\ m \notin Regs(OutNext)
  <2>1. PICK e \in Edge, c \in Channel : m = InNext[e][c] /\ m # NoPacket
    BY <1>3, RegsFacts
  <2>2. m = In[e][c] /\ c \notin Crossing[e]
    BY <1>1, <2>1
  <2>3. m \in Regs(In)
    BY <2>1, <2>2, RegsFacts
  <2>4. ASSUME m \in Regs(OutNext) PROVE FALSE
    <3>1. PICK f \in Edge, d \in Channel : m = OutNext[f][d]
      BY <1>3, <2>4, RegsFacts
    <3>2. d \in Crossing[f] /\ m = In[f][d]
      BY <1>5, <2>1, <2>3, <3>1
    <3>3. In[e][c] # NoPacket /\ In[e][c] = In[f][d]
      BY <2>1, <2>2, <3>2
    <3>4. e = f /\ c = d
      BY <3>3 DEF RegApart
    <3>5. QED
      BY <2>2, <3>2, <3>4
  <2>5. QED
    BY <2>3, <2>4
<1>8. ASSUME NEW m \in Regs(OutNext) PROVE m \in Regs(In) \cup Regs(Out)
  <2>1. PICK e \in Edge, c \in Channel : m = OutNext[e][c] /\ m # NoPacket
    BY <1>3, RegsFacts
  <2>2. QED
    BY <1>5, <2>1
<1>9. ASSUME NEW m \in Regs(In) PROVE m \in Regs(InNext) \cup Regs(OutNext)
  <2>1. PICK e \in Edge, c \in Channel : m = In[e][c] /\ m # NoPacket
    BY RegsFacts
  <2>2. m = InNext[e][c] \/ m = OutNext[e][c]
    BY <1>1, <2>1
  <2>3. QED
    BY <1>3, <2>1, <2>2, RegsFacts
<1>10. ASSUME NEW m \in Regs(Out) PROVE m \in Regs(OutNext)
  <2>1. PICK e \in Edge, c \in Channel : m = Out[e][c] /\ m # NoPacket
    BY RegsFacts
  <2>2. m = OutNext[e][c]
    BY <1>1, <2>1
  <2>3. QED
    BY <1>3, <2>1, <2>2, RegsFacts
<1>11. QED
  BY <1>3, <1>4, <1>6, <1>7, <1>8, <1>9, <1>10

\* A cycle: the packets are the same, and still each at one place.
LEMMA CycleApart ==
  ASSUME TypeOK, Sound, Separate, Onward(pipeline)
  PROVE  /\ Apart(Rest, RecvNext, OrderNext, Kept, InNext, OutNext)
         /\ All(Rest, RecvNext, OrderNext, Kept, InNext, OutNext) = Everything
         /\ BufType(Rest) /\ BufType(RecvNext) /\ OrderNext \in [Node -> SUBSET Packet]
         /\ PipeType(Kept) /\ RegType(InNext) /\ RegType(OutNext)
         /\ Onward(Kept)
<1> DEFINE S == Packets(sendBuf)
           R == Packets(recvBuf)
           O == Orders(orderBuf)
           P == Pipes(pipeline)
           I == Regs(input)
           Q == Regs(output)
<1>1. /\ BufApart(sendBuf) /\ BufApart(recvBuf) /\ OrderApart(orderBuf)
      /\ PipeApart(pipeline) /\ RegApart(input) /\ RegApart(output)
      /\ Disjoint(S, R, O, P, I, Q)
  BY DEF Separate, Apart
<1>2. TakenPackets \subseteq S \cup Q /\ S \cap Q = {}
  <2>1. ASSUME NEW m \in TakenPackets PROVE m \in S \cup Q
    <3>1. PICK n \in Node : Took[n].taken /\ m = Took[n].packet
      BY DEF TakenPackets
    <3>2. QED
      BY <3>1, TakenHeld
  <2>2. QED
    BY <1>1, <2>1 DEF Disjoint
<1>3. BufType(Rest) /\ BufApart(Rest) /\ Packets(Rest) = S \ TakenPackets
  BY <1>1, <1>2, RestFacts
<1>4. RegType(Out) /\ RegApart(Out) /\ Regs(Out) = Q \ TakenPackets
  BY <1>1, <1>2, OutFacts
<1>5. /\ OrderNext \in [Node -> SUBSET Packet] /\ OrderApart(OrderNext)
      /\ BufType(RecvNext) /\ BufApart(RecvNext)
      /\ Orders(OrderNext) \cap Packets(RecvNext) = {}
      /\ Orders(OrderNext) \cup Packets(RecvNext) = O \cup R \cup Arrivals
  BY ArrivalFacts
<1>6. TakenPackets = Arrivals \cup Forwarded /\ Arrivals \cap Forwarded = {}
  BY TakenSplit
<1>7. PipeType(Queue) /\ PipeApart(Queue) /\ Onward(Queue) /\ Pipes(Queue) = P \cup Forwarded
  BY QueueFacts
<1> HIDE DEF S, R, O, P, I, Q
<1>8. Pipes(Queue) \cap I = {}
  BY <1>1, <1>2, <1>6, <1>7 DEF Disjoint
<1>9. RegType(In) /\ RegApart(In) /\ Regs(In) = I \cup GonePackets
  BY <1>1, <1>7, <1>8, InFacts DEF I
<1>10. /\ PipeType(Kept) /\ PipeApart(Kept) /\ Onward(Kept)
       /\ GonePackets \subseteq Pipes(Queue) /\ Pipes(Kept) = Pipes(Queue) \ GonePackets
  BY <1>7, KeptFacts
<1>11. Regs(In) \cap Regs(Out) = {}
  BY <1>1, <1>2, <1>4, <1>6, <1>7, <1>9, <1>10 DEF Disjoint
<1>12. /\ RegType(InNext) /\ RegApart(InNext) /\ RegType(OutNext) /\ RegApart(OutNext)
       /\ Regs(InNext) \cap Regs(OutNext) = {}
       /\ Regs(InNext) \cup Regs(OutNext) = Regs(In) \cup Regs(Out)
  BY <1>4, <1>9, <1>11, MoveFacts
<1> DEFINE T == TakenPackets
           A == Arrivals
           F == Forwarded
           G == GonePackets
           S1 == Packets(Rest)
           R1 == Packets(RecvNext)
           O1 == Orders(OrderNext)
           P1 == Pipes(Kept)
           I1 == Regs(InNext)
           Q1 == Regs(OutNext)
<1>13. /\ T \subseteq S \cup Q /\ T = A \cup F /\ A \cap F = {}
       /\ S1 = S \ T /\ O1 \cap R1 = {} /\ O1 \cup R1 = O \cup R \cup A
       /\ G \subseteq P \cup F /\ P1 = (P \cup F) \ G
       /\ I1 \cap Q1 = {} /\ I1 \cup Q1 = (I \cup G) \cup (Q \ T)
  BY <1>2, <1>3, <1>4, <1>5, <1>6, <1>7, <1>9, <1>10, <1>12
<1>14. Disjoint(S, R, O, P, I, Q)
  BY <1>1
<1> HIDE DEF T, A, F, G, S1, R1, O1, P1, I1, Q1
<1>15. Disjoint(S1, R1, O1, P1, I1, Q1)
  <2>1. S1 \cap (R1 \cup O1 \cup P1 \cup I1 \cup Q1) = {}
    BY <1>13, <1>14 DEF Disjoint
  <2>2. R1 \cap (O1 \cup P1 \cup I1 \cup Q1) = {}
    BY <1>13, <1>14 DEF Disjoint
  <2>3. O1 \cap (P1 \cup I1 \cup Q1) = {}
    BY <1>13, <1>14 DEF Disjoint
  <2>4. P1 \cap (I1 \cup Q1) = {}
    BY <1>13, <1>14 DEF Disjoint
  <2>5. QED
    BY <1>13, <2>1, <2>2, <2>3, <2>4 DEF Disjoint
<1>16. S1 \cup R1 \cup O1 \cup P1 \cup I1 \cup Q1 = S \cup R \cup O \cup P \cup I \cup Q
  <2>1. S1 \cup (R1 \cup O1) \cup P1 \cup (I1 \cup Q1) = S \cup R \cup O \cup P \cup I \cup Q
    BY <1>13
  <2>2. QED
    BY <2>1
<1>17. Apart(Rest, RecvNext, OrderNext, Kept, InNext, OutNext)
  BY <1>3, <1>5, <1>10, <1>12, <1>15 DEF Apart, S1, R1, O1, P1, I1, Q1
<1>18. All(Rest, RecvNext, OrderNext, Kept, InNext, OutNext) = Everything
  BY <1>16 DEF All, Everything, S1, R1, O1, P1, I1, Q1, S, R, O, P, I, Q
<1>19. QED
  BY <1>3, <1>5, <1>10, <1>12, <1>17, <1>18

-------------------------------------------------------------------------------
(***************************************************************************)
(* The inductive invariant.                                                *)
(***************************************************************************)

\* The ids of the messages for port p and channel c.
Ids(A, p, c) == {m.id : m \in {k \in A : k.dst = p /\ k.channel = c}}

Credits ==
  Slots # 0 => \A p \in Port, c \in Channel :
    reserved[p][c] = Cardinality(Ids(Everything, p, c)) /\ reserved[p][c] <= Slots

Counted ==
  Congestion => \A n \in Node : buffered[n] = Len(pipeline[n]) /\ buffered[n] <= BufferLimit

Numbered == \A m \in Everything : m.id \in 1 .. accepted

WholeBuffers == \A p \in Port, c \in Channel : WholeSeq(recvBuf[p][c], p, c)

\* The flag is up above the low watermark only; where the two watermarks are one
\* number it may stay up at it.
Watermarked ==
  \A n \in Node : congested[n] =>
    Congestion /\ Low <= buffered[n] /\ (Low < High => Low < buffered[n])

IInv ==
  /\ TypeOK
  /\ Separate
  /\ Onward(pipeline)
  /\ Whole(Everything) /\ Consistent(Everything)
  /\ Numbered
  /\ WholeBuffers
  /\ Credits
  /\ Counted
  /\ Watermarked

LEMMA IInvSound ==
  ASSUME IInv PROVE Sound
BY DEF IInv, Sound, Whole

-------------------------------------------------------------------------------
(***************************************************************************)
(* A cycle keeps it.                                                       *)
(***************************************************************************)

\* What a cycle does with its candidates, queues, releases, registers and moves.
Effect(took, queue, gone, in, out, moved) ==
  /\ sendBuf' = [p \in Port |-> [c \in Channel |->
       IF TakenFrom(took[NodeOf[p]], "port", p, c) THEN Tail(sendBuf[p][c]) ELSE sendBuf[p][c]]]
  /\ recvBuf' = [p \in Port |-> [c \in Channel |-> RecvAfter(p, c, took[NodeOf[p]])]]
  /\ orderBuf' = [n \in Node |-> OrderAfter(n, took[n])]
  /\ pipeline' = [n \in Node |-> Keep(queue[n], gone[n])]
  /\ buffered' = [n \in Node |-> BufferedAfter(n, took[n], gone[n])]
  /\ congested' = [n \in Node |-> CongestedAfter(n, buffered'[n])]
  /\ input' = [e \in Edge |-> [c \in Channel |->
       IF c \in moved[e] THEN NoPacket ELSE in[e][c]]]
  /\ output' = [e \in Edge |-> [c \in Channel |->
       IF c \in moved[e] THEN in[e][c] ELSE out[e][c]]]
  /\ rxPtr' = [n \in Node |-> PtrAfter(rxPtr[n], "edge", took[n], Len(Rxs[n]))]
  /\ sdPtr' = [n \in Node |-> PtrAfter(sdPtr[n], "port", took[n], Len(PortsAt[n]))]
  /\ UNCHANGED <<reserved, accepted>>

LEMMA TickFacts ==
  ASSUME Tick
  PROVE  /\ sendBuf' = Rest /\ recvBuf' = RecvNext /\ orderBuf' = OrderNext
         /\ pipeline' = Kept /\ input' = InNext /\ output' = OutNext
         /\ buffered' = [n \in Node |-> BufferedAfter(n, Took[n], Gone[n])]
         /\ congested' = [n \in Node |-> CongestedAfter(n, buffered'[n])]
         /\ rxPtr' = [n \in Node |-> PtrAfter(rxPtr[n], "edge", Took[n], Len(Rxs[n]))]
         /\ sdPtr' = [n \in Node |-> PtrAfter(sdPtr[n], "port", Took[n], Len(PortsAt[n]))]
         /\ reserved' = reserved /\ accepted' = accepted
<1>1. PICK took \in {[n \in Node |-> Candidate(n)]} :
      \E queue \in {[n \in Node |-> Admit(n, took[n])]} :
      \E gone \in {[n \in Node |-> Released(n, queue[n])]} :
      \E in \in {[e \in Edge |-> Fill(e, queue[e[1]], gone[e[1]])]} :
      \E out \in {[e \in Edge |-> [c \in Channel |->
                     IF TakenFrom(took[e[2]], "edge", e, c) THEN NoPacket ELSE output[e][c]]]} :
      \E moved \in {[e \in Edge |-> Moved(in[e], out[e])]} :
      Effect(took, queue, gone, in, out, moved)
  BY Zenon DEF Tick, Effect
<1>2. took = Took
  BY DEF Took
<1>3. PICK queue \in {[n \in Node |-> Admit(n, took[n])]} :
      \E gone \in {[n \in Node |-> Released(n, queue[n])]} :
      \E in \in {[e \in Edge |-> Fill(e, queue[e[1]], gone[e[1]])]} :
      \E out \in {[e \in Edge |-> [c \in Channel |->
                     IF TakenFrom(took[e[2]], "edge", e, c) THEN NoPacket ELSE output[e][c]]]} :
      \E moved \in {[e \in Edge |-> Moved(in[e], out[e])]} :
      Effect(took, queue, gone, in, out, moved)
  BY <1>1, Zenon
<1>4. queue = Queue
  BY <1>2 DEF Queue
<1>5. PICK gone \in {[n \in Node |-> Released(n, queue[n])]} :
      \E in \in {[e \in Edge |-> Fill(e, queue[e[1]], gone[e[1]])]} :
      \E out \in {[e \in Edge |-> [c \in Channel |->
                     IF TakenFrom(took[e[2]], "edge", e, c) THEN NoPacket ELSE output[e][c]]]} :
      \E moved \in {[e \in Edge |-> Moved(in[e], out[e])]} :
      Effect(took, queue, gone, in, out, moved)
  BY <1>3, Zenon
<1>6. gone = Gone
  BY <1>4 DEF Gone
<1>7. PICK in \in {[e \in Edge |-> Fill(e, queue[e[1]], gone[e[1]])]} :
      \E out \in {[e \in Edge |-> [c \in Channel |->
                     IF TakenFrom(took[e[2]], "edge", e, c) THEN NoPacket ELSE output[e][c]]]} :
      \E moved \in {[e \in Edge |-> Moved(in[e], out[e])]} :
      Effect(took, queue, gone, in, out, moved)
  BY <1>5, Zenon
<1>8. in = In
  BY <1>4, <1>6 DEF In
<1>9. PICK out \in {[e \in Edge |-> [c \in Channel |->
                      IF TakenFrom(took[e[2]], "edge", e, c) THEN NoPacket ELSE output[e][c]]]} :
      \E moved \in {[e \in Edge |-> Moved(in[e], out[e])]} :
      Effect(took, queue, gone, in, out, moved)
  BY <1>7, Zenon
<1>10. out = Out
  BY <1>2 DEF Out
<1>11. PICK moved \in {[e \in Edge |-> Moved(in[e], out[e])]} :
       Effect(took, queue, gone, in, out, moved)
  BY <1>9, Zenon
<1>12. moved = Crossing
  BY <1>8, <1>10 DEF Crossing
<1>13. Effect(Took, Queue, Gone, In, Out, Crossing)
  BY <1>2, <1>4, <1>6, <1>8, <1>10, <1>11, <1>12
<1>14. QED
  BY <1>13 DEF Effect, Rest, RecvNext, OrderNext, Kept, InNext, OutNext

\* The pointers of the scans stay in their rings.
LEMMA PointersStay ==
  ASSUME TypeOK, NEW n \in Node
  PROVE  /\ LET r == PtrAfter(rxPtr[n], "edge", Took[n], Len(Rxs[n])) IN
            r = 0 \/ r \in 0 .. Len(Rxs[n]) - 1
         /\ LET s == PtrAfter(sdPtr[n], "port", Took[n], Len(PortsAt[n])) IN
            s = 0 \/ s \in 0 .. Len(PortsAt[n]) - 1
<1>1. Len(Rxs[n]) \in Nat /\ Len(PortsAt[n]) \in Nat
  <2>1. PortsAt[n] \in Seq(Port)
    BY ConfigAssumption
  <2>2. QED
    BY <2>1, RxFacts, LenProperties
<1>2. ASSUME NEW size \in Nat, NEW i \in 0 .. size - 1
      PROVE  Successor(i, size) = 0 \/ Successor(i, size) \in 0 .. size - 1
  BY DEF Successor
<1>3. /\ rxPtr[n] = 0 \/ rxPtr[n] \in 0 .. Len(Rxs[n]) - 1
      /\ sdPtr[n] = 0 \/ sdPtr[n] \in 0 .. Len(PortsAt[n]) - 1
  BY DEF TypeOK
<1>4. Took[n] = Candidate(n)
  BY DEF Took
<1>5. /\ Took[n].from = "edge" => Took[n].position \in 0 .. Len(Rxs[n]) - 1
      /\ Took[n].from = "port" => Took[n].position \in 0 .. Len(PortsAt[n]) - 1
  BY <1>4, CandidateFacts DEF FromEdge, FromPort
<1>6. ASSUME NEW ptr, NEW from, NEW size \in Nat, ptr = 0 \/ ptr \in 0 .. size - 1,
             Took[n].from = from => Took[n].position \in 0 .. size - 1
      PROVE  LET r == PtrAfter(ptr, from, Took[n], size) IN r = 0 \/ r \in 0 .. size - 1
  BY <1>2, <1>6 DEF PtrAfter
<1>7. QED
  BY <1>1, <1>3, <1>5, <1>6

\* The counter of a node stays the length of its pipeline, within its limit.
LEMMA CounterStays ==
  ASSUME TypeOK, Counted, PipeType(Queue), PipeApart(Queue), Onward(Queue), NEW n \in Node
  PROVE  LET b == BufferedAfter(n, Took[n], Gone[n]) IN
         b \in Nat /\ (Congestion => b = Len(Kept[n]) /\ b <= BufferLimit)
<1>1. /\ Len(Kept[n]) = Len(Queue[n]) - Cardinality(Gone[n])
      /\ Len(Kept[n]) \in Nat /\ Cardinality(Gone[n]) \in Nat
  BY KeptFacts
<1>2. buffered[n] \in Nat
  BY DEF TypeOK
<1>3. CASE ~Congestion
  BY <1>2, <1>3 DEF BufferedAfter
<1>4. CASE Congestion
  <2>1. buffered[n] = Len(pipeline[n]) /\ buffered[n] <= BufferLimit /\ BufferLimit \in Nat
    BY <1>4, ConfigAssumption DEF Counted
  <2>2. CASE Forwards(n, Took[n])
    <3>1. Len(Queue[n]) = Len(pipeline[n]) + 1
      BY <2>2, AdmitFacts
    <3>2. CanAccept(n, Took[n].packet) /\ ~Local(n, Took[n].packet)
      BY <2>2, TookFacts DEF Forwards
    <3>3. buffered[n] < BufferLimit
      BY <1>4, <3>2 DEF CanAccept
    <3>4. BufferedAfter(n, Took[n], Gone[n]) = buffered[n] + 1 - Cardinality(Gone[n])
      BY <1>4, <2>2 DEF BufferedAfter
    <3>5. QED
      BY <1>1, <1>2, <2>1, <3>1, <3>3, <3>4
  <2>3. CASE ~Forwards(n, Took[n])
    <3>1. Queue[n] = pipeline[n]
      BY <2>3, AdmitFacts
    <3>2. BufferedAfter(n, Took[n], Gone[n]) = buffered[n] - Cardinality(Gone[n])
      BY <1>4, <2>3 DEF BufferedAfter
    <3>3. QED
      BY <1>1, <1>2, <2>1, <3>1, <3>2
  <2>4. QED
    BY <2>2, <2>3
<1>5. QED
  BY <1>3, <1>4

\* The flag is a flag, and up only where it may be.
LEMMA FlagStays ==
  ASSUME TypeOK, NEW n \in Node, NEW b \in Nat
  PROVE  /\ CongestedAfter(n, b) \in BOOLEAN
         /\ CongestedAfter(n, b) => Congestion /\ Low <= b /\ (Low < High => Low < b)
<1>1. congested[n] \in BOOLEAN /\ Congestion \in BOOLEAN
  BY ConfigAssumption DEF TypeOK
<1>2. CASE ~Congestion
  BY <1>2 DEF CongestedAfter, Update
<1>3. CASE Congestion
  <2>1. High \in Nat /\ Low \in Nat /\ Low <= High
    BY <1>3, ConfigAssumption
  <2>2. \A was \in BOOLEAN : Update(was, b) \in BOOLEAN
    BY <1>3, <2>1 DEF Update
  <2>3. \A was \in BOOLEAN : was /\ Update(was, b) => Low < b
    BY <1>3, <2>1 DEF Update
  <2>4. \A was \in BOOLEAN : ~was /\ Update(was, b) => High <= b
    BY <1>3, <2>1 DEF Update
  <2>5. PICK u \in BOOLEAN : u = Update(congested[n], b)
    BY <1>1, <2>2
  <2>6. CongestedAfter(n, b) = Update(u, b) /\ Update(u, b) \in BOOLEAN
    BY <2>2, <2>5 DEF CongestedAfter
  <2>7. CASE u
    <3>1. Update(u, b) => Low < b
      BY <2>3, <2>7, Zenon
    <3>2. QED
      BY <1>3, <2>1, <2>6, <3>1
  <2>8. CASE ~u
    <3>1. Update(u, b) => High <= b
      BY <2>4, <2>8, Zenon
    <3>2. QED
      BY <1>3, <2>1, <2>6, <3>1
  <2>9. QED
    BY <2>5, <2>7, <2>8
<1>4. QED
  BY <1>2, <1>3

LEMMA TickIInv ==
  ASSUME IInv, Tick
  PROVE  IInv'
<1>1. TypeOK /\ Sound /\ Separate /\ Onward(pipeline)
  BY IInvSound DEF IInv
<1>2. /\ sendBuf' = Rest /\ recvBuf' = RecvNext /\ orderBuf' = OrderNext
      /\ pipeline' = Kept /\ input' = InNext /\ output' = OutNext
      /\ reserved' = reserved /\ accepted' = accepted
  BY TickFacts
<1>3. /\ buffered' = [n \in Node |-> BufferedAfter(n, Took[n], Gone[n])]
      /\ congested' = [n \in Node |-> CongestedAfter(n, buffered'[n])]
  BY TickFacts
<1>4. /\ rxPtr' = [n \in Node |-> PtrAfter(rxPtr[n], "edge", Took[n], Len(Rxs[n]))]
      /\ sdPtr' = [n \in Node |-> PtrAfter(sdPtr[n], "port", Took[n], Len(PortsAt[n]))]
  BY TickFacts
<1>5. /\ Apart(Rest, RecvNext, OrderNext, Kept, InNext, OutNext)
      /\ All(Rest, RecvNext, OrderNext, Kept, InNext, OutNext) = Everything
      /\ BufType(Rest) /\ BufType(RecvNext) /\ OrderNext \in [Node -> SUBSET Packet]
      /\ PipeType(Kept) /\ RegType(InNext) /\ RegType(OutNext)
      /\ Onward(Kept)
  BY <1>1, CycleApart
<1>6. Everything' = Everything
  BY <1>2, <1>5 DEF Everything
<1>7. Separate' /\ Onward(pipeline)'
  BY <1>2, <1>5 DEF Separate
<1>8. PipeType(Queue) /\ PipeApart(Queue) /\ Onward(Queue)
  BY <1>1, QueueFacts
<1>9. ASSUME NEW n \in Node
      PROVE  /\ buffered'[n] \in Nat
             /\ Congestion => buffered'[n] = Len(Kept[n]) /\ buffered'[n] <= BufferLimit
  BY <1>1, <1>3, <1>8, CounterStays DEF IInv
<1>10. ASSUME NEW n \in Node
       PROVE  /\ congested'[n] \in BOOLEAN
              /\ congested'[n] =>
                   Congestion /\ Low <= buffered'[n] /\ (Low < High => Low < buffered'[n])
  <2>1. congested'[n] = CongestedAfter(n, buffered'[n])
    BY <1>3
  <2>2. QED
    BY <1>1, <1>9, <2>1, FlagStays
<1>11. TypeOK'
  <2>1. /\ sendBuf' \in [Port -> [Channel -> Seq(Packet)]]
        /\ recvBuf' \in [Port -> [Channel -> Seq(Packet)]]
        /\ orderBuf' \in [Node -> SUBSET Packet]
        /\ pipeline' \in [Node -> Seq([packet : Packet, wait : 0 .. RouteLatency])]
        /\ input' \in [Edge -> [Channel -> Packet \cup {NoPacket}]]
        /\ output' \in [Edge -> [Channel -> Packet \cup {NoPacket}]]
    BY <1>2, <1>5 DEF BufType, PipeType, RegType
  <2>2. buffered' \in [Node -> Nat] /\ congested' \in [Node -> BOOLEAN]
    <3>1. buffered' = [n \in Node |-> buffered'[n]] /\ congested' = [n \in Node |-> congested'[n]]
      BY <1>3
    <3>2. QED
      BY <1>9, <1>10, <3>1
  <2>3. ASSUME NEW n \in Node
        PROVE  /\ rxPtr'[n] = 0 \/ rxPtr'[n] \in 0 .. Len(Rxs[n]) - 1
               /\ sdPtr'[n] = 0 \/ sdPtr'[n] \in 0 .. Len(PortsAt[n]) - 1
    BY <1>1, <1>4, PointersStay
  <2>4. reserved' \in [Port -> [Channel -> Nat]] /\ accepted' \in Nat
    BY <1>1, <1>2 DEF TypeOK
  <2>5. QED
    BY <2>1, <2>2, <2>3, <2>4 DEF TypeOK
<1>12. WholeBuffers'
  BY <1>1, <1>2, WholeNext DEF IInv, WholeBuffers
<1>13. Whole(Everything)' /\ Consistent(Everything)' /\ Numbered' /\ Credits'
  BY <1>2, <1>6 DEF IInv, Numbered, Credits
<1>14. Counted' /\ Watermarked'
  BY <1>2, <1>9, <1>10 DEF Counted, Watermarked
<1>15. QED
  BY <1>7, <1>11, <1>12, <1>13, <1>14 DEF IInv

-------------------------------------------------------------------------------
(***************************************************************************)
(* A send and a receive keep it.                                           *)
(***************************************************************************)
\* The packets of the message of m.
Parts(m) == {Block(m)[i] : i \in 1 .. m.count}

\* The packets of a new message in an empty send buffer.
LEMMA BufAdd ==
  ASSUME NEW buf, BufType(buf), BufApart(buf), NEW p \in Port, NEW c \in Channel,
         buf[p][c] = <<>>, NEW m \in Packet, Parts(m) \cap Packets(buf) = {},
         NEW new, BufType(new), new[p][c] = Block(m),
         \A q \in Port, d \in Channel : <<q, d>> # <<p, c>> => new[q][d] = buf[q][d]
  PROVE  /\ BufApart(new)
         /\ Packets(new) = Packets(buf) \cup Parts(m)
<1>1. /\ Block(m) \in Seq(Packet) /\ DOMAIN Block(m) = 1 .. m.count /\ m.count \in Nat
      /\ \A i \in 1 .. m.count : Block(m)[i].idx = i - 1
  BY BlockFacts
<1>2. BufType(new) /\ new[p][c] = Block(m)
  OBVIOUS
<1>3. new[p][c] = Block(m)
  OBVIOUS
<1>4. \A q \in Port, d \in Channel : <<q, d>> # <<p, c>> => new[q][d] = buf[q][d]
  OBVIOUS
<1>5. ASSUME NEW q \in Port, NEW d \in Channel, NEW j \in DOMAIN new[q][d]
      PROVE  \/ q = p /\ d = c /\ j \in 1 .. m.count /\ new[q][d][j] = Block(m)[j]
                /\ new[q][d][j] \in Parts(m)
             \/ /\ <<q, d>> # <<p, c>> /\ j \in DOMAIN buf[q][d] /\ new[q][d][j] = buf[q][d][j]
                /\ new[q][d][j] \in Packets(buf)
  <2>1. CASE q = p /\ d = c
    BY <1>1, <1>3, <2>1 DEF Parts
  <2>2. CASE ~(q = p /\ d = c)
    <3>1. new[q][d] = buf[q][d]
      BY <1>4, <2>2
    <3>2. QED
      BY <2>2, <3>1, PacketsFacts
  <2>3. QED
    BY <2>1, <2>2
<1>6. BufApart(new)
  <2> SUFFICES ASSUME NEW q \in Port, NEW r \in Port, NEW d \in Channel, NEW e \in Channel,
                      NEW i \in DOMAIN new[q][d], NEW j \in DOMAIN new[r][e],
                      new[q][d][i] = new[r][e][j]
               PROVE  q = r /\ d = e /\ i = j
    BY DEF BufApart
  <2>1. CASE new[q][d][i] \in Parts(m)
    <3>1. q = p /\ d = c /\ i \in 1 .. m.count /\ new[q][d][i] = Block(m)[i]
      BY <1>5, <2>1
    <3>2. r = p /\ e = c /\ j \in 1 .. m.count /\ new[r][e][j] = Block(m)[j]
      BY <1>5, <2>1
    <3>3. i - 1 = j - 1
      BY <1>1, <3>1, <3>2
    <3>4. QED
      BY <1>1, <3>1, <3>2, <3>3
  <2>2. CASE new[q][d][i] \notin Parts(m)
    <3>1. i \in DOMAIN buf[q][d] /\ new[q][d][i] = buf[q][d][i]
      BY <1>5, <2>2
    <3>2. j \in DOMAIN buf[r][e] /\ new[r][e][j] = buf[r][e][j]
      BY <1>5, <2>2
    <3>3. buf[q][d][i] = buf[r][e][j]
      BY <3>1, <3>2
    <3>4. QED
      BY <3>1, <3>2, <3>3 DEF BufApart
  <2>3. QED
    BY <2>1, <2>2
<1>7. ASSUME NEW x \in Packets(new) PROVE x \in Packets(buf) \cup Parts(m)
  <2>1. PICK q \in Port, d \in Channel : \E j \in DOMAIN new[q][d] : x = new[q][d][j]
    <3>1. PICK q \in Port, d \in Channel : x \in Range(new[q][d])
      BY DEF Packets
    <3>2. QED
      BY <3>1 DEF Range
  <2>2. QED
    BY <1>5, <2>1
<1>8. ASSUME NEW x \in Parts(m) PROVE x \in Packets(new)
  <2>1. PICK i \in 1 .. m.count : x = new[p][c][i]
    BY <1>3 DEF Parts
  <2>2. i \in DOMAIN new[p][c]
    BY <1>1, <1>3
  <2>3. QED
    BY <1>2, <2>1, <2>2, PacketsFacts
<1>9. ASSUME NEW x \in Packets(buf) PROVE x \in Packets(new)
  <2>1. PICK q \in Port, d \in Channel : \E j \in DOMAIN buf[q][d] : x = buf[q][d][j]
    BY PacketsFacts
  <2>2. PICK j \in DOMAIN buf[q][d] : x = buf[q][d][j]
    BY <2>1
  <2>3. <<q, d>> # <<p, c>>
    <3>1. DOMAIN <<>> = {}
      OBVIOUS
    <3>2. QED
      BY <2>2, <3>1
  <2>4. new[q][d] = buf[q][d]
    BY <1>4, <2>3
  <2>5. QED
    BY <1>2, <2>2, <2>4, PacketsFacts
<1>10. QED
  BY <1>2, <1>6, <1>7, <1>8, <1>9

\* The first k packets of a buffer gone.
Drops(buf, new, p, c, k) ==
  /\ k \in 1 .. Len(buf[p][c]) /\ Len(new[p][c]) = Len(buf[p][c]) - k
  /\ \A i \in DOMAIN new[p][c] :
       i + k \in DOMAIN buf[p][c] /\ new[p][c][i] = buf[p][c][i + k]
  /\ \A q \in Port, d \in Channel : <<q, d>> # <<p, c>> => new[q][d] = buf[q][d]

LEMMA BufDrop ==
  ASSUME NEW buf, BufType(buf), BufApart(buf), NEW new, BufType(new),
         NEW p \in Port, NEW c \in Channel, NEW k, Drops(buf, new, p, c, k)
  PROVE  /\ BufApart(new)
         /\ Packets(new) = Packets(buf) \ {buf[p][c][i] : i \in 1 .. k}
<1> DEFINE D == {buf[p][c][i] : i \in 1 .. k}
<1>1. BufType(new)
  OBVIOUS
<1>0. PICK s \in Seq(Packet) : s = new[p][c]
  BY DEF BufType
<1>2. /\ buf[p][c] \in Seq(Packet) /\ Len(buf[p][c]) \in Nat /\ k \in Nat
      /\ DOMAIN buf[p][c] = 1 .. Len(buf[p][c])
  <2>1. buf[p][c] \in Seq(Packet)
    BY DEF BufType
  <2>2. QED
    BY <2>1, LenProperties DEF Drops
<1>3. DOMAIN s = 1 .. Len(buf[p][c]) - k
  BY <1>0, LenProperties DEF Drops
<1>4. new[p][c] = s /\ \A i \in DOMAIN s : i + k \in DOMAIN buf[p][c] /\ s[i] = buf[p][c][i + k]
  BY <1>0 DEF Drops
<1>5. \A q \in Port, d \in Channel : <<q, d>> # <<p, c>> => new[q][d] = buf[q][d]
  BY DEF Drops
<1> DEFINE a(q, d, j) == IF q = p /\ d = c THEN j + k ELSE j
<1>6. ASSUME NEW q \in Port, NEW d \in Channel, NEW j \in DOMAIN new[q][d]
      PROVE  a(q, d, j) \in DOMAIN buf[q][d] /\ new[q][d][j] = buf[q][d][a(q, d, j)]
  <2>1. CASE q = p /\ d = c
    BY <1>4, <2>1
  <2>2. CASE ~(q = p /\ d = c)
    BY <1>5, <2>2
  <2>3. QED
    BY <2>1, <2>2
<1>7. BufApart(new)
  <2> SUFFICES ASSUME NEW q \in Port, NEW r \in Port, NEW d \in Channel, NEW e \in Channel,
                      NEW i \in DOMAIN new[q][d], NEW j \in DOMAIN new[r][e],
                      new[q][d][i] = new[r][e][j]
               PROVE  q = r /\ d = e /\ i = j
    BY DEF BufApart
  <2>1. PICK x : x = a(q, d, i)
    OBVIOUS
  <2>2. PICK y : y = a(r, e, j)
    OBVIOUS
  <2>3. x \in DOMAIN buf[q][d] /\ y \in DOMAIN buf[r][e] /\ buf[q][d][x] = buf[r][e][y]
    <3>1. x \in DOMAIN buf[q][d] /\ new[q][d][i] = buf[q][d][x]
      BY <1>6, <2>1, Zenon
    <3>2. y \in DOMAIN buf[r][e] /\ new[r][e][j] = buf[r][e][y]
      BY <1>6, <2>2, Zenon
    <3>3. QED
      BY <3>1, <3>2, Zenon
  <2>4. q = r /\ d = e /\ x = y
    BY <2>3 DEF BufApart
  <2>5. CASE q = p /\ d = c
    <3>1. i \in Nat /\ j \in Nat
      BY <1>2, <1>3, <1>4, <2>4, <2>5
    <3>2. QED
      BY <1>2, <2>1, <2>2, <2>4, <2>5, <3>1
  <2>6. CASE ~(q = p /\ d = c)
    BY <2>1, <2>2, <2>4, <2>6
  <2>7. QED
    BY <2>5, <2>6
<1>8. ASSUME NEW x \in Packets(new) PROVE x \in Packets(buf) /\ x \notin D
  <2>1. PICK q \in Port, d \in Channel : \E j \in DOMAIN new[q][d] : x = new[q][d][j]
    <3>1. PICK q \in Port, d \in Channel : x \in Range(new[q][d])
      BY DEF Packets
    <3>2. QED
      BY <3>1 DEF Range
  <2>2. PICK j \in DOMAIN new[q][d] : x = new[q][d][j]
    BY <2>1
  <2>3. PICK y : y = a(q, d, j)
    OBVIOUS
  <2>4. y \in DOMAIN buf[q][d] /\ x = buf[q][d][y]
    BY <1>6, <2>2, <2>3
  <2>5. ASSUME NEW i \in 1 .. k, x = buf[p][c][i] PROVE FALSE
    <3>1. i \in DOMAIN buf[p][c]
      <4>1. k \in 1 .. Len(buf[p][c])
        BY DEF Drops
      <4>2. QED
        BY <1>2, <4>1
    <3>2. buf[q][d][y] = buf[p][c][i]
      BY <2>4, <2>5
    <3>3. q = p /\ d = c /\ y = i
      BY <2>4, <3>1, <3>2 DEF BufApart
    <3>4. j \in 1 .. Len(buf[p][c]) - k /\ y = j + k
      BY <1>3, <1>4, <2>3, <3>3
    <3>5. QED
      BY <1>2, <3>3, <3>4
  <2>6. QED
    BY <2>4, <2>5, PacketsFacts
<1>9. ASSUME NEW x \in Packets(buf), x \notin D PROVE x \in Packets(new)
  <2>1. PICK q \in Port, d \in Channel : \E j \in DOMAIN buf[q][d] : x = buf[q][d][j]
    BY PacketsFacts
  <2>2. PICK j \in DOMAIN buf[q][d] : x = buf[q][d][j]
    BY <2>1
  <2>3. CASE q = p /\ d = c
    <3>1. j \in 1 .. Len(buf[p][c]) /\ j \notin 1 .. k
      BY <1>2, <1>9, <2>2, <2>3
    <3>2. j - k \in 1 .. Len(buf[p][c]) - k /\ (j - k) + k = j
      BY <1>2, <3>1
    <3>3. j - k \in DOMAIN new[p][c] /\ x = new[p][c][j - k]
      BY <1>3, <1>4, <2>2, <2>3, <3>2
    <3>4. QED
      BY <1>1, <3>3, PacketsFacts
  <2>4. CASE ~(q = p /\ d = c)
    <3>1. new[q][d] = buf[q][d]
      BY <1>5, <2>4
    <3>2. QED
      BY <1>1, <2>2, <3>1, PacketsFacts
  <2>5. QED
    BY <2>3, <2>4
<1>10. QED
  BY <1>1, <1>7, <1>8, <1>9

LEMMA PartsFacts ==
  ASSUME NEW m \in Packet, m.count # 0
  PROVE  /\ \A x \in Parts(m) :
              /\ x \in Packet /\ x.id = m.id /\ x.dst = m.dst /\ x.channel = m.channel
              /\ x.count = m.count /\ x.idx < x.count /\ x = [m EXCEPT !.idx = x.idx]
              /\ \A j : [x EXCEPT !.idx = j] = [m EXCEPT !.idx = j]
         /\ \A i \in 0 .. m.count - 1 : [m EXCEPT !.idx = i] \in Parts(m)
         /\ Parts(m) # {}
<1>1. /\ m.count \in Nat
      /\ \A i \in 1 .. m.count :
           /\ Block(m)[i] = [m EXCEPT !.idx = i - 1] /\ Block(m)[i] \in Packet
           /\ Block(m)[i].id = m.id /\ Block(m)[i].dst = m.dst
           /\ Block(m)[i].channel = m.channel /\ Block(m)[i].idx = i - 1
           /\ Block(m)[i].count = m.count
  BY BlockFacts
<1>2. ASSUME NEW x \in Parts(m)
      PROVE  /\ x \in Packet /\ x.id = m.id /\ x.dst = m.dst /\ x.channel = m.channel
             /\ x.count = m.count /\ x.idx < x.count /\ x = [m EXCEPT !.idx = x.idx]
             /\ \A j : [x EXCEPT !.idx = j] = [m EXCEPT !.idx = j]
  <2>1. PICK i \in 1 .. m.count : x = Block(m)[i]
    BY DEF Parts
  <2>2. /\ x = [m EXCEPT !.idx = i - 1] /\ x \in Packet /\ x.id = m.id /\ x.dst = m.dst
        /\ x.channel = m.channel /\ x.idx = i - 1 /\ x.count = m.count
    BY <1>1, <2>1
  <2>3. x.idx < x.count
    BY <1>1, <2>2
  <2>4. \A j : [x EXCEPT !.idx = j] = [m EXCEPT !.idx = j]
    BY <2>2 DEF Packet
  <2>5. QED
    BY <2>2, <2>3, <2>4
<1>3. ASSUME NEW i \in 0 .. m.count - 1 PROVE [m EXCEPT !.idx = i] \in Parts(m)
  <2>1. i + 1 \in 1 .. m.count /\ (i + 1) - 1 = i
    BY <1>1
  <2>2. Block(m)[i + 1] = [m EXCEPT !.idx = i]
    BY <1>1, <2>1
  <2>3. QED
    BY <2>1, <2>2 DEF Parts
<1>4. 0 \in 0 .. m.count - 1
  BY <1>1
<1>5. QED
  BY <1>2, <1>3, <1>4

\* The ids of a port, with a message more and with one less.
LEMMA IdsAdd ==
  ASSUME NEW A, NEW m \in Packet, m.count # 0, NEW p \in Port, NEW c \in Channel
  PROVE  /\ p = m.dst /\ c = m.channel => Ids(A \cup Parts(m), p, c) = Ids(A, p, c) \cup {m.id}
         /\ p # m.dst \/ c # m.channel => Ids(A \cup Parts(m), p, c) = Ids(A, p, c)
<1>1. \A x \in Parts(m) : x.id = m.id /\ x.dst = m.dst /\ x.channel = m.channel
  BY PartsFacts
<1>2. Parts(m) # {}
  BY PartsFacts
<1>3. CASE p = m.dst /\ c = m.channel
  BY <1>1, <1>2, <1>3 DEF Ids
<1>4. CASE ~(p = m.dst /\ c = m.channel)
  BY <1>1, <1>4 DEF Ids
<1>5. QED
  BY <1>3, <1>4

LEMMA MessageGone ==
  ASSUME NEW A \in SUBSET Packet, Consistent(A), Whole(A), NEW m \in A
  PROVE  /\ m.count # 0
         /\ A \ Parts(m) = {x \in A : x.id # m.id}
         /\ \A p, c : Ids(A \ Parts(m), p, c) =
              IF p = m.dst /\ c = m.channel THEN Ids(A, p, c) \ {m.id} ELSE Ids(A, p, c)
         /\ m.id \in Ids(A, m.dst, m.channel)
<1>1. m \in Packet /\ m.count # 0
  BY DEF Whole, Packet
<1>2. ASSUME NEW x \in A, x.id = m.id
      PROVE  x.dst = m.dst /\ x.channel = m.channel /\ x \in Parts(m)
  <2>1. x = [m EXCEPT !.idx = x.idx]
    BY <1>2 DEF Consistent
  <2>2. x.idx \in Nat /\ x.count \in Nat /\ x.idx < x.count
    BY DEF Whole, Packet
  <2>3. x.dst = m.dst /\ x.channel = m.channel /\ x.count = m.count
    BY <1>1, <2>1 DEF Packet
  <2>4. x.idx \in 0 .. m.count - 1
    BY <2>2, <2>3
  <2>5. QED
    BY <1>1, <2>1, <2>3, <2>4, PartsFacts
<1>3. \A x \in Parts(m) : x.id = m.id
  BY <1>1, PartsFacts
<1>4. A \ Parts(m) = {x \in A : x.id # m.id}
  BY <1>2, <1>3
<1>5. ASSUME NEW p, NEW c
      PROVE  Ids(A \ Parts(m), p, c) =
              IF p = m.dst /\ c = m.channel THEN Ids(A, p, c) \ {m.id} ELSE Ids(A, p, c)
  <2>1. CASE p = m.dst /\ c = m.channel
    BY <1>4, <2>1 DEF Ids
  <2>2. CASE ~(p = m.dst /\ c = m.channel)
    BY <1>2, <1>4, <2>2 DEF Ids
  <2>3. QED
    BY <2>1, <2>2
<1>6. QED
  BY <1>1, <1>4, <1>5 DEF Ids

\* There are finitely many of them.
LEMMA IdsFinite ==
  ASSUME Numbered, accepted \in Nat, NEW p, NEW c
  PROVE  /\ IsFiniteSet(Ids(Everything, p, c)) /\ Cardinality(Ids(Everything, p, c)) \in Nat
         /\ accepted + 1 \notin Ids(Everything, p, c)
<1>1. Ids(Everything, p, c) \subseteq 1 .. accepted
  BY DEF Ids, Numbered
<1>2. IsFiniteSet(1 .. accepted)
  <2>1. 1 \in Int /\ accepted \in Int
    OBVIOUS
  <2>2. QED
    BY <2>1, FS_Interval, Zenon
<1>3. IsFiniteSet(Ids(Everything, p, c))
  BY <1>1, <1>2, FS_Subset
<1>4. QED
  BY <1>1, <1>3, FS_CardinalityType

\* All packets are packets.
LEMMA EverythingType ==
  ASSUME TypeOK PROVE Everything \in SUBSET Packet
<1>1. /\ BufType(sendBuf) /\ BufType(recvBuf) /\ PipeType(pipeline)
      /\ RegType(input) /\ RegType(output) /\ orderBuf \in [Node -> SUBSET Packet]
  BY DEF TypeOK, BufType, PipeType, RegType
<1>2. \A m \in Packets(sendBuf) : m \in Packet
  BY <1>1, PacketsFacts
<1>3. \A m \in Packets(recvBuf) : m \in Packet
  BY <1>1, PacketsFacts
<1>4. \A m \in Pipes(pipeline) : m \in Packet
  BY <1>1, PipesFacts
<1>5. \A m \in Regs(input) : m \in Packet
  BY <1>1, RegsFacts
<1>6. \A m \in Regs(output) : m \in Packet
  BY <1>1, RegsFacts
<1>7. \A m \in Orders(orderBuf) : m \in Packet
  BY <1>1 DEF Orders
<1>8. QED
  BY <1>2, <1>3, <1>4, <1>5, <1>6, <1>7 DEF Everything, All

\* The first packet of a message sent, and what a send does with all of them.
First(p, d, c, k) ==
  [id |-> accepted + 1, src |-> p, dst |-> d, channel |-> c, idx |-> 0, count |-> k]

Sends(p, d, c, k, m) ==
  /\ k \in Nat /\ k # 0 /\ accepted \in Nat
  /\ m \in Packet /\ m.count = k /\ m.id = accepted + 1 /\ m.idx = 0
  /\ m.src = p /\ m.dst = d /\ m.channel = c
  /\ sendBuf[p][c] = <<>>
  /\ BufType(sendBuf) /\ BufType(sendBuf') /\ sendBuf'[p][c] = Block(m)
  /\ \A q \in Port, e \in Channel : <<q, e>> # <<p, c>> => sendBuf'[q][e] = sendBuf[q][e]
  /\ recvBuf' = recvBuf /\ orderBuf' = orderBuf /\ pipeline' = pipeline
  /\ buffered' = buffered /\ congested' = congested /\ input' = input
  /\ output' = output /\ rxPtr' = rxPtr /\ sdPtr' = sdPtr /\ accepted' = accepted + 1

LEMMA SendFacts ==
  ASSUME IInv, NEW p \in Port, NEW d \in Port, NEW c \in Channel, NEW k \in Counts,
         Send(p, d, c, k)
  PROVE  Sends(p, d, c, k, First(p, d, c, k))
<1> DEFINE m == First(p, d, c, k)
<1>1. TypeOK
  BY DEF IInv
<1>2. /\ recvBuf' = recvBuf /\ orderBuf' = orderBuf /\ pipeline' = pipeline
      /\ buffered' = buffered /\ congested' = congested /\ input' = input /\ output' = output
      /\ rxPtr' = rxPtr /\ sdPtr' = sdPtr /\ accepted' = accepted + 1
  BY DEF Send
<1>3. k \in Nat /\ k # 0 /\ accepted \in Nat
  BY <1>1, ConfigAssumption DEF TypeOK
<1>4. /\ m \in Packet /\ m.count = k /\ m.id = accepted + 1 /\ m.idx = 0
      /\ m.src = p /\ m.dst = d /\ m.channel = c
  BY <1>3 DEF Packet, First
<1>5. sendBuf[p][c] = <<>>
  BY DEF Send, CanSend
<1>6. Block(m) = [i \in 1 .. k |-> [id |-> accepted', src |-> p, dst |-> d, channel |-> c,
                                   idx |-> i - 1, count |-> k]]
  BY <1>2 DEF Block, First
<1> HIDE DEF m
<1>7. Block(m) \in Seq(Packet)
  BY <1>4, BlockFacts
<1>8. sendBuf' = [sendBuf EXCEPT ![p][c] = Block(m)]
  <2>1. sendBuf' = [sendBuf EXCEPT ![p][c] = sendBuf[p][c] \o Block(m)]
    BY <1>6 DEF Send
  <2>2. sendBuf[p][c] \o Block(m) = Block(m)
    BY <1>5, <1>7, ConcatEmptySeq
  <2>3. QED
    BY <2>1, <2>2
<1>9. /\ BufType(sendBuf) /\ BufType(sendBuf') /\ sendBuf'[p][c] = Block(m)
      /\ \A q \in Port, e \in Channel : <<q, e>> # <<p, c>> => sendBuf'[q][e] = sendBuf[q][e]
  BY <1>1, <1>7, <1>8 DEF TypeOK, BufType
<1>10. Sends(p, d, c, k, m)
  BY <1>2, <1>3, <1>4, <1>5, <1>9 DEF Sends
<1>11. QED
  BY <1>10 DEF m

LEMMA SendIInv ==
  ASSUME IInv, NEW p \in Port, NEW d \in Port, NEW c \in Channel, NEW k \in Counts,
         Send(p, d, c, k)
  PROVE  IInv'
<1> DEFINE m == First(p, d, c, k)
           S == Packets(sendBuf)
           R == Packets(recvBuf)
           O == Orders(orderBuf)
           P == Pipes(pipeline)
           I == Regs(input)
           Q == Regs(output)
<1>1. /\ TypeOK /\ Separate /\ Whole(Everything) /\ Consistent(Everything)
      /\ Numbered /\ WholeBuffers /\ Credits /\ Counted /\ Watermarked /\ Onward(pipeline)
  BY DEF IInv
<1>2. Sends(p, d, c, k, m)
  BY SendFacts
<1> HIDE DEF m
<1>3. /\ recvBuf' = recvBuf /\ orderBuf' = orderBuf /\ pipeline' = pipeline
      /\ buffered' = buffered /\ congested' = congested /\ input' = input /\ output' = output
      /\ rxPtr' = rxPtr /\ sdPtr' = sdPtr /\ accepted' = accepted + 1
  BY <1>2 DEF Sends
<1>4. k \in Nat /\ k # 0 /\ accepted \in Nat
  BY <1>2 DEF Sends
<1>5. m \in Packet /\ m.count = k /\ m.id = accepted + 1 /\ m.dst = d /\ m.channel = c
  BY <1>2 DEF Sends
<1>6. sendBuf[p][c] = <<>>
  BY <1>2 DEF Sends
<1>7. /\ BufType(sendBuf) /\ BufType(sendBuf') /\ sendBuf'[p][c] = Block(m)
      /\ \A q \in Port, e \in Channel : <<q, e>> # <<p, c>> => sendBuf'[q][e] = sendBuf[q][e]
  BY <1>2 DEF Sends
<1>8. \A x \in Parts(m) : x.id = accepted + 1
  BY <1>4, <1>5, PartsFacts
<1>9. Parts(m) \cap Everything = {}
  BY <1>1, <1>4, <1>8 DEF Numbered
<1>10. Everything = S \cup R \cup O \cup P \cup I \cup Q
  BY DEF Everything, All
<1>11. BufApart(sendBuf') /\ Packets(sendBuf') = S \cup Parts(m)
  <2>1. BufApart(sendBuf) /\ Parts(m) \cap Packets(sendBuf) = {}
    BY <1>1, <1>9, <1>10 DEF Separate, Apart
  <2> HIDE DEF S
  <2>2. BufApart(sendBuf') /\ Packets(sendBuf') = Packets(sendBuf) \cup Parts(m)
    BY <1>5, <1>6, <1>7, <2>1, BufAdd
  <2>3. QED
    BY <2>2 DEF S
<1>12. Everything' = Everything \cup Parts(m)
  <2>1. Everything' = Packets(sendBuf') \cup R \cup O \cup P \cup I \cup Q
    BY <1>3 DEF Everything, All
  <2> HIDE DEF S, R, O, P, I, Q
  <2>2. QED
    BY <1>10, <1>11, <2>1
<1>13. Separate'
  <2>1. /\ BufApart(recvBuf) /\ OrderApart(orderBuf) /\ PipeApart(pipeline)
        /\ RegApart(input) /\ RegApart(output) /\ Disjoint(S, R, O, P, I, Q)
    BY <1>1 DEF Separate, Apart
  <2> HIDE DEF S, R, O, P, I, Q
  <2>2. Disjoint(S \cup Parts(m), R, O, P, I, Q)
    BY <1>9, <1>10, <2>1 DEF Disjoint
  <2>3. Disjoint(Packets(sendBuf'), R, O, P, I, Q)
    BY <1>11, <2>2
  <2>4. Apart(sendBuf', recvBuf, orderBuf, pipeline, input, output)
    BY <1>11, <2>1, <2>3 DEF Apart, R, O, P, I, Q
  <2>5. QED
    BY <1>3, <2>4 DEF Separate
<1> HIDE DEF S, R, O, P, I, Q
<1>14. /\ \A x \in Parts(m) :
            /\ x \in Packet /\ x.idx < x.count /\ x.count = k
            /\ \A j : [x EXCEPT !.idx = j] = [m EXCEPT !.idx = j]
            /\ x = [m EXCEPT !.idx = x.idx]
       /\ \A i \in 0 .. k - 1 : [m EXCEPT !.idx = i] \in Parts(m)
  BY <1>4, <1>5, PartsFacts
<1>15. Whole(Everything)'
  <2>1. Whole(Everything \cup Parts(m))
    BY <1>1, <1>14 DEF Whole
  <2>2. QED
    BY <1>12, <2>1
<1>16. Consistent(Everything)'
  <2>1. ASSUME NEW x \in Everything \cup Parts(m), NEW y \in Everything \cup Parts(m), x.id = y.id
        PROVE  y = [x EXCEPT !.idx = y.idx]
    <3>1. CASE x \in Everything /\ y \in Everything
      BY <1>1, <2>1, <3>1 DEF Consistent
    <3>2. CASE x \in Parts(m) /\ y \in Parts(m)
      BY <1>14, <3>2
    <3>3. CASE x \in Everything /\ y \in Parts(m)
      BY <1>1, <1>4, <1>8, <2>1, <3>3 DEF Numbered
    <3>4. CASE x \in Parts(m) /\ y \in Everything
      BY <1>1, <1>4, <1>8, <2>1, <3>4 DEF Numbered
    <3>5. QED
      BY <3>1, <3>2, <3>3, <3>4
  <2>2. QED
    BY <1>12, <2>1 DEF Consistent
<1>17. Numbered'
  BY <1>1, <1>3, <1>4, <1>8, <1>12 DEF Numbered
<1>18. ASSUME Slots # 0, NEW q \in Port, NEW e \in Channel
       PROVE  /\ reserved'[q][e] = Cardinality(Ids(Everything', q, e))
              /\ reserved'[q][e] <= Slots
  <2> DEFINE X == Ids(Everything, q, e)
  <2>1. reserved[q][e] = Cardinality(X) /\ reserved[q][e] <= Slots
    BY <1>1, <1>18 DEF Credits
  <2>2. IsFiniteSet(X) /\ Cardinality(X) \in Nat /\ accepted + 1 \notin X
    BY <1>1, <1>4, IdsFinite
  <2>3. reserved' = [reserved EXCEPT ![d][c] = reserved[d][c] + 1] /\ reserved[d][c] < Slots
    BY <1>18 DEF Send, HasCredit
  <2>4. Ids(Everything', q, e) = IF q = d /\ e = c THEN X \cup {accepted + 1} ELSE X
    <3>1. /\ q = m.dst /\ e = m.channel =>
               Ids(Everything \cup Parts(m), q, e) = Ids(Everything, q, e) \cup {m.id}
          /\ q # m.dst \/ e # m.channel =>
               Ids(Everything \cup Parts(m), q, e) = Ids(Everything, q, e)
      <4>1. m \in Packet /\ m.count # 0
        BY <1>4, <1>5
      <4>2. QED
        BY <4>1, IdsAdd
    <3>2. QED
      BY <1>5, <1>12, <3>1
  <2>5. reserved'[q][e] = IF q = d /\ e = c THEN reserved[q][e] + 1 ELSE reserved[q][e]
    BY <1>1, <2>3 DEF TypeOK
  <2> HIDE DEF X
  <2>6. CASE q = d /\ e = c
    <3>1. Cardinality(X \cup {accepted + 1}) = Cardinality(X) + 1
      BY <2>2, FS_AddElement
    <3>2. QED
      BY <2>1, <2>2, <2>3, <2>4, <2>5, <2>6, <3>1, ConfigAssumption
  <2>7. CASE ~(q = d /\ e = c)
    BY <2>1, <2>4, <2>5, <2>7
  <2>8. QED
    BY <2>6, <2>7
<1>19. Credits'
  BY <1>18 DEF Credits
<1>20. TypeOK'
  <2>1. reserved' \in [Port -> [Channel -> Nat]]
    BY <1>1 DEF TypeOK, Send
  <2>2. sendBuf' \in [Port -> [Channel -> Seq(Packet)]] /\ accepted' \in Nat
    BY <1>3, <1>4, <1>7 DEF BufType
  <2>3. QED
    BY <1>1, <1>3, <2>1, <2>2 DEF TypeOK
<1>21. WholeBuffers' /\ Counted' /\ Watermarked' /\ Onward(pipeline)'
  BY <1>1, <1>3 DEF WholeBuffers, Counted, Watermarked
<1>22. QED
  BY <1>13, <1>15, <1>16, <1>17, <1>19, <1>20, <1>21 DEF IInv

\* A receive takes the first message, that of m, of the receive buffer r and leaves s.
Receives(p, c, r, m, s) ==
  /\ r \in Seq(Packet) /\ r # <<>> /\ WholeSeq(r, p, c)
  /\ r[1] = m /\ m \in Packet /\ m.idx = 0 /\ m.dst = p /\ m.channel = c
  /\ m.count \in 1 .. Len(r)
  /\ \A i \in 1 .. m.count : r[i] = [m EXCEPT !.idx = i - 1]
  /\ s \in Seq(Packet) /\ Len(s) = Len(r) - m.count
  /\ \A i \in DOMAIN s : i + m.count \in DOMAIN r /\ s[i] = r[i + m.count]
  /\ WholeSeq(s, p, c)
  /\ recvBuf'[p][c] = s
  /\ \A q \in Port, e \in Channel : <<q, e>> # <<p, c>> => recvBuf'[q][e] = recvBuf[q][e]

LEMMA RecvFacts ==
  ASSUME IInv, NEW p \in Port, NEW c \in Channel, Recv(p, c)
  PROVE  LET r == recvBuf[p][c]
             m == Head(r)
             s == SubSeq(r, m.count + 1, Len(r))
         IN BufType(recvBuf) /\ BufType(recvBuf') /\ Receives(p, c, r, m, s)
<1> DEFINE r == recvBuf[p][c]
           m == Head(r)
           s == SubSeq(r, m.count + 1, Len(r))
<1>1. TypeOK /\ WholeBuffers
  BY DEF IInv
<1>2. recvBuf' = [recvBuf EXCEPT ![p][c] = s]
  BY DEF Recv
<1>3. BufType(recvBuf) /\ r \in Seq(Packet) /\ r # <<>> /\ WholeSeq(r, p, c) /\ accepted \in Nat
  BY <1>1 DEF TypeOK, BufType, Recv, CanRecv, WholeBuffers
<1>4. /\ r[1] = m /\ m \in Packet /\ m.idx = 0 /\ m.dst = p /\ m.channel = c
      /\ m.count \in 1 .. Len(r)
      /\ \A i \in 1 .. m.count : r[i] = [m EXCEPT !.idx = i - 1]
      /\ s \in Seq(Packet) /\ Len(s) = Len(r) - m.count
      /\ \A i \in DOMAIN s : i + m.count \in DOMAIN r /\ s[i] = r[i + m.count]
      /\ WholeSeq(s, p, c)
  <2> HIDE DEF r
  <2>1. QED
    BY <1>3, WholeSeqDrop
<1> HIDE DEF m, s
<1>5. /\ BufType(recvBuf') /\ recvBuf'[p][c] = s
      /\ \A q \in Port, e \in Channel : <<q, e>> # <<p, c>> => recvBuf'[q][e] = recvBuf[q][e]
  <2> HIDE DEF r
  <2>1. /\ recvBuf \in [Port -> [Channel -> Seq(Packet)]]
        /\ recvBuf' = [recvBuf EXCEPT ![p][c] = s] /\ s \in Seq(Packet)
    BY <1>2, <1>3, <1>4 DEF BufType
  <2>2. recvBuf' \in [Port -> [Channel -> Seq(Packet)]]
    BY <2>1
  <2>3. recvBuf'[p][c] = s
    BY <2>1
  <2>4. ASSUME NEW q \in Port, NEW e \in Channel, <<q, e>> # <<p, c>>
        PROVE  recvBuf'[q][e] = recvBuf[q][e]
    BY <2>1, <2>4
  <2>5. QED
    BY <2>2, <2>3, <2>4 DEF BufType
<1> HIDE DEF r
<1>6. Receives(p, c, r, m, s)
  BY <1>3, <1>4, <1>5 DEF Receives, r
<1>7. QED
  BY <1>3, <1>5, <1>6 DEF m, s, r

LEMMA RecvIInv ==
  ASSUME IInv, NEW p \in Port, NEW c \in Channel, Recv(p, c)
  PROVE  IInv'
<1> DEFINE r == recvBuf[p][c]
           m == Head(r)
           s == SubSeq(r, m.count + 1, Len(r))
           S == Packets(sendBuf)
           R == Packets(recvBuf)
           O == Orders(orderBuf)
           P == Pipes(pipeline)
           I == Regs(input)
           Q == Regs(output)
<1>1. /\ TypeOK /\ Separate /\ Whole(Everything) /\ Consistent(Everything)
      /\ Numbered /\ WholeBuffers /\ Credits /\ Counted /\ Watermarked /\ Onward(pipeline)
  BY DEF IInv
<1>2. /\ sendBuf' = sendBuf /\ orderBuf' = orderBuf /\ pipeline' = pipeline
      /\ buffered' = buffered /\ congested' = congested /\ input' = input /\ output' = output
      /\ rxPtr' = rxPtr /\ sdPtr' = sdPtr /\ accepted' = accepted
      /\ recvBuf' = [recvBuf EXCEPT ![p][c] = s]
  BY DEF Recv
<1> HIDE DEF S, R, O, P, I, Q
<1>3. BufType(recvBuf) /\ BufType(recvBuf') /\ Receives(p, c, r, m, s)
  BY RecvFacts
<1> HIDE DEF m, s
<1>4. BufType(recvBuf) /\ r \in Seq(Packet) /\ r # <<>> /\ WholeSeq(r, p, c) /\ accepted \in Nat
  BY <1>3, <1>1 DEF Receives, TypeOK
<1>5. /\ r[1] = m /\ m \in Packet /\ m.idx = 0 /\ m.dst = p /\ m.channel = c
      /\ m.count \in 1 .. Len(r)
      /\ \A i \in 1 .. m.count : r[i] = [m EXCEPT !.idx = i - 1]
      /\ s \in Seq(Packet) /\ Len(s) = Len(r) - m.count
      /\ \A i \in DOMAIN s : i + m.count \in DOMAIN r /\ s[i] = r[i + m.count]
      /\ WholeSeq(s, p, c)
  BY <1>3 DEF Receives
<1>6. /\ BufType(recvBuf') /\ recvBuf'[p][c] = s
      /\ \A q \in Port, e \in Channel : <<q, e>> # <<p, c>> => recvBuf'[q][e] = recvBuf[q][e]
  BY <1>3 DEF Receives
<1> USE DEF S, R, O, P, I, Q
<1>7. {recvBuf[p][c][i] : i \in 1 .. m.count} = Parts(m)
  <2>1. ASSUME NEW i \in 1 .. m.count PROVE recvBuf[p][c][i] = Block(m)[i]
    <3>1. recvBuf[p][c][i] = [m EXCEPT !.idx = i - 1]
      BY <1>5
    <3>2. Block(m)[i] = [m EXCEPT !.idx = i - 1]
      BY DEF Block
    <3>3. QED
      BY <3>1, <3>2
  <2>2. QED
    BY <2>1 DEF Parts
<1>8. BufApart(recvBuf') /\ Packets(recvBuf') = R \ Parts(m)
  <2>1. BufApart(recvBuf)
    BY <1>1 DEF Separate, Apart
  <2> HIDE DEF R
  <2>2. /\ BufApart(recvBuf')
        /\ Packets(recvBuf') = Packets(recvBuf) \ {recvBuf[p][c][i] : i \in 1 .. m.count}
    <3>1. /\ m.count \in 1 .. Len(recvBuf[p][c]) /\ s \in Seq(Packet)
          /\ Len(s) = Len(recvBuf[p][c]) - m.count
          /\ \A i \in DOMAIN s : i + m.count \in DOMAIN recvBuf[p][c]
                                /\ s[i] = recvBuf[p][c][i + m.count]
      BY <1>5
    <3> HIDE DEF r
    <3>2. Drops(recvBuf, recvBuf', p, c, m.count)
      BY <1>6, <3>1 DEF Drops
    <3>3. QED
      BY <1>4, <1>6, <2>1, <3>2, BufDrop
  <2>3. QED
    BY <1>7, <2>2 DEF R
<1>9. Parts(m) \subseteq R /\ m \in R
  <2>1. \A i \in 1 .. m.count : i \in DOMAIN recvBuf[p][c]
    BY <1>4, <1>5, LenProperties
  <2>2. \A i \in DOMAIN recvBuf[p][c] : recvBuf[p][c][i] \in R
    BY <1>4, PacketsFacts
  <2>3. 1 \in 1 .. m.count /\ m = recvBuf[p][c][1]
    BY <1>4, <1>5, LenProperties
  <2> HIDE DEF R
  <2>4. m \in R
    BY <2>1, <2>2, <2>3
  <2>5. \A i \in 1 .. m.count : recvBuf[p][c][i] \in R
    BY <2>1, <2>2
  <2>6. QED
    BY <1>7, <2>4, <2>5
<1>10. Everything = S \cup R \cup O \cup P \cup I \cup Q
  BY DEF Everything, All
<1>11. Disjoint(S, R, O, P, I, Q)
  BY <1>1 DEF Separate, Apart
<1>12. Everything' = Everything \ Parts(m)
  <2>1. Everything' = S \cup Packets(recvBuf') \cup O \cup P \cup I \cup Q
    BY <1>2 DEF Everything, All
  <2> HIDE DEF S, R, O, P, I, Q
  <2>2. QED
    BY <1>8, <1>9, <1>10, <1>11, <2>1 DEF Disjoint
<1>13. Separate'
  <2>1. /\ BufApart(sendBuf) /\ OrderApart(orderBuf) /\ PipeApart(pipeline)
        /\ RegApart(input) /\ RegApart(output)
    BY <1>1 DEF Separate, Apart
  <2> HIDE DEF S, R, O, P, I, Q
  <2>2. Disjoint(S, R \ Parts(m), O, P, I, Q)
    BY <1>11 DEF Disjoint
  <2>3. Disjoint(S, Packets(recvBuf'), O, P, I, Q)
    BY <1>8, <2>2
  <2>4. Apart(sendBuf, recvBuf', orderBuf, pipeline, input, output)
    BY <1>8, <2>1, <2>3 DEF Apart, S, O, P, I, Q
  <2>5. QED
    BY <1>2, <2>4 DEF Separate
<1> HIDE DEF S, R, O, P, I, Q, r
<1>14. Everything \in SUBSET Packet /\ m \in Everything
  BY <1>1, <1>9, <1>10, EverythingType
<1>15. /\ Everything' = {x \in Everything : x.id # m.id}
       /\ \A q, e : Ids(Everything', q, e) =
            IF q = p /\ e = c THEN Ids(Everything, q, e) \ {m.id} ELSE Ids(Everything, q, e)
       /\ m.id \in Ids(Everything, p, c)
  <2>1. /\ Everything \ Parts(m) = {x \in Everything : x.id # m.id}
        /\ \A q, e : Ids(Everything \ Parts(m), q, e) =
             IF q = m.dst /\ e = m.channel
               THEN Ids(Everything, q, e) \ {m.id} ELSE Ids(Everything, q, e)
        /\ m.id \in Ids(Everything, m.dst, m.channel)
    BY <1>1, <1>14, MessageGone
  <2>2. m.dst = p /\ m.channel = c
    BY <1>5
  <2>3. QED
    BY <1>12, <2>1, <2>2
<1>16. Whole(Everything)'
  <2>1. ASSUME NEW x \in Everything, x.id # m.id
        PROVE  /\ x.idx < x.count
               /\ \A i \in 0 .. x.count - 1 :
                    [x EXCEPT !.idx = i] \in Everything /\ [x EXCEPT !.idx = i].id # m.id
    <3>1. x \in Packet
      BY <1>14
    <3>2. \A i : [x EXCEPT !.idx = i].id = x.id
      BY <3>1 DEF Packet
    <3>3. QED
      BY <1>1, <2>1, <3>2 DEF Whole
  <2>2. Whole({x \in Everything : x.id # m.id})
    BY <2>1 DEF Whole
  <2>3. QED
    BY <1>15, <2>2
<1>17. Consistent(Everything)' /\ Numbered'
  BY <1>1, <1>2, <1>15 DEF Consistent, Numbered
<1>18. ASSUME Slots # 0, NEW q \in Port, NEW e \in Channel
       PROVE  /\ reserved'[q][e] = Cardinality(Ids(Everything', q, e))
              /\ reserved'[q][e] \in Nat /\ reserved'[q][e] <= Slots
  <2> DEFINE X == Ids(Everything, q, e)
  <2>1. reserved[q][e] = Cardinality(X) /\ reserved[q][e] <= Slots
    BY <1>1, <1>18 DEF Credits
  <2>2. IsFiniteSet(X) /\ Cardinality(X) \in Nat
    BY <1>1, <1>4, IdsFinite
  <2>3. reserved' = [reserved EXCEPT ![p][c] = reserved[p][c] - 1]
    BY <1>18 DEF Recv
  <2>4. reserved'[q][e] = IF q = p /\ e = c THEN reserved[q][e] - 1 ELSE reserved[q][e]
    BY <1>1, <2>3 DEF TypeOK
  <2>5. Ids(Everything', q, e) = IF q = p /\ e = c THEN X \ {m.id} ELSE X
    BY <1>15
  <2>6. q = p /\ e = c => m.id \in X
    BY <1>15
  <2> HIDE DEF X
  <2>7. CASE q = p /\ e = c
    <3>1. Cardinality(X \ {m.id}) = Cardinality(X) - 1
      BY <2>2, <2>6, <2>7, FS_RemoveElement
    <3>2. Cardinality(X \ {m.id}) \in Nat
      BY <2>2, FS_RemoveElement, FS_CardinalityType
    <3>3. QED
      BY <2>1, <2>2, <2>4, <2>5, <2>7, <3>1, <3>2, ConfigAssumption
  <2>8. CASE ~(q = p /\ e = c)
    BY <2>1, <2>2, <2>4, <2>5, <2>8
  <2>9. QED
    BY <2>7, <2>8
<1>19. Credits'
  BY <1>18 DEF Credits
<1>20. TypeOK'
  <2>1. reserved' \in [Port -> [Channel -> Nat]]
    <3>1. CASE Slots = 0
      BY <1>1, <3>1 DEF TypeOK, Recv
    <3>2. CASE Slots # 0
      <4>1. reserved' = [q \in Port |-> [e \in Channel |-> reserved'[q][e]]]
        BY <1>1, <3>2 DEF TypeOK, Recv
      <4>2. QED
        BY <1>18, <3>2, <4>1
    <3>3. QED
      BY <3>1, <3>2
  <2>2. QED
    BY <1>1, <1>2, <1>6, <2>1 DEF TypeOK, BufType
<1>21. WholeBuffers'
  <2>1. ASSUME NEW q \in Port, NEW e \in Channel PROVE WholeSeq(recvBuf'[q][e], q, e)
    <3>1. CASE q = p /\ e = c
      BY <1>5, <1>6, <3>1
    <3>2. CASE ~(q = p /\ e = c)
      <4>1. recvBuf'[q][e] = recvBuf[q][e]
        BY <1>6, <3>2
      <4>2. QED
        BY <1>1, <4>1 DEF WholeBuffers
    <3>3. QED
      BY <3>1, <3>2
  <2>2. QED
    BY <2>1 DEF WholeBuffers
<1>22. Counted' /\ Watermarked' /\ Onward(pipeline)'
  BY <1>1, <1>2 DEF Counted, Watermarked
<1>23. QED
  BY <1>13, <1>16, <1>17, <1>19, <1>20, <1>21, <1>22 DEF IInv

-------------------------------------------------------------------------------
(***************************************************************************)
(* The invariant holds.                                                    *)
(***************************************************************************)
LEMMA InitIInv ==
  ASSUME Init PROVE IInv
<1>1. /\ Packets(sendBuf) = {} /\ Packets(recvBuf) = {} /\ Orders(orderBuf) = {}
      /\ Pipes(pipeline) = {} /\ Regs(input) = {} /\ Regs(output) = {}
  <2>1. Packets(sendBuf) = {} /\ Packets(recvBuf) = {}
    <3>1. Range(<<>>) = {}
      BY DEF Range
    <3>2. \A p \in Port, c \in Channel : sendBuf[p][c] = <<>> /\ recvBuf[p][c] = <<>>
      BY DEF Init
    <3>3. QED
      BY <3>1, <3>2 DEF Packets
  <2>2. Orders(orderBuf) = {} /\ Pipes(pipeline) = {}
    BY DEF Init, Orders, Pipes
  <2>3. Regs(input) = {} /\ Regs(output) = {}
    BY DEF Init, Regs
  <2>4. QED
    BY <2>1, <2>2, <2>3
<1>2. Everything = {}
  BY <1>1 DEF Everything, All
<1>3. Separate
  <2>1. Disjoint({}, {}, {}, {}, {}, {})
    BY DEF Disjoint
  <2>2. BufApart(sendBuf) /\ BufApart(recvBuf)
    BY DEF Init, BufApart
  <2>3. OrderApart(orderBuf) /\ PipeApart(pipeline)
    BY DEF Init, OrderApart, PipeApart
  <2>4. RegApart(input) /\ RegApart(output)
    BY DEF Init, RegApart
  <2>5. QED
    BY <1>1, <2>1, <2>2, <2>3, <2>4 DEF Separate, Apart
<1>4. TypeOK
  <2>1. 0 \in Nat
    OBVIOUS
  <2>2. <<>> \in Seq(Packet) /\ <<>> \in Seq([packet : Packet, wait : 0 .. RouteLatency])
    BY EmptySeq
  <2>3. /\ sendBuf \in [Port -> [Channel -> Seq(Packet)]]
        /\ recvBuf \in [Port -> [Channel -> Seq(Packet)]]
        /\ pipeline \in [Node -> Seq([packet : Packet, wait : 0 .. RouteLatency])]
    BY <2>2 DEF Init
  <2>4. /\ orderBuf \in [Node -> SUBSET Packet]
        /\ buffered \in [Node -> Nat] /\ congested \in [Node -> BOOLEAN]
        /\ input \in [Edge -> [Channel -> Packet \cup {NoPacket}]]
        /\ output \in [Edge -> [Channel -> Packet \cup {NoPacket}]]
    BY DEF Init
  <2>5. /\ \A n \in Node : rxPtr[n] = 0 /\ sdPtr[n] = 0
        /\ reserved \in [Port -> [Channel -> Nat]] /\ accepted \in Nat
    BY DEF Init
  <2>6. QED
    BY <2>3, <2>4, <2>5 DEF TypeOK
<1>5. Whole(Everything) /\ Consistent(Everything) /\ Numbered
  BY <1>2 DEF Whole, Consistent, Numbered
<1>6. WholeBuffers /\ Onward(pipeline)
  BY DEF Init, WholeBuffers, WholeSeq, Onward
<1>7. Credits
  <2>1. \A p, c : Ids(Everything, p, c) = {}
    BY <1>2 DEF Ids
  <2>2. Cardinality({}) = 0
    BY FS_EmptySet
  <2>3. \A p \in Port, c \in Channel :
          reserved[p][c] = 0 /\ Cardinality(Ids(Everything, p, c)) = 0
    BY <2>1, <2>2 DEF Init
  <2>4. 0 <= Slots
    BY ConfigAssumption
  <2>5. QED
    BY <2>3, <2>4 DEF Credits
<1>8. Counted /\ Watermarked
  <2>1. Len(<<>>) = 0
    OBVIOUS
  <2>2. QED
    BY <2>1, ConfigAssumption DEF Init, Counted, Watermarked
<1>9. QED
  BY <1>3, <1>4, <1>5, <1>6, <1>7, <1>8 DEF IInv

LEMMA NextIInv ==
  ASSUME IInv, [Next]_vars PROVE IInv'
<1>1. CASE \E p \in Port, d \in Port, c \in Channel, k \in Counts : Send(p, d, c, k)
  BY <1>1, SendIInv
<1>2. CASE \E p \in Port, c \in Channel : Recv(p, c)
  BY <1>2, RecvIInv
<1>3. CASE Tick
  BY <1>3, TickIInv
<1>4. CASE UNCHANGED vars
  <2>1. /\ sendBuf' = sendBuf /\ recvBuf' = recvBuf /\ orderBuf' = orderBuf
        /\ pipeline' = pipeline /\ buffered' = buffered /\ congested' = congested
        /\ input' = input /\ output' = output /\ rxPtr' = rxPtr /\ sdPtr' = sdPtr
        /\ reserved' = reserved /\ accepted' = accepted
    BY <1>4 DEF vars
  <2>2. Everything' = Everything
    BY <2>1 DEF Everything
  <2>3. TypeOK' /\ Separate' /\ Onward(pipeline)'
    BY <2>1 DEF IInv, TypeOK, Separate
  <2>4. Whole(Everything)' /\ Consistent(Everything)' /\ Numbered' /\ Credits'
    BY <2>1, <2>2 DEF IInv, Numbered, Credits
  <2>5. WholeBuffers' /\ Counted' /\ Watermarked'
    BY <2>1 DEF IInv, WholeBuffers, Counted, Watermarked
  <2>6. QED
    BY <2>3, <2>4, <2>5 DEF IInv
<1>5. QED
  BY <1>1, <1>2, <1>3, <1>4 DEF Next

(***************************************************************************)
(* The invariant of the network: every packet is at one place, a message   *)
(* has all its packets in the network, receive buffers hold whole messages,*)
(* receive slots and router counters are right.                            *)
(***************************************************************************)
THEOREM Invariant == Spec => []IInv
<1>1. Init => IInv
  BY InitIInv
<1>2. IInv /\ [Next]_vars => IInv'
  BY NextIInv
<1>3. QED
  BY <1>1, <1>2, PTL DEF Spec

-------------------------------------------------------------------------------
(***************************************************************************)
(* What it means for the properties of the network.                        *)
(***************************************************************************)
LEMMA AllPackets ==
  /\ UnderWay \cup Complete = Everything
  /\ Complete = Packets(recvBuf)
  /\ \A p \in Port, c \in Channel : Range(sendBuf[p][c]) \subseteq UnderWay
  /\ \A n \in Node : Piped(n) \subseteq UnderWay
<1>1. Complete = Packets(recvBuf)
  BY DEF Complete, Landed, Packets
<1>2. UNION {Queued(p, c) : p \in Port, c \in Channel} = Packets(sendBuf)
  BY DEF Queued, Packets
<1>3. UNION {Piped(n) \cup orderBuf[n] : n \in Node} = Pipes(pipeline) \cup Orders(orderBuf)
  <2>1. Pipes(pipeline) = UNION {Piped(n) : n \in Node}
    BY DEF Piped, Pipes
  <2>2. QED
    BY <2>1 DEF Orders
<1>4. UNION {Linked(e) : e \in Edge} = Regs(input) \cup Regs(output)
  BY DEF Linked, Regs
<1>5. UnderWay = Packets(sendBuf) \cup (Pipes(pipeline) \cup Orders(orderBuf))
                 \cup (Regs(input) \cup Regs(output))
  <2> DEFINE A == UNION {Queued(p, c) : p \in Port, c \in Channel}
             B == UNION {Piped(n) \cup orderBuf[n] : n \in Node}
             C == UNION {Linked(e) : e \in Edge}
  <2>1. UnderWay = A \cup B \cup C
    BY DEF UnderWay
  <2>2. /\ A = Packets(sendBuf) /\ B = Pipes(pipeline) \cup Orders(orderBuf)
        /\ C = Regs(input) \cup Regs(output)
    BY <1>2, <1>3, <1>4
  <2> HIDE DEF A, B, C
  <2>3. QED
    BY <2>1, <2>2
<1>6. UnderWay \cup Complete = Everything
  BY <1>1, <1>5 DEF Everything, All
<1>7. \A p \in Port, c \in Channel : Range(sendBuf[p][c]) \subseteq UnderWay
  BY <1>5 DEF Packets
<1>8. \A n \in Node : Piped(n) \subseteq UnderWay
  <2>1. \A n \in Node : Piped(n) \subseteq Pipes(pipeline)
    BY DEF Piped, Pipes
  <2>2. QED
    BY <1>5, <2>1
<1>9. QED
  BY <1>1, <1>6, <1>7, <1>8

\* A place of the network, by its kind.
InBuffer(x, kind, buf) ==
  \E p \in Port, c \in Channel : \E i \in DOMAIN buf[p][c] :
    x = [at |-> <<kind, p, c, i>>, packet |-> buf[p][c][i]]
InRegister(x, kind, regs) ==
  \E e \in Edge, c \in Channel :
    x = [at |-> <<kind, e, c>>, packet |-> regs[e][c]] /\ regs[e][c] # NoPacket
InPipeline(x) ==
  \E n \in Node : \E i \in DOMAIN pipeline[n] :
    x = [at |-> <<"pipeline", n, i>>, packet |-> pipeline[n][i].packet]
InReassembly(x) ==
  \E n \in Node : \E m \in orderBuf[n] : x = [at |-> <<"order", n>>, packet |-> m]

LEMMA HeldFacts ==
  ASSUME NEW x \in Held
  PROVE  \/ InBuffer(x, "send", sendBuf) \/ InBuffer(x, "recv", recvBuf)
         \/ InRegister(x, "input", input) \/ InRegister(x, "output", output)
         \/ InPipeline(x) \/ InReassembly(x)
<1>1. ASSUME NEW kind, NEW buf, x \in Buffers(kind, buf) PROVE InBuffer(x, kind, buf)
  BY <1>1 DEF Buffers, InBuffer
<1>2. ASSUME NEW kind, NEW regs, x \in Registers(kind, regs) PROVE InRegister(x, kind, regs)
  <2>1. PICK e \in Edge, c \in Channel : x = [at |-> <<kind, e, c>>, packet |-> regs[e][c]]
    BY <1>2 DEF Registers
  <2>2. x.packet # NoPacket
    BY <1>2 DEF Registers
  <2>3. QED
    BY <2>1, <2>2 DEF InRegister
<1>3. ASSUME x \in UNION {{[at |-> <<"pipeline", n, i>>, packet |-> pipeline[n][i].packet] :
                           i \in DOMAIN pipeline[n]} : n \in Node}
      PROVE  InPipeline(x)
  BY <1>3 DEF InPipeline
<1>4. ASSUME x \in UNION {{[at |-> <<"order", n>>, packet |-> m] : m \in orderBuf[n]} : n \in Node}
      PROVE  InReassembly(x)
  BY <1>4 DEF InReassembly
<1>5. \/ x \in Buffers("send", sendBuf) \/ x \in Buffers("recv", recvBuf)
      \/ x \in Registers("input", input) \/ x \in Registers("output", output)
      \/ x \in UNION {{[at |-> <<"pipeline", n, i>>, packet |-> pipeline[n][i].packet] :
                       i \in DOMAIN pipeline[n]} : n \in Node}
      \/ x \in UNION {{[at |-> <<"order", n>>, packet |-> m] : m \in orderBuf[n]} : n \in Node}
  BY Zenon DEF Held
<1>6. /\ x \in Buffers("send", sendBuf) => InBuffer(x, "send", sendBuf)
      /\ x \in Buffers("recv", recvBuf) => InBuffer(x, "recv", recvBuf)
  BY <1>1
<1>7. /\ x \in Registers("input", input) => InRegister(x, "input", input)
      /\ x \in Registers("output", output) => InRegister(x, "output", output)
  BY <1>2
<1>8. QED
  BY <1>3, <1>4, <1>5, <1>6, <1>7

\* The sets the packets of these places are in.
LEMMA PlaceFacts ==
  ASSUME TypeOK, NEW x
  PROVE  /\ InBuffer(x, "send", sendBuf) => x.packet \in Packets(sendBuf)
         /\ InBuffer(x, "recv", recvBuf) => x.packet \in Packets(recvBuf)
         /\ InRegister(x, "input", input) => x.packet \in Regs(input)
         /\ InRegister(x, "output", output) => x.packet \in Regs(output)
         /\ InPipeline(x) => x.packet \in Pipes(pipeline)
         /\ InReassembly(x) => x.packet \in Orders(orderBuf)
<1>1. ASSUME NEW kind, NEW buf, BufType(buf), InBuffer(x, kind, buf)
      PROVE  x.packet \in Packets(buf)
  BY <1>1, PacketsFacts DEF InBuffer
<1>2. ASSUME NEW kind, NEW regs, InRegister(x, kind, regs)
      PROVE  x.packet \in Regs(regs)
  BY <1>2 DEF InRegister, Regs
<1>3. InPipeline(x) => x.packet \in Pipes(pipeline)
  BY DEF InPipeline, Pipes
<1>4. InReassembly(x) => x.packet \in Orders(orderBuf)
  BY DEF InReassembly, Orders
<1>5. BufType(sendBuf) /\ BufType(recvBuf)
  BY DEF TypeOK, BufType
<1>6. QED
  BY <1>1, <1>2, <1>3, <1>4, <1>5

\* Two places of one kind with the same packet are one place.
LEMMA SamePlace ==
  ASSUME TypeOK, Separate, NEW x, NEW y, x.packet = y.packet
  PROVE  /\ InBuffer(x, "send", sendBuf) /\ InBuffer(y, "send", sendBuf) => x.at = y.at
         /\ InBuffer(x, "recv", recvBuf) /\ InBuffer(y, "recv", recvBuf) => x.at = y.at
         /\ InRegister(x, "input", input) /\ InRegister(y, "input", input) => x.at = y.at
         /\ InRegister(x, "output", output) /\ InRegister(y, "output", output) => x.at = y.at
         /\ InPipeline(x) /\ InPipeline(y) => x.at = y.at
         /\ InReassembly(x) /\ InReassembly(y) => x.at = y.at
<1>1. /\ BufApart(sendBuf) /\ BufApart(recvBuf) /\ OrderApart(orderBuf)
      /\ PipeApart(pipeline) /\ RegApart(input) /\ RegApart(output)
  BY DEF Separate, Apart
<1>2. ASSUME NEW kind, NEW buf, BufApart(buf), InBuffer(x, kind, buf), InBuffer(y, kind, buf)
      PROVE  x.at = y.at
  <2>1. PICK p \in Port, c \in Channel : \E i \in DOMAIN buf[p][c] :
          x = [at |-> <<kind, p, c, i>>, packet |-> buf[p][c][i]]
    BY <1>2 DEF InBuffer
  <2>2. PICK i \in DOMAIN buf[p][c] : x = [at |-> <<kind, p, c, i>>, packet |-> buf[p][c][i]]
    BY <2>1
  <2>3. PICK q \in Port, d \in Channel : \E j \in DOMAIN buf[q][d] :
          y = [at |-> <<kind, q, d, j>>, packet |-> buf[q][d][j]]
    BY <1>2 DEF InBuffer
  <2>4. PICK j \in DOMAIN buf[q][d] : y = [at |-> <<kind, q, d, j>>, packet |-> buf[q][d][j]]
    BY <2>3
  <2>5. buf[p][c][i] = buf[q][d][j]
    BY <2>2, <2>4
  <2>6. p = q /\ c = d /\ i = j
    BY <1>2, <2>5 DEF BufApart
  <2>7. QED
    BY <2>2, <2>4, <2>6
<1>3. ASSUME NEW kind, NEW regs, RegApart(regs), InRegister(x, kind, regs), InRegister(y, kind, regs)
      PROVE  x.at = y.at
  <2>1. PICK e \in Edge, c \in Channel :
          x = [at |-> <<kind, e, c>>, packet |-> regs[e][c]] /\ regs[e][c] # NoPacket
    BY <1>3 DEF InRegister
  <2>2. PICK f \in Edge, d \in Channel :
          y = [at |-> <<kind, f, d>>, packet |-> regs[f][d]] /\ regs[f][d] # NoPacket
    BY <1>3 DEF InRegister
  <2>3. regs[e][c] = regs[f][d]
    BY <2>1, <2>2
  <2>4. e = f /\ c = d
    BY <1>3, <2>1, <2>3 DEF RegApart
  <2>5. QED
    BY <2>1, <2>2, <2>4
<1>4. ASSUME InPipeline(x), InPipeline(y) PROVE x.at = y.at
  <2>1. PICK n \in Node : \E i \in DOMAIN pipeline[n] :
          x = [at |-> <<"pipeline", n, i>>, packet |-> pipeline[n][i].packet]
    BY <1>4 DEF InPipeline
  <2>2. PICK i \in DOMAIN pipeline[n] :
          x = [at |-> <<"pipeline", n, i>>, packet |-> pipeline[n][i].packet]
    BY <2>1
  <2>3. PICK k \in Node : \E j \in DOMAIN pipeline[k] :
          y = [at |-> <<"pipeline", k, j>>, packet |-> pipeline[k][j].packet]
    BY <1>4 DEF InPipeline
  <2>4. PICK j \in DOMAIN pipeline[k] :
          y = [at |-> <<"pipeline", k, j>>, packet |-> pipeline[k][j].packet]
    BY <2>3
  <2>5. pipeline[n][i].packet = pipeline[k][j].packet
    BY <2>2, <2>4
  <2>6. n = k /\ i = j
    BY <1>1, <2>5 DEF PipeApart
  <2>7. QED
    BY <2>2, <2>4, <2>6
<1>5. ASSUME InReassembly(x), InReassembly(y) PROVE x.at = y.at
  <2>1. PICK n \in Node : x.at = <<"order", n>> /\ x.packet \in orderBuf[n]
    BY <1>5 DEF InReassembly
  <2>2. PICK k \in Node : y.at = <<"order", k>> /\ y.packet \in orderBuf[k]
    BY <1>5 DEF InReassembly
  <2>3. n = k
    BY <1>1, <2>1, <2>2 DEF OrderApart
  <2>4. QED
    BY <2>1, <2>2, <2>3
<1>6. QED
  BY <1>1, <1>2, <1>3, <1>4, <1>5

LEMMA Conserved ==
  ASSUME IInv PROVE PacketsConserved
<1>1. TypeOK /\ Separate /\ Whole(Everything)
  BY DEF IInv
<1>2. ASSUME NEW x \in Held, NEW y \in Held, x.packet = y.packet PROVE x.at = y.at
  <2> DEFINE S == Packets(sendBuf)
             R == Packets(recvBuf)
             O == Orders(orderBuf)
             P == Pipes(pipeline)
             I == Regs(input)
             Q == Regs(output)
  <2>1. Disjoint(S, R, O, P, I, Q)
    BY <1>1 DEF Separate, Apart
  <2>2. \/ InBuffer(x, "send", sendBuf) /\ x.packet \in S
        \/ InBuffer(x, "recv", recvBuf) /\ x.packet \in R
        \/ InRegister(x, "input", input) /\ x.packet \in I
        \/ InRegister(x, "output", output) /\ x.packet \in Q
        \/ InPipeline(x) /\ x.packet \in P
        \/ InReassembly(x) /\ x.packet \in O
    BY <1>1, HeldFacts, PlaceFacts
  <2>3. \/ InBuffer(y, "send", sendBuf) /\ y.packet \in S
        \/ InBuffer(y, "recv", recvBuf) /\ y.packet \in R
        \/ InRegister(y, "input", input) /\ y.packet \in I
        \/ InRegister(y, "output", output) /\ y.packet \in Q
        \/ InPipeline(y) /\ y.packet \in P
        \/ InReassembly(y) /\ y.packet \in O
    BY <1>1, HeldFacts, PlaceFacts
  <2> HIDE DEF S, R, O, P, I, Q
  <2>4. QED
    BY <1>1, <1>2, <2>1, <2>2, <2>3, SamePlace DEF Disjoint
<1>3. \A m \in Everything : \A i \in 0 .. m.count - 1 : [m EXCEPT !.idx = i] \in Everything
  BY <1>1 DEF Whole
<1>4. QED
  BY <1>2, <1>3, AllPackets DEF PacketsConserved

LEMMA Credited ==
  ASSUME IInv PROVE CreditConservation
BY AllPackets DEF IInv, Credits, CreditConservation, Ids

\* A network without packets under way has empty send buffers and pipelines.
LEMMA NothingUnderWay ==
  ASSUME IInv, UnderWay = {}
  PROVE  /\ \A p \in Port, c \in Channel : sendBuf[p][c] = <<>>
         /\ \A n \in Node : Congestion => buffered[n] = 0
<1>1. TypeOK /\ Counted
  BY DEF IInv
<1>2. ASSUME NEW p \in Port, NEW c \in Channel PROVE sendBuf[p][c] = <<>>
  <2>1. sendBuf[p][c] \in Seq(Packet) /\ Range(sendBuf[p][c]) = {}
    <3>1. sendBuf[p][c] \in Seq(Packet)
      BY <1>1 DEF TypeOK
    <3>2. Range(sendBuf[p][c]) = {}
      BY AllPackets
    <3>3. QED
      BY <3>1, <3>2
  <2>2. DOMAIN sendBuf[p][c] = {}
    BY <2>1 DEF Range
  <2>3. Len(sendBuf[p][c]) = 0
    <3>1. Len(sendBuf[p][c]) \in Nat /\ DOMAIN sendBuf[p][c] = 1 .. Len(sendBuf[p][c])
      BY <2>1, LenProperties
    <3>2. Len(sendBuf[p][c]) # 0 => 1 \in 1 .. Len(sendBuf[p][c])
      BY <3>1
    <3>3. QED
      BY <2>2, <3>1, <3>2
  <2>4. QED
    BY <2>1, <2>3, EmptySeq
<1>3. ASSUME NEW n \in Node, Congestion PROVE buffered[n] = 0
  <2>1. pipeline[n] \in Seq([packet : Packet, wait : 0 .. RouteLatency]) /\ Piped(n) = {}
    BY <1>1, AllPackets DEF TypeOK
  <2>2. DOMAIN pipeline[n] = {}
    BY <2>1 DEF Piped
  <2>3. Len(pipeline[n]) = 0
    <3>1. Len(pipeline[n]) \in Nat /\ DOMAIN pipeline[n] = 1 .. Len(pipeline[n])
      BY <2>1, LenProperties
    <3>2. Len(pipeline[n]) # 0 => 1 \in 1 .. Len(pipeline[n])
      BY <3>1
    <3>3. QED
      BY <2>2, <3>1, <3>2
  <2>4. QED
    BY <1>1, <1>3, <2>3 DEF Counted
<1>4. QED
  BY <1>2, <1>3

\* A receive buffer with packets has the first packet of a message.
LEMMA FirstPackets ==
  ASSUME NEW p \in Port, NEW c \in Channel, NEW r \in Seq(Packet), WholeSeq(r, p, c), r # <<>>
  PROVE  LET firsts == Ascending({i \in DOMAIN r : r[i].idx = 0}) IN DOMAIN firsts # {}
<1> DEFINE F == {i \in DOMAIN r : r[i].idx = 0}
<1>1. r[1] = Head(r) /\ Head(r).idx = 0
  BY WholeSeqDrop
<1>2. Len(r) \in Nat /\ DOMAIN r = 1 .. Len(r) /\ Len(r) # 0
  BY LenProperties, EmptySeq
<1>3. 1 \in F
  BY <1>1, <1>2
<1>4. F \subseteq 1 .. Len(r)
  BY <1>2
<1> HIDE DEF F
<1>5. IsFiniteSet(F)
  <2>1. 1 \in Int /\ Len(r) \in Int
    BY <1>2
  <2>2. IsFiniteSet(1 .. Len(r))
    BY <2>1, FS_Interval, Zenon
  <2>3. QED
    BY <1>4, <2>2, FS_Subset
<1>6. Cardinality(F) \in Nat /\ Cardinality(F) # 0
  BY <1>3, <1>5, FS_CardinalityType, FS_EmptySet
<1>7. DOMAIN Ascending(F) = 1 .. Cardinality(F)
  BY DEF Ascending
<1>8. QED
  BY <1>6, <1>7 DEF F

LEMMA Explained ==
  ASSUME IInv, Congestion => 0 < High PROVE RefusalsExplained
<1>1. /\ TypeOK /\ WholeBuffers /\ Credits /\ Counted /\ Watermarked
  BY DEF IInv
<1>2. ASSUME NEW f \in Flows, ~Bus!MayRefuse(f[2], f[3])
      PROVE  CanSend(f[1], f[3]) /\ HasCredit(f[2], f[3])
  <2> DEFINE p == f[1]
             d == f[2]
             c == f[3]
             r == recvBuf[d][c]
  <2>1. p \in Port /\ d \in Port /\ c \in Channel
    BY ConfigAssumption
  <2> HIDE DEF p, d, c
  <2>2. {Letter(m) : m \in UnderWay} = {}
    BY <1>2 DEF Bus!MayRefuse
  <2>3. UnderWay = {}
    BY <2>2
  <2>4. sendBuf[p][c] = <<>>
    BY <2>1, <2>3, NothingUnderWay
  <2>5. Congestion => ~congested[NodeOf[p]] /\ buffered[NodeOf[p]] < BufferLimit
    <3>1. NodeOf[p] \in Node
      BY <2>1, PortFacts
    <3>2. SUFFICES ASSUME Congestion
                   PROVE  ~congested[NodeOf[p]] /\ buffered[NodeOf[p]] < BufferLimit
      OBVIOUS
    <3>3. buffered[NodeOf[p]] = 0
      BY <2>3, <3>1, <3>2, NothingUnderWay
    <3>4. High \in Nat /\ Low \in Nat /\ Low <= High /\ BufferLimit \in Nat \ {0} /\ 0 < High
      BY <3>2, ConfigAssumption
    <3>5. ~congested[NodeOf[p]]
      BY <1>1, <3>1, <3>3, <3>4 DEF Watermarked
    <3>6. QED
      BY <3>3, <3>4, <3>5
  <2>6. r \in Seq(Packet) /\ WholeSeq(r, d, c)
    BY <1>1, <2>1 DEF TypeOK, WholeBuffers
  <2>7. r = <<>>
    <3>1. [p1 \in Port |-> [c1 \in Channel |->
             LET firsts == Ascending({i \in DOMAIN recvBuf[p1][c1] : recvBuf[p1][c1][i].idx = 0})
             IN [i \in DOMAIN firsts |-> Letter(recvBuf[p1][c1][firsts[i]])]]][d][c] = <<>>
      BY <1>2 DEF Bus!MayRefuse, d, c
    <3> DEFINE firsts == Ascending({i \in DOMAIN r : r[i].idx = 0})
    <3>2. [i \in DOMAIN firsts |-> Letter(r[firsts[i]])] = <<>>
      BY <2>1, <3>1
    <3> HIDE DEF r, firsts
    <3>3. DOMAIN firsts = {}
      <4>1. DOMAIN [i \in DOMAIN firsts |-> Letter(r[firsts[i]])] = DOMAIN firsts
        OBVIOUS
      <4>2. DOMAIN <<>> = {}
        OBVIOUS
      <4>3. QED
        BY <3>2, <4>1, <4>2
    <3>4. QED
      BY <2>1, <2>6, <3>3, FirstPackets DEF firsts
  <2>8. HasCredit(d, c)
    <3>1. SUFFICES ASSUME Slots # 0 PROVE reserved[d][c] < Slots
      BY DEF HasCredit
    <3>2. Ids(Everything, d, c) = {}
      <4>1. SUFFICES ASSUME NEW m \in Everything, m.dst = d, m.channel = c PROVE FALSE
        BY DEF Ids
      <4>2. m \in Packets(recvBuf) /\ BufType(recvBuf)
        BY <1>1, <2>3, AllPackets DEF TypeOK, BufType
      <4>3. PICK q \in Port, e \in Channel : \E i \in DOMAIN recvBuf[q][e] : m = recvBuf[q][e][i]
        BY <4>2, PacketsFacts
      <4>4. PICK i \in DOMAIN recvBuf[q][e] : m = recvBuf[q][e][i]
        BY <4>3
      <4>5. WholeSeq(recvBuf[q][e], q, e)
        BY <1>1 DEF WholeBuffers
      <4>6. q = d /\ e = c
        BY <4>1, <4>4, <4>5 DEF WholeSeq
      <4>7. DOMAIN <<>> = {}
        OBVIOUS
      <4>8. QED
        BY <2>7, <4>4, <4>6, <4>7
    <3>3. reserved[d][c] = 0
      BY <1>1, <2>1, <3>1, <3>2, FS_EmptySet DEF Credits
    <3>4. QED
      BY <3>1, <3>3, ConfigAssumption
  <2>9. QED
    BY <2>4, <2>5, <2>8 DEF CanSend, p, d, c
<1>3. QED
  BY <1>2, Credited DEF RefusalsExplained

(***************************************************************************)
(* Send buffers, the intake, pipelines, registers and reassembly neither   *)
(* lose nor double a packet.                                               *)
(***************************************************************************)
THEOREM PacketsAreConserved == Spec => []PacketsConserved
<1>1. IInv => PacketsConserved
  BY Conserved
<1>2. QED
  BY <1>1, Invariant, PTL

(***************************************************************************)
(* Reassembly leaves whole messages in the receive buffers: recv never     *)
(* throws "packet order error".                                            *)
(***************************************************************************)
THEOREM MessagesAreWhole == Spec => []MessagesWhole
<1>1. IInv => MessagesWhole
  <2> SUFFICES ASSUME WholeBuffers, NEW p \in Port, NEW c \in Channel, NEW i \in DOMAIN recvBuf[p][c]
               PROVE  LET r == recvBuf[p][c] IN
                      /\ r[i].dst = p /\ r[i].channel = c
                      /\ i - r[i].idx \in DOMAIN r
                      /\ i - r[i].idx + r[i].count - 1 \in DOMAIN r
                      /\ \A k \in 0 .. r[i].count - 1 :
                           r[i - r[i].idx + k] = [r[i] EXCEPT !.idx = k]
    BY DEF IInv, MessagesWhole
  <2>1. WholeSeq(recvBuf[p][c], p, c)
    BY DEF WholeBuffers
  <2>2. QED
    BY <2>1, Zenon DEF WholeSeq
<1>2. QED
  BY <1>1, Invariant, PTL

(***************************************************************************)
(* Routers hold what their counters say and never more than their limit.   *)
(***************************************************************************)
THEOREM BuffersAreBounded == Spec => []BuffersBounded
<1>1. IInv => BuffersBounded
  BY DEF IInv, Counted, BuffersBounded
<1>2. QED
  BY <1>1, Invariant, PTL

(***************************************************************************)
(* Receive slots are conserved, for every configuration.                   *)
(***************************************************************************)
THEOREM CreditsAreConserved == Spec => []CreditConservation
<1>1. IInv => CreditConservation
  BY Credited
<1>2. QED
  BY <1>1, Invariant, PTL

(***************************************************************************)
(* A send is refused for a reason only.  The high watermark must not be    *)
(* zero: the flag of a node is updated twice in a cycle, and with both     *)
(* watermarks zero the second update raises it again in an empty node.     *)
(***************************************************************************)
THEOREM RefusalsAreExplained ==
  ASSUME Congestion => 0 < High PROVE Spec => []RefusalsExplained
<1>1. IInv => RefusalsExplained
  BY Explained
<1>2. QED
  BY <1>1, Invariant, PTL
-------------------------------------------------------------------------------
(***************************************************************************)
(* The packet network implements IBus: the messages it completes arrive    *)
(* once, each as the oldest of its flow under way.  All packets of a flow  *)
(* take the same way through the network, and none overtakes another: the  *)
(* older of two packets has no more places to go than the younger one.     *)
(***************************************************************************)

-------------------------------------------------------------------------------
(***************************************************************************)
(* The way of a flow.                                                      *)
(***************************************************************************)
Target(m) == NodeOf[m.dst]

\* The hops left to a packet at node n.
Far(n, m) == Hops(Route, Node, n, Target(m))

\* Where the routing table sends it.
Onto(n, m) == Route[n][Target(m)]

\* Node n is on the way of m: it is in every set of nodes that has the source
\* of m and, for each of its nodes, the next one.
Follows(S, m) == NodeOf[m.src] \in S /\ \A x \in S : x # Target(m) => Onto(x, m) \in S
OnWay(n, m) == \A S \in SUBSET Node : Follows(S, m) => n \in S

Alike(m, k) == m.src = k.src /\ m.dst = k.dst /\ m.channel = k.channel
Before(m, k) == m.id < k.id \/ (m.id = k.id /\ m.idx < k.idx)

LEMMA EndFacts ==
  ASSUME NEW m \in Packet
  PROVE  Target(m) \in Node /\ NodeOf[m.src] \in Node
<1>1. m.src \in Port /\ m.dst \in Port
  BY DEF Packet
<1>2. QED
  BY <1>1, PortFacts DEF Target

LEMMA FarFacts ==
  ASSUME NEW m \in Packet, NEW n \in Node
  PROVE  /\ Far(n, m) \in Nat
         /\ Far(n, m) = 0 <=> n = Target(m)
         /\ n # Target(m) => /\ Onto(n, m) \in Node /\ Far(n, m) # 0
                             /\ Far(Onto(n, m), m) = Far(n, m) - 1
<1>1. Target(m) \in Node
  BY EndFacts
<1>2. IsFiniteSet(Node) /\ Valid(Route, Node)
  BY ConfigAssumption
<1>3. QED
  BY <1>1, <1>2, ValidHops DEF Far, Onto

\* The hops left decide the node on the way.
LEMMA WayFacts ==
  ASSUME NEW m \in Packet
  PROVE  /\ OnWay(NodeOf[m.src], m)
         /\ \A n : OnWay(n, m) => n \in Node
         /\ \A n : OnWay(n, m) /\ n # Target(m) => OnWay(Onto(n, m), m)
         /\ \A n : OnWay(n, m) => n = NodeOf[m.src] \/ Far(n, m) < Far(NodeOf[m.src], m)
<1>1. OnWay(NodeOf[m.src], m)
  BY DEF OnWay, Follows
<1>2. ASSUME NEW n, OnWay(n, m) PROVE n \in Node
  <2>1. Follows(Node, m)
    BY EndFacts, FarFacts DEF Follows
  <2>2. QED
    BY <1>2, <2>1 DEF OnWay
<1>3. ASSUME NEW n, OnWay(n, m), n # Target(m) PROVE OnWay(Onto(n, m), m)
  BY <1>3 DEF OnWay, Follows
<1>4. ASSUME NEW n, OnWay(n, m) PROVE n = NodeOf[m.src] \/ Far(n, m) < Far(NodeOf[m.src], m)
  <2> DEFINE s == NodeOf[m.src]
             S == {x \in Node : x = s \/ Far(x, m) < Far(s, m)}
  <2>1. s \in Node
    BY EndFacts
  <2> HIDE DEF s
  <2>2. ASSUME NEW x \in S, x # Target(m) PROVE Onto(x, m) \in S
    <3>1. Onto(x, m) \in Node /\ Far(x, m) \in Nat /\ Far(s, m) \in Nat
          /\ Far(Onto(x, m), m) = Far(x, m) - 1
      BY <2>1, <2>2, FarFacts
    <3>2. Far(x, m) <= Far(s, m)
      BY <2>2, <3>1
    <3>3. Far(x, m) - 1 < Far(s, m)
      BY <3>1, <3>2
    <3>4. QED
      BY <3>1, <3>3
  <2>3. s \in S
    BY <2>1
  <2> HIDE DEF S
  <2>4. Follows(S, m)
    BY <2>2, <2>3 DEF Follows, s
  <2>5. S \in SUBSET Node
    BY DEF S
  <2>6. n \in S
    BY <1>4, <2>4, <2>5 DEF OnWay
  <2>7. QED
    BY <2>6 DEF S, s
<1>5. QED
  BY <1>1, <1>2, <1>3, <1>4

LEMMA WayUnique ==
  ASSUME NEW m \in Packet, NEW a, NEW b, OnWay(a, m), OnWay(b, m), Far(a, m) = Far(b, m)
  PROVE  a = b
\* A node of the way has no other one on the way with as many hops left.
<1> DEFINE s == NodeOf[m.src]
           F(x) == Far(x, m)
           T == {x \in Node : OnWay(x, m) /\ \A y \in Node : OnWay(y, m) /\ F(y) = F(x) => y = x}
<1>1. s \in Node /\ \A y \in Node : OnWay(y, m) => y = s \/ F(y) < F(s)
  BY EndFacts, WayFacts
<1>2. \A x \in Node : F(x) \in Nat /\ (x # Target(m) => Onto(x, m) \in Node /\ F(Onto(x, m)) = F(x) - 1)
  BY FarFacts
<1> HIDE DEF F
<1>3. s \in T
  <2>1. \A y \in Node : OnWay(y, m) /\ F(y) = F(s) => y = s
    BY <1>1, <1>2
  <2>2. QED
    BY <1>1, <2>1, WayFacts
<1>4. ASSUME NEW x \in T, x # Target(m) PROVE Onto(x, m) \in T
  <2> DEFINE u == Onto(x, m)
             S == {z \in Node : OnWay(z, m) /\ (F(z) >= F(x) \/ z = u \/ F(z) < F(x) - 1)}
  <2>1. x \in Node /\ OnWay(x, m) /\ u \in Node /\ OnWay(u, m) /\ F(u) = F(x) - 1 /\ F(x) \in Nat
    BY <1>2, <1>4, WayFacts
  <2>2. s \in S
    <3>1. F(s) >= F(x)
      BY <1>1, <1>2, <2>1
    <3>2. QED
      BY <1>1, <3>1, WayFacts
  <2>3. ASSUME NEW z \in S, z # Target(m) PROVE Onto(z, m) \in S
    <3> DEFINE v == Onto(z, m)
    <3>1. z \in Node /\ v \in Node /\ OnWay(v, m) /\ F(v) = F(z) - 1 /\ F(z) \in Nat
      BY <1>2, <2>3, WayFacts
    <3>2. CASE F(z) = F(x)
      <4>1. z = x
        BY <1>4, <2>3, <3>1, <3>2
      <4>2. QED
        BY <2>1, <4>1
    <3>3. CASE F(z) # F(x)
      <4>1. F(z) > F(x) \/ F(z) <= F(x) - 1
        BY <2>1, <3>1, <3>3
      <4> HIDE DEF u, v
      <4>2. F(v) >= F(x) \/ F(v) < F(x) - 1
        BY <2>1, <3>1, <4>1
      <4>3. QED
        BY <3>1, <4>2 DEF v
    <3>4. QED
      BY <3>2, <3>3
  <2>4. S \in SUBSET Node
    OBVIOUS
  <2> HIDE DEF S
  <2>5. Follows(S, m)
    BY <2>2, <2>3 DEF Follows
  <2>6. ASSUME NEW y \in Node, OnWay(y, m), F(y) = F(u) PROVE y = u
    <3>1. y \in S
      BY <2>4, <2>5, <2>6 DEF OnWay
    <3> HIDE DEF u
    <3>2. F(y) >= F(x) \/ y = u \/ F(y) < F(x) - 1
      BY <3>1 DEF S
    <3>3. QED
      BY <2>1, <2>6, <3>2
  <2>7. QED
    BY <2>1, <2>6
<1>5. a \in T
  <2>1. T \in SUBSET Node
    OBVIOUS
  <2> HIDE DEF T
  <2>2. Follows(T, m)
    BY <1>3, <1>4 DEF Follows
  <2>3. QED
    BY <2>1, <2>2 DEF OnWay
<1>6. QED
  BY <1>5, WayFacts DEF F

\* Packets of one flow have one way.
LEMMA AlikeFacts ==
  ASSUME NEW m, NEW k, Alike(m, k)
  PROVE  /\ NodeOf[m.src] = NodeOf[k.src] /\ Target(m) = Target(k)
         /\ \A n : Far(n, m) = Far(n, k) /\ Onto(n, m) = Onto(n, k) /\ (OnWay(n, m) <=> OnWay(n, k))
<1>1. Target(m) = Target(k) /\ m.src = k.src
  BY DEF Alike, Target
<1>2. \A n : Onto(n, m) = Onto(n, k) /\ Far(n, m) = Far(n, k)
  BY <1>1 DEF Onto, Far
<1>3. \A S : Follows(S, m) <=> Follows(S, k)
  BY <1>1, <1>2 DEF Follows
<1>4. QED
  BY <1>1, <1>2, <1>3 DEF OnWay
-------------------------------------------------------------------------------
(***************************************************************************)
(* The order of a flow.  A packet at some place has left three times its   *)
(* hops, and something that tells the places between two pipelines apart.  *)
(* As in NoC_proofs this is said of the contents of the places.            *)
(***************************************************************************)
AtSend(S, m, r) ==
  \E p \in Port, c \in Channel : \E i \in DOMAIN S[p][c] :
    m = S[p][c][i] /\ r = 3 * Far(NodeOf[p], m) + 1
AtPipe(P, m, r) ==
  \E n \in Node : \E i \in DOMAIN P[n] : m = P[n][i].packet /\ r = 3 * Far(n, m)
AtReg(X, m, r, k) ==
  \E e \in Edge, c \in Channel : X[e][c] # NoPacket /\ m = X[e][c] /\ r = 3 * Far(e[2], m) + k

Stands(S, P, I, Q, m, r) ==
  AtSend(S, m, r) \/ AtPipe(P, m, r) \/ AtReg(I, m, r, 2) \/ AtReg(Q, m, r, 1)

\* The places of packets are on the way of their flow.
SendWay(S) ==
  \A p \in Port, c \in Channel : \A i \in DOMAIN S[p][c] :
    S[p][c][i].src = p /\ S[p][c][i].channel = c
PipeWay(P) == \A n \in Node : \A i \in DOMAIN P[n] : OnWay(n, P[n][i].packet)
RegWay(X) ==
  \A e \in Edge, c \in Channel : X[e][c] # NoPacket =>
    /\ X[e][c].channel = c /\ OnWay(e[1], X[e][c]) /\ e[1] # Target(X[e][c])
    /\ e[2] = Onto(e[1], X[e][c])
Ways(S, P, I, Q) == SendWay(S) /\ PipeWay(P) /\ RegWay(I) /\ RegWay(Q)

Types(S, P, I, Q) == BufType(S) /\ PipeType(P) /\ RegType(I) /\ RegType(Q)

Ranks(S, P, I, Q) == {x \in Packet \X Nat : Stands(S, P, I, Q, x[1], x[2])}

\* No packet has less left than an older one.
Ordered(W) == \A x, y \in W : Alike(x[1], y[1]) /\ Before(x[1], y[1]) => x[2] <= y[2]

LEMMA Thirds ==
  ASSUME NEW a \in Nat, NEW b \in Nat
  PROVE  /\ 3 * a # 3 * b + 1 /\ 3 * a # 3 * b + 2 /\ 3 * a + 1 # 3 * b + 2
         /\ 3 * a = 3 * b => a = b
         /\ 3 * a + 1 = 3 * b + 1 => a = b
         /\ 3 * a + 2 = 3 * b + 2 => a = b
OBVIOUS

\* A register holds a packet that comes along an edge of its way.
LEMMA RegFacts ==
  ASSUME NEW X, RegType(X), RegWay(X), NEW e \in Edge, NEW c \in Channel, X[e][c] # NoPacket
  PROVE  LET m == X[e][c] IN
         /\ m \in Packet /\ m.channel = c
         /\ e[1] \in Node /\ e[2] \in Node /\ e = <<e[1], e[2]>>
         /\ OnWay(e[1], m) /\ OnWay(e[2], m)
         /\ Far(e[1], m) \in Nat /\ Far(e[2], m) \in Nat /\ Far(e[1], m) = Far(e[2], m) + 1
         /\ Far(e[2], m) # Far(NodeOf[m.src], m)
<1> DEFINE m == X[e][c]
<1>1. m \in Packet
  BY RegsFacts
<1>2. /\ m.channel = c /\ OnWay(e[1], m) /\ e[1] # Target(m) /\ e[2] = Onto(e[1], m)
      /\ e[1] \in Node /\ e[2] \in Node /\ e = <<e[1], e[2]>>
  BY EdgeFacts DEF RegWay
<1> HIDE DEF m
<1>3. OnWay(e[2], m)
  BY <1>1, <1>2, WayFacts
<1> DEFINE a == Far(e[1], m)
           b == Far(e[2], m)
           s == NodeOf[m.src]
<1>4. a \in Nat /\ b \in Nat /\ b = a - 1 /\ Far(s, m) \in Nat
  BY <1>1, <1>2, EndFacts, FarFacts
<1>5. e[1] = s \/ a < Far(s, m)
  BY <1>1, <1>2, WayFacts
<1>6. a = b + 1 /\ b # Far(s, m)
  <2> DEFINE f == Far(s, m)
  <2>1. a = f \/ a < f
    BY <1>5
  <2>2. f \in Nat
    BY <1>4
  <2> HIDE DEF a, b, f
  <2>3. a = b + 1 /\ b # f
    BY <1>4, <2>1, <2>2
  <2>4. QED
    BY <2>3 DEF f
<1>7. QED
  BY <1>1, <1>2, <1>3, <1>4, <1>6 DEF m

\* Where a flow has a packet in a send buffer, all it has with as much left is.
LEMMA SameSend ==
  ASSUME NEW S, NEW P, NEW I, NEW Q, Types(S, P, I, Q), Ways(S, P, I, Q),
         NEW p \in Port, NEW c \in Channel, NEW i \in DOMAIN S[p][c],
         NEW m \in Packet, Alike(m, S[p][c][i]),
         Stands(S, P, I, Q, m, 3 * Far(NodeOf[p], S[p][c][i]) + 1)
  PROVE  \E j \in DOMAIN S[p][c] : m = S[p][c][j]
<1> DEFINE y == S[p][c][i]
           f == Far(NodeOf[p], y)
<1>1. y \in Packet /\ y.src = p /\ y.channel = c
  BY PacketsFacts DEF Types, Ways, SendWay
<1>2. m.src = p /\ m.channel = c /\ \A n : Far(n, m) = Far(n, y)
  BY <1>1, AlikeFacts DEF Alike
<1>3. f \in Nat
  BY <1>1, EndFacts, FarFacts
<1> HIDE DEF f
<1>4. CASE AtSend(S, m, 3 * f + 1)
  <2>1. PICK q \in Port, d \in Channel : \E j \in DOMAIN S[q][d] : m = S[q][d][j]
    BY <1>4 DEF AtSend
  <2>2. q = p /\ d = c
    BY <1>2, <2>1 DEF Ways, SendWay
  <2>3. QED
    BY <2>1, <2>2
<1>5. CASE AtPipe(P, m, 3 * f + 1)
  <2>1. PICK n \in Node : 3 * f + 1 = 3 * Far(n, m)
    BY <1>5 DEF AtPipe
  <2>2. Far(n, m) \in Nat
    BY FarFacts
  <2>3. QED
    BY <1>3, <2>1, <2>2, Thirds
<1>6. CASE AtReg(I, m, 3 * f + 1, 2)
  <2>1. PICK e \in Edge, d \in Channel :
          I[e][d] # NoPacket /\ m = I[e][d] /\ 3 * f + 1 = 3 * Far(e[2], m) + 2
    BY <1>6 DEF AtReg
  <2>2. Far(e[2], m) \in Nat
    BY <2>1, EdgeFacts, FarFacts
  <2>3. QED
    BY <1>3, <2>1, <2>2, Thirds
<1>7. CASE AtReg(Q, m, 3 * f + 1, 1)
  <2>1. PICK e \in Edge, d \in Channel :
          Q[e][d] # NoPacket /\ m = Q[e][d] /\ 3 * f + 1 = 3 * Far(e[2], m) + 1
    BY <1>7 DEF AtReg
  <2>2. Far(e[2], m) \in Nat /\ Far(e[2], m) # Far(NodeOf[m.src], m)
    BY <2>1, RegFacts DEF Types, Ways
  <2>3. f = Far(e[2], m)
    BY <1>3, <2>1, <2>2, Thirds
  <2>4. f = Far(NodeOf[m.src], m)
    BY <1>2 DEF f
  <2>5. QED
    BY <2>2, <2>3, <2>4
<1>8. QED
  BY <1>4, <1>5, <1>6, <1>7 DEF Stands, f
\* The same for a pipeline.
LEMMA SamePipe ==
  ASSUME NEW S, NEW P, NEW I, NEW Q, Types(S, P, I, Q), Ways(S, P, I, Q),
         NEW n \in Node, NEW i \in DOMAIN P[n],
         NEW m \in Packet, Alike(m, P[n][i].packet),
         Stands(S, P, I, Q, m, 3 * Far(n, P[n][i].packet))
  PROVE  \E j \in DOMAIN P[n] : m = P[n][j].packet
<1> DEFINE y == P[n][i].packet
           f == Far(n, y)
<1>1. y \in Packet /\ OnWay(n, y)
  BY PipesFacts DEF Types, Ways, PipeWay
<1>2. \A k : Far(k, m) = Far(k, y) /\ (OnWay(k, m) <=> OnWay(k, y))
  BY <1>1, AlikeFacts
<1>3. f \in Nat
  BY <1>1, FarFacts
<1> HIDE DEF f
<1>4. CASE AtPipe(P, m, 3 * f)
  <2>1. PICK k \in Node : \E j \in DOMAIN P[k] : m = P[k][j].packet /\ 3 * f = 3 * Far(k, m)
    BY <1>4 DEF AtPipe
  <2>2. Far(k, m) \in Nat /\ OnWay(k, m)
    BY <2>1, FarFacts DEF Ways, PipeWay
  <2>3. f = Far(k, m)
    BY <1>3, <2>1, <2>2, Thirds
  <2>4. OnWay(n, m) /\ Far(n, m) = Far(k, m)
    BY <1>1, <1>2, <2>3 DEF f
  <2>5. n = k
    BY <2>2, <2>4, WayUnique
  <2>6. QED
    BY <2>1, <2>5
<1>5. CASE AtSend(S, m, 3 * f)
  <2>1. PICK p \in Port : 3 * f = 3 * Far(NodeOf[p], m) + 1
    BY <1>5 DEF AtSend
  <2>2. Far(NodeOf[p], m) \in Nat
    BY FarFacts, PortFacts
  <2>3. QED
    BY <1>3, <2>1, <2>2, Thirds
<1>6. CASE AtReg(I, m, 3 * f, 2) \/ AtReg(Q, m, 3 * f, 1)
  <2>1. PICK e \in Edge : 3 * f = 3 * Far(e[2], m) + 2 \/ 3 * f = 3 * Far(e[2], m) + 1
    BY <1>6 DEF AtReg
  <2>2. Far(e[2], m) \in Nat
    BY EdgeFacts, FarFacts
  <2>3. QED
    BY <1>3, <2>1, <2>2, Thirds
<1>7. QED
  BY <1>4, <1>5, <1>6 DEF Stands, f

\* A register has no other packet of its flow with as much left.
LEMMA SameReg ==
  ASSUME NEW X, RegType(X), RegWay(X), NEW e \in Edge, NEW c \in Channel, X[e][c] # NoPacket,
         NEW f \in Edge, NEW d \in Channel, X[f][d] # NoPacket, Alike(X[f][d], X[e][c]),
         Far(f[2], X[f][d]) = Far(e[2], X[e][c])
  PROVE  f = e /\ d = c
<1> DEFINE y == X[e][c]
           m == X[f][d]
<1>1. /\ y \in Packet /\ y.channel = c /\ OnWay(e[1], y) /\ OnWay(e[2], y)
      /\ e = <<e[1], e[2]>> /\ Far(e[1], y) = Far(e[2], y) + 1
  BY RegFacts
<1>2. /\ m \in Packet /\ m.channel = d /\ OnWay(f[1], m) /\ OnWay(f[2], m)
      /\ f = <<f[1], f[2]>> /\ Far(f[1], m) = Far(f[2], m) + 1
  BY RegFacts
<1>3. m.channel = y.channel /\ \A k : Far(k, m) = Far(k, y) /\ (OnWay(k, m) <=> OnWay(k, y))
  BY AlikeFacts DEF Alike
<1>4. Far(f[2], m) = Far(e[2], y)
  OBVIOUS
<1> HIDE DEF y, m
<1>5. Far(f[2], y) = Far(e[2], y) /\ Far(f[1], y) = Far(e[1], y)
  BY <1>1, <1>2, <1>3, <1>4
<1>6. f[2] = e[2] /\ f[1] = e[1]
  BY <1>1, <1>2, <1>3, <1>5, WayUnique
<1>7. QED
  BY <1>1, <1>2, <1>3, <1>6

LEMMA SameInput ==
  ASSUME NEW S, NEW P, NEW I, NEW Q, Types(S, P, I, Q), Ways(S, P, I, Q),
         NEW e \in Edge, NEW c \in Channel, I[e][c] # NoPacket,
         NEW m \in Packet, Alike(m, I[e][c]), Stands(S, P, I, Q, m, 3 * Far(e[2], I[e][c]) + 2)
  PROVE  m = I[e][c]
<1> DEFINE g == Far(e[2], I[e][c])
<1>1. g \in Nat
  BY RegFacts DEF Types, Ways
<1> HIDE DEF g
<1>2. CASE AtReg(I, m, 3 * g + 2, 2)
  <2>1. PICK f \in Edge, d \in Channel :
          I[f][d] # NoPacket /\ m = I[f][d] /\ 3 * g + 2 = 3 * Far(f[2], m) + 2
    BY <1>2 DEF AtReg
  <2>2. Far(f[2], m) \in Nat
    BY <2>1, RegFacts DEF Types, Ways
  <2>3. g = Far(f[2], m)
    BY <1>1, <2>1, <2>2, Thirds
  <2>4. f = e /\ d = c
    BY <2>1, <2>3, SameReg DEF Types, Ways, g
  <2>5. QED
    BY <2>1, <2>4
<1>3. CASE AtSend(S, m, 3 * g + 2)
  <2>1. PICK p \in Port : 3 * g + 2 = 3 * Far(NodeOf[p], m) + 1
    BY <1>3 DEF AtSend
  <2>2. Far(NodeOf[p], m) \in Nat
    BY FarFacts, PortFacts
  <2>3. QED
    BY <1>1, <2>1, <2>2, Thirds
<1>4. CASE AtPipe(P, m, 3 * g + 2)
  <2>1. PICK n \in Node : 3 * g + 2 = 3 * Far(n, m)
    BY <1>4 DEF AtPipe
  <2>2. Far(n, m) \in Nat
    BY FarFacts
  <2>3. QED
    BY <1>1, <2>1, <2>2, Thirds
<1>5. CASE AtReg(Q, m, 3 * g + 2, 1)
  <2>1. PICK f \in Edge : 3 * g + 2 = 3 * Far(f[2], m) + 1
    BY <1>5 DEF AtReg
  <2>2. Far(f[2], m) \in Nat
    BY EdgeFacts, FarFacts
  <2>3. QED
    BY <1>1, <2>1, <2>2, Thirds
<1>6. QED
  BY <1>2, <1>3, <1>4, <1>5 DEF Stands, g

LEMMA SameOutput ==
  ASSUME NEW S, NEW P, NEW I, NEW Q, Types(S, P, I, Q), Ways(S, P, I, Q),
         NEW e \in Edge, NEW c \in Channel, Q[e][c] # NoPacket,
         NEW m \in Packet, Alike(m, Q[e][c]), Stands(S, P, I, Q, m, 3 * Far(e[2], Q[e][c]) + 1)
  PROVE  m = Q[e][c]
<1> DEFINE y == Q[e][c]
           g == Far(e[2], y)
<1>1. y \in Packet /\ g \in Nat /\ g # Far(NodeOf[y.src], y)
  BY RegFacts DEF Types, Ways
<1>2. NodeOf[m.src] = NodeOf[y.src] /\ \A n : Far(n, m) = Far(n, y)
  BY AlikeFacts
<1> HIDE DEF g, y
<1>3. CASE AtReg(Q, m, 3 * g + 1, 1)
  <2>1. PICK f \in Edge, d \in Channel :
          Q[f][d] # NoPacket /\ m = Q[f][d] /\ 3 * g + 1 = 3 * Far(f[2], m) + 1
    BY <1>3 DEF AtReg
  <2>2. Far(f[2], m) \in Nat
    BY <2>1, RegFacts DEF Types, Ways
  <2>3. g = Far(f[2], m)
    BY <1>1, <2>1, <2>2, Thirds
  <2>4. f = e /\ d = c
    BY <2>1, <2>3, SameReg DEF Types, Ways, g, y
  <2>5. QED
    BY <2>1, <2>4
<1>4. CASE AtSend(S, m, 3 * g + 1)
  <2>1. PICK p \in Port, d \in Channel :
          \E i \in DOMAIN S[p][d] : m = S[p][d][i] /\ 3 * g + 1 = 3 * Far(NodeOf[p], m) + 1
    BY <1>4 DEF AtSend
  <2>2. m.src = p /\ Far(NodeOf[p], m) \in Nat
    BY <2>1, FarFacts, PortFacts DEF Ways, SendWay
  <2>3. g = Far(NodeOf[p], m)
    BY <1>1, <2>1, <2>2, Thirds
  <2>4. g = Far(NodeOf[y.src], y)
    BY <1>2, <2>2, <2>3
  <2>5. QED
    BY <1>1, <2>4
<1>5. CASE AtPipe(P, m, 3 * g + 1)
  <2>1. PICK n \in Node : 3 * g + 1 = 3 * Far(n, m)
    BY <1>5 DEF AtPipe
  <2>2. Far(n, m) \in Nat
    BY FarFacts
  <2>3. QED
    BY <1>1, <2>1, <2>2, Thirds
<1>6. CASE AtReg(I, m, 3 * g + 1, 2)
  <2>1. PICK f \in Edge : 3 * g + 1 = 3 * Far(f[2], m) + 2
    BY <1>6 DEF AtReg
  <2>2. Far(f[2], m) \in Nat
    BY EdgeFacts, FarFacts
  <2>3. QED
    BY <1>1, <2>1, <2>2, Thirds
<1>7. QED
  BY <1>3, <1>4, <1>5, <1>6 DEF Stands, g, y

\* Packets that come one place nearer keep the order, if none passes an older one.
LEMMA OrderKept ==
  ASSUME NEW W \in SUBSET (Packet \X Nat), NEW V \in SUBSET (Packet \X Nat),
         NEW M \in SUBSET W, Ordered(W),
         \A x \in V : x \in W \/ <<x[1], x[2] + 1>> \in M,
         \A x \in W, y \in M : Alike(x[1], y[1]) /\ Before(x[1], y[1]) => x[2] # y[2]
  PROVE  Ordered(V)
<1> SUFFICES ASSUME NEW x \in V, NEW y \in V, Alike(x[1], y[1]), Before(x[1], y[1])
             PROVE  x[2] <= y[2]
  BY DEF Ordered
<1>1. x[2] \in Nat /\ y[2] \in Nat
  OBVIOUS
<1>2. PICK z \in W : z[1] = x[1] /\ z[2] \in Nat /\ x[2] <= z[2]
  <2>1. CASE x \in W
    BY <1>1, <2>1
  <2>2. CASE <<x[1], x[2] + 1>> \in M
    <3> DEFINE z == <<x[1], x[2] + 1>>
    <3>1. z \in W /\ z[1] = x[1] /\ z[2] = x[2] + 1
      BY <2>2
    <3> HIDE DEF z
    <3>2. z[2] \in Nat /\ x[2] <= z[2]
      BY <1>1, <3>1
    <3>3. QED
      BY <3>1, <3>2
  <2>3. QED
    BY <2>1, <2>2
<1>3. CASE y \in W
  <2>1. z[2] <= y[2]
    BY <1>2, <1>3 DEF Ordered
  <2>2. QED
    BY <1>1, <1>2, <2>1
<1>4. CASE <<y[1], y[2] + 1>> \in M
  <2> DEFINE u == <<y[1], y[2] + 1>>
  <2>1. u \in M /\ u \in W /\ u[1] = y[1] /\ u[2] = y[2] + 1
    BY <1>4
  <2> HIDE DEF u
  <2>2. z[2] <= u[2] /\ z[2] # u[2]
    BY <1>2, <2>1 DEF Ordered
  <2>3. QED
    BY <1>1, <1>2, <2>1, <2>2
<1>5. QED
  BY <1>3, <1>4
-------------------------------------------------------------------------------
(***************************************************************************)
(* The order within the places, and the invariant of the flows.            *)
(***************************************************************************)
Sorted(S) ==
  \A p \in Port, c \in Channel : \A i, j \in DOMAIN S[p][c] :
    i < j => Before(S[p][c][i], S[p][c][j])
PipeSorted(P) ==
  \A n \in Node : \A i, j \in DOMAIN P[n] : i < j =>
    /\ P[n][i].wait <= P[n][j].wait
    /\ Alike(P[n][i].packet, P[n][j].packet) => Before(P[n][i].packet, P[n][j].packet)

Flowing(S, P, I, Q) ==
  /\ Ways(S, P, I, Q)
  /\ Sorted(S) /\ PipeSorted(P)
  /\ Ordered(Ranks(S, P, I, Q))

LEMMA BeforeFacts ==
  ASSUME NEW m \in Packet, NEW k \in Packet, Before(m, k)
  PROVE  ~Before(k, m) /\ m # k
<1>1. m.id \in Nat /\ k.id \in Nat /\ m.idx \in Nat /\ k.idx \in Nat
  BY DEF Packet
<1>2. QED
  BY <1>1 DEF Before

\* Of two packets of the network one is the older.
LEMMA OneBefore ==
  ASSUME NEW A \in SUBSET Packet, Consistent(A), NEW m \in A, NEW k \in A, m # k
  PROVE  Before(m, k) \/ Before(k, m)
<1>1. m.id \in Nat /\ k.id \in Nat /\ m.idx \in Nat /\ k.idx \in Nat
  BY DEF Packet
<1>2. ASSUME m.id = k.id, m.idx = k.idx PROVE FALSE
  <2>1. k = [m EXCEPT !.idx = k.idx]
    BY <1>2 DEF Consistent
  <2>2. m = [m EXCEPT !.idx = m.idx]
    BY DEF Packet
  <2>3. QED
    BY <1>2, <2>1, <2>2
<1>3. QED
  BY <1>1, <1>2 DEF Before

\* What stands somewhere is a packet of that kind of place.
LEMMA StandsFacts ==
  ASSUME NEW S, NEW P, NEW I, NEW Q, Types(S, P, I, Q), NEW m, NEW r, Stands(S, P, I, Q, m, r)
  PROVE  /\ m \in Packet /\ r \in Nat
         /\ m \in Packets(S) \cup Pipes(P) \cup Regs(I) \cup Regs(Q)
<1>0. BufType(S) /\ PipeType(P) /\ RegType(I) /\ RegType(Q)
  BY DEF Types
<1>1. CASE AtSend(S, m, r)
  <2>1. PICK p \in Port, c \in Channel :
          \E i \in DOMAIN S[p][c] : m = S[p][c][i] /\ r = 3 * Far(NodeOf[p], m) + 1
    BY <1>1 DEF AtSend
  <2>2. m \in Packet /\ m \in Packets(S)
    BY <1>0, <2>1, PacketsFacts
  <2>3. Far(NodeOf[p], m) \in Nat
    BY <2>2, FarFacts, PortFacts
  <2>4. QED
    BY <2>1, <2>2, <2>3
<1>2. CASE AtPipe(P, m, r)
  <2>1. PICK n \in Node : \E i \in DOMAIN P[n] : m = P[n][i].packet /\ r = 3 * Far(n, m)
    BY <1>2 DEF AtPipe
  <2>2. m \in Packet /\ m \in Pipes(P)
    BY <1>0, <2>1, PipesFacts
  <2>3. Far(n, m) \in Nat
    BY <2>2, FarFacts
  <2>4. QED
    BY <2>1, <2>2, <2>3
<1>3. ASSUME NEW X, RegType(X), NEW k \in Nat, AtReg(X, m, r, k)
      PROVE  m \in Packet /\ m \in Regs(X) /\ r \in Nat
  <2>1. PICK e \in Edge, c \in Channel :
          X[e][c] # NoPacket /\ m = X[e][c] /\ r = 3 * Far(e[2], m) + k
    BY <1>3 DEF AtReg
  <2>2. m \in Packet /\ m \in Regs(X)
    BY <1>3, <2>1, RegsFacts
  <2>3. Far(e[2], m) \in Nat
    BY <2>2, EdgeFacts, FarFacts
  <2>4. QED
    BY <2>1, <2>2, <2>3
<1>4. QED
  BY <1>0, <1>1, <1>2, <1>3 DEF Stands

\* No packet has more left than at its source.
LEMMA TopRank ==
  ASSUME NEW S, NEW P, NEW I, NEW Q, Types(S, P, I, Q), Ways(S, P, I, Q),
         NEW m, NEW r, Stands(S, P, I, Q, m, r)
  PROVE  r <= 3 * Far(NodeOf[m.src], m) + 1
<1> DEFINE s == Far(NodeOf[m.src], m)
<1>1. m \in Packet
  BY StandsFacts
<1>2. s \in Nat
  BY <1>1, EndFacts, FarFacts
<1>3. \A n : OnWay(n, m) => Far(n, m) \in Nat /\ Far(n, m) <= s
  <2>1. ASSUME NEW n, OnWay(n, m) PROVE Far(n, m) \in Nat /\ (Far(n, m) = s \/ Far(n, m) < s)
    BY <1>1, <2>1, WayFacts, FarFacts
  <2> HIDE DEF s
  <2>2. QED
    BY <1>2, <2>1
<1> HIDE DEF s
<1>4. CASE AtSend(S, m, r)
  <2>1. PICK p \in Port, c \in Channel :
          \E i \in DOMAIN S[p][c] : m = S[p][c][i] /\ r = 3 * Far(NodeOf[p], m) + 1
    BY <1>4 DEF AtSend
  <2>2. m.src = p
    BY <2>1 DEF Ways, SendWay
  <2>3. QED
    BY <1>2, <2>1, <2>2 DEF s
<1>5. CASE AtPipe(P, m, r)
  <2>1. PICK n \in Node : \E i \in DOMAIN P[n] : m = P[n][i].packet /\ r = 3 * Far(n, m)
    BY <1>5 DEF AtPipe
  <2>2. Far(n, m) \in Nat /\ Far(n, m) <= s
    BY <1>3, <2>1 DEF Ways, PipeWay
  <2>3. 3 * Far(n, m) <= 3 * s + 1
    BY <1>2, <2>2
  <2>4. QED
    BY <2>1, <2>3 DEF s
<1>6. ASSUME NEW X, RegType(X), RegWay(X), NEW k \in 1 .. 2, AtReg(X, m, r, k)
      PROVE  r <= 3 * s + 1
  <2>1. PICK e \in Edge, c \in Channel :
          X[e][c] # NoPacket /\ m = X[e][c] /\ r = 3 * Far(e[2], m) + k
    BY <1>6 DEF AtReg
  <2>2. OnWay(e[2], m) /\ Far(e[2], m) # s
    BY <1>6, <2>1, RegFacts DEF s
  <2> DEFINE f == Far(e[2], m)
  <2>3. f \in Nat /\ f <= s /\ f # s
    BY <1>3, <2>2
  <2> HIDE DEF f
  <2>4. 3 * f + k <= 3 * s + 1
    BY <1>2, <2>3
  <2>5. QED
    BY <2>1, <2>4 DEF f
<1>7. CASE AtReg(I, m, r, 2) \/ AtReg(Q, m, r, 1)
  <2>1. RegType(I) /\ RegWay(I) /\ RegType(Q) /\ RegWay(Q)
    BY DEF Types, Ways
  <2>2. 1 \in 1 .. 2 /\ 2 \in 1 .. 2
    OBVIOUS
  <2>3. r <= 3 * s + 1
    BY <1>6, <1>7, <2>1, <2>2
  <2>4. QED
    BY <2>3 DEF s
<1>8. QED
  BY <1>4, <1>5, <1>7 DEF Stands
-------------------------------------------------------------------------------
(***************************************************************************)
(* A cycle, the intake: packets come from send buffers and output registers*)
(* into pipelines or to their ports.                                       *)
(***************************************************************************)
Now == Flowing(sendBuf, pipeline, input, output)

LEMMA TypesNow ==
  ASSUME TypeOK PROVE Types(sendBuf, pipeline, input, output)
BY DEF TypeOK, Types, BufType, PipeType, RegType

\* A packet taken is on its way, where a buffer or a register says it is.
LEMMA TakenStands ==
  ASSUME TypeOK, Now, NEW n \in Node, Took[n].taken
  PROVE  LET k == Took[n].packet IN
         /\ k \in Packet /\ OnWay(n, k)
         /\ Stands(sendBuf, pipeline, input, output, k, 3 * Far(n, k) + 1)
<1> DEFINE k == Took[n].packet
<1>1. k \in Packet /\ (FromEdge(n, Took[n]) \/ FromPort(n, Took[n]))
  BY TookFacts
<1>2. SendWay(sendBuf) /\ RegWay(output) /\ RegType(output)
  BY TypesNow DEF Now, Flowing, Ways, Types
<1>3. CASE FromPort(n, Took[n])
  <2>1. PICK p \in Port, c \in Channel : p = Took[n].place /\ c = Took[n].channel /\ NodeOf[p] = n
    BY <1>3 DEF FromPort
  <2>2. 1 \in DOMAIN sendBuf[p][c] /\ sendBuf[p][c][1] = k
    BY <1>3, <2>1, HeadTaken
  <2>3. k.src = p
    BY <1>2, <2>2 DEF SendWay
  <2> HIDE DEF k
  <2>4. OnWay(n, k)
    BY <1>1, <2>1, <2>3, WayFacts
  <2>5. AtSend(sendBuf, k, 3 * Far(n, k) + 1)
    BY <2>1, <2>2 DEF AtSend
  <2>6. QED
    BY <1>1, <2>4, <2>5 DEF k, Stands
<1>4. CASE FromEdge(n, Took[n])
  <2>1. PICK e \in Edge, c \in Channel : e[2] = n /\ k = output[e][c] /\ k # NoPacket
    BY <1>4 DEF FromEdge
  <2> HIDE DEF k
  <2>2. OnWay(n, k)
    BY <1>2, <2>1, RegFacts
  <2>3. AtReg(output, k, 3 * Far(n, k) + 1, 1)
    BY <2>1 DEF AtReg
  <2>4. QED
    BY <1>1, <2>2, <2>3 DEF k, Stands
<1>5. QED
  BY <1>1, <1>3, <1>4

\* It is the oldest of its flow that has as much left.
LEMMA TakenFirst ==
  ASSUME TypeOK, Now, NEW n \in Node, Took[n].taken,
         NEW m \in Packet, Alike(m, Took[n].packet), Before(m, Took[n].packet)
  PROVE  ~Stands(sendBuf, pipeline, input, output, m, 3 * Far(n, Took[n].packet) + 1)
<1> DEFINE k == Took[n].packet
<1> SUFFICES ASSUME Stands(sendBuf, pipeline, input, output, m, 3 * Far(n, k) + 1) PROVE FALSE
  OBVIOUS
<1>1. k \in Packet /\ (FromEdge(n, Took[n]) \/ FromPort(n, Took[n]))
  BY TookFacts
<1>2. /\ Types(sendBuf, pipeline, input, output)
      /\ Ways(sendBuf, pipeline, input, output) /\ Sorted(sendBuf)
  BY TypesNow DEF Now, Flowing
<1>3. ~Before(k, m) /\ m # k
  BY <1>1, BeforeFacts
<1>4. CASE FromPort(n, Took[n])
  <2>1. PICK p \in Port, c \in Channel : p = Took[n].place /\ c = Took[n].channel /\ NodeOf[p] = n
    BY <1>4 DEF FromPort
  <2>2. 1 \in DOMAIN sendBuf[p][c] /\ sendBuf[p][c][1] = k
    BY <1>4, <2>1, HeadTaken
  <2> HIDE DEF k
  <2>3. PICK j \in DOMAIN sendBuf[p][c] : m = sendBuf[p][c][j]
    <3>1. Alike(m, sendBuf[p][c][1])
      BY <2>2 DEF k
    <3>2. Stands(sendBuf, pipeline, input, output, m, 3 * Far(NodeOf[p], sendBuf[p][c][1]) + 1)
      BY <2>1, <2>2
    <3>3. QED
      BY <1>2, <2>2, <3>1, <3>2, SameSend
  <2>4. 1 < j
    <3>1. sendBuf[p][c] \in Seq(Packet)
      BY DEF TypeOK
    <3>2. j \in 1 .. Len(sendBuf[p][c])
      BY <3>1, LenProperties
    <3>3. j # 1
      BY <1>3, <2>2, <2>3
    <3>4. QED
      BY <3>2, <3>3
  <2>5. Before(k, m)
    BY <1>2, <2>2, <2>3, <2>4 DEF Sorted
  <2>6. QED
    BY <1>3, <2>5
<1>5. CASE FromEdge(n, Took[n])
  <2>1. PICK e \in Edge, c \in Channel : e[2] = n /\ k = output[e][c] /\ k # NoPacket
    BY <1>5 DEF FromEdge
  <2>2. m = output[e][c]
    <3>1. Alike(m, output[e][c])
      BY <2>1
    <3> HIDE DEF k
    <3>2. Stands(sendBuf, pipeline, input, output, m, 3 * Far(e[2], output[e][c]) + 1)
      BY <2>1
    <3>3. QED
      BY <1>2, <2>1, <3>1, <3>2, SameOutput
  <2>3. QED
    BY <1>3, <2>1, <2>2
<1>6. QED
  BY <1>1, <1>4, <1>5

\* What is left of the send buffers and the output registers.
LEMMA RestSame ==
  ASSUME TypeOK, Now
  PROVE  /\ SendWay(Rest) /\ Sorted(Rest) /\ RegWay(Out)
         /\ \A m, r : AtSend(Rest, m, r) => AtSend(sendBuf, m, r)
         /\ \A m, r : AtReg(Out, m, r, 1) => AtReg(output, m, r, 1)
<1> DEFINE At(p, c, i) == IF TakenFrom(Took[NodeOf[p]], "port", p, c) THEN i + 1 ELSE i
<1>1. ASSUME NEW p \in Port, NEW c \in Channel, NEW i \in DOMAIN Rest[p][c]
      PROVE  /\ At(p, c, i) \in DOMAIN sendBuf[p][c]
             /\ Rest[p][c][i] = sendBuf[p][c][At(p, c, i)]
             /\ i \in Nat
  <2>1. Rest[p][c] \in Seq(Packet)
    BY RestPlaces
  <2>2. i \in Nat
    BY <2>1, LenProperties
  <2>3. QED
    BY <2>2, RestPlaces
<1>2. ASSUME NEW p \in Port, NEW c \in Channel, NEW i \in DOMAIN Rest[p][c],
             NEW j \in DOMAIN Rest[p][c], i < j
      PROVE  At(p, c, i) < At(p, c, j)
  BY <1>1, <1>2
<1> HIDE DEF At
<1>3. SendWay(Rest)
  BY <1>1 DEF Now, Flowing, Ways, SendWay
<1>4. Sorted(Rest)
  BY <1>1, <1>2 DEF Now, Flowing, Sorted
<1>5. \A m, r : AtSend(Rest, m, r) => AtSend(sendBuf, m, r)
  BY <1>1 DEF AtSend
<1>6. \A e \in Edge, c \in Channel : Out[e][c] # NoPacket => Out[e][c] = output[e][c]
  BY DEF Out
<1>7. RegWay(Out)
  BY <1>6 DEF Now, Flowing, Ways, RegWay
<1>8. \A m, r : AtReg(Out, m, r, 1) => AtReg(output, m, r, 1)
  <2> SUFFICES ASSUME NEW m, NEW r, AtReg(Out, m, r, 1) PROVE AtReg(output, m, r, 1)
    OBVIOUS
  <2>1. PICK e \in Edge, c \in Channel :
          Out[e][c] # NoPacket /\ m = Out[e][c] /\ r = 3 * Far(e[2], m) + 1
    BY DEF AtReg
  <2>2. output[e][c] # NoPacket /\ m = output[e][c]
    BY <1>6, <2>1
  <2>3. QED
    BY <2>1, <2>2 DEF AtReg
<1>9. QED
  BY <1>3, <1>4, <1>5, <1>7, <1>8
\* A packet admitted to a pipeline comes behind the others of its flow.
LEMMA QueueFlow ==
  ASSUME IInv, Now
  PROVE  /\ PipeWay(Queue) /\ PipeSorted(Queue)
         /\ \A m, r : AtPipe(Queue, m, r) =>
              \/ AtPipe(pipeline, m, r)
              \/ \E n \in Node :
                   Forwards(n, Took[n]) /\ m = Took[n].packet /\ r = 3 * Far(n, m)
<1>1. TypeOK /\ Separate /\ Consistent(Everything) /\ Everything \in SUBSET Packet
  BY EverythingType DEF IInv
<1>2. ASSUME NEW n \in Node, NEW i \in DOMAIN Queue[n]
      PROVE  \/ i \in DOMAIN pipeline[n] /\ Queue[n][i] = pipeline[n][i]
             \/ /\ Forwards(n, Took[n]) /\ i = Len(pipeline[n]) + 1
                /\ Queue[n][i].packet = Took[n].packet /\ Queue[n][i].wait = RouteLatency
  BY <1>1, AdmitFacts
<1>3. PipeWay(Queue)
  <2> SUFFICES ASSUME NEW n \in Node, NEW i \in DOMAIN Queue[n] PROVE OnWay(n, Queue[n][i].packet)
    BY DEF PipeWay
  <2>1. CASE i \in DOMAIN pipeline[n] /\ Queue[n][i] = pipeline[n][i]
    BY <2>1 DEF Now, Flowing, Ways, PipeWay
  <2>2. CASE Forwards(n, Took[n]) /\ Queue[n][i].packet = Took[n].packet
    BY <1>1, <2>2, TakenStands DEF Forwards
  <2>3. QED
    BY <1>2, <2>1, <2>2
<1>4. ASSUME NEW n \in Node, NEW i \in DOMAIN pipeline[n], Forwards(n, Took[n]),
             Alike(pipeline[n][i].packet, Took[n].packet)
      PROVE  Before(pipeline[n][i].packet, Took[n].packet)
  <2> DEFINE m == pipeline[n][i].packet
             k == Took[n].packet
             s == 3 * Far(n, k)
  <2>1. Took[n].taken
    BY <1>4 DEF Forwards
  <2>2. /\ k \in Packet /\ k \in Everything /\ k \in Packets(sendBuf) \cup Regs(output)
        /\ Stands(sendBuf, pipeline, input, output, k, s + 1)
    BY <1>1, <2>1, TakenHeld, TakenStands
  <2>3. m \in Pipes(pipeline) /\ m \in Packet
    <3>1. PipeType(pipeline)
      BY <1>1, TypesNow DEF Types
    <3>2. QED
      BY <1>4, <3>1, PipesFacts
  <2>4. m \in Everything /\ m # k
    BY <1>1, <2>2, <2>3 DEF Everything, All, Separate, Apart, Disjoint
  <2>5. s \in Nat
    BY <2>2, FarFacts
  <2>6. Far(n, m) = Far(n, k)
    BY <1>4, AlikeFacts
  <2>7. AtPipe(pipeline, m, s)
    <3>1. m = pipeline[n][i].packet /\ s = 3 * Far(n, m)
      BY <2>6
    <3> HIDE DEF m, k, s
    <3>2. QED
      BY <1>4, <3>1 DEF AtPipe
  <2>8. Alike(k, m)
    BY <1>4 DEF Alike
  <2> HIDE DEF m, k, s
  <2>9. ~Before(k, m)
    <3> SUFFICES ASSUME Before(k, m) PROVE FALSE
      OBVIOUS
    <3> DEFINE W == Ranks(sendBuf, pipeline, input, output)
    <3>1. <<k, s + 1>> \in W /\ <<m, s>> \in W
      BY <2>2, <2>3, <2>5, <2>7 DEF Ranks, Stands
    <3>2. Ordered(W)
      BY DEF Now, Flowing
    <3> HIDE DEF W
    <3>3. s + 1 <= s
      BY <2>8, <3>1, <3>2 DEF Ordered
    <3>4. QED
      BY <2>5, <3>3
  <2>10. Before(m, k)
    BY <1>1, <2>2, <2>4, <2>9, OneBefore
  <2>11. QED
    BY <2>10 DEF m, k
<1>5. PipeSorted(Queue)
  <2> SUFFICES ASSUME NEW n \in Node, NEW i \in DOMAIN Queue[n], NEW j \in DOMAIN Queue[n], i < j
               PROVE  /\ Queue[n][i].wait <= Queue[n][j].wait
                      /\ Alike(Queue[n][i].packet, Queue[n][j].packet) =>
                           Before(Queue[n][i].packet, Queue[n][j].packet)
    BY DEF PipeSorted
  <2>1. /\ pipeline[n] \in Seq([packet : Packet, wait : 0 .. RouteLatency])
        /\ Len(Queue[n]) \in Nat /\ DOMAIN Queue[n] = 1 .. Len(Queue[n])
        /\ Forwards(n, Took[n]) => Len(Queue[n]) = Len(pipeline[n]) + 1
    BY <1>1, AdmitFacts
  <2>2. CASE j \in DOMAIN pipeline[n] /\ Queue[n][j] = pipeline[n][j]
    <3>1. DOMAIN pipeline[n] = 1 .. Len(pipeline[n]) /\ Len(pipeline[n]) \in Nat
      BY <2>1, LenProperties
    <3>2. i \in DOMAIN pipeline[n] /\ i # Len(pipeline[n]) + 1
      BY <2>1, <2>2, <3>1
    <3>3. Queue[n][i] = pipeline[n][i]
      BY <1>2, <3>2
    <3>4. QED
      BY <2>2, <3>2, <3>3 DEF Now, Flowing, PipeSorted
  <2>3. CASE /\ Forwards(n, Took[n]) /\ j = Len(pipeline[n]) + 1
             /\ Queue[n][j].packet = Took[n].packet /\ Queue[n][j].wait = RouteLatency
    <3>1. i # Len(pipeline[n]) + 1
      BY <2>1, <2>3
    <3>2. i \in DOMAIN pipeline[n] /\ Queue[n][i] = pipeline[n][i]
      BY <1>2, <3>1
    <3>3. Queue[n][i].wait <= RouteLatency
      <4>1. pipeline[n][i] \in [packet : Packet, wait : 0 .. RouteLatency]
        BY <1>1, <3>2, TypesNow, PipesFacts DEF Types
      <4>2. pipeline[n][i].wait \in 0 .. RouteLatency
        BY <4>1
      <4>3. QED
        BY <3>2, <4>2
    <3>4. QED
      BY <1>4, <2>3, <3>2, <3>3
  <2>4. QED
    BY <1>2, <2>2, <2>3
<1>6. ASSUME NEW m, NEW r, AtPipe(Queue, m, r)
      PROVE  \/ AtPipe(pipeline, m, r)
             \/ \E n \in Node : Forwards(n, Took[n]) /\ m = Took[n].packet /\ r = 3 * Far(n, m)
  <2>1. PICK n \in Node : \E i \in DOMAIN Queue[n] : m = Queue[n][i].packet /\ r = 3 * Far(n, m)
    BY <1>6 DEF AtPipe
  <2>2. PICK i \in DOMAIN Queue[n] : m = Queue[n][i].packet
    BY <2>1
  <2>3. CASE i \in DOMAIN pipeline[n] /\ Queue[n][i] = pipeline[n][i]
    BY <2>1, <2>2, <2>3 DEF AtPipe
  <2>4. CASE Forwards(n, Took[n]) /\ Queue[n][i].packet = Took[n].packet
    BY <2>1, <2>2, <2>4
  <2>5. QED
    BY <1>2, <2>3, <2>4
<1>7. QED
  BY <1>3, <1>5, <1>6

LEMMA TypesMid ==
  ASSUME IInv PROVE Types(Rest, Queue, input, Out) /\ Onward(Queue) /\ PipeApart(Queue)
<1>1. TypeOK /\ Separate /\ Onward(pipeline)
  BY DEF IInv
<1>2. BufApart(sendBuf) /\ RegApart(output) /\ Packets(sendBuf) \cap Regs(output) = {}
  BY <1>1 DEF Separate, Apart, Disjoint
<1>3. RegType(input)
  BY <1>1, TypesNow DEF Types
<1>4. QED
  BY <1>1, <1>2, <1>3, RestFacts, OutFacts, QueueFacts DEF Types

LEMMA Intake ==
  ASSUME IInv, Now
  PROVE  Flowing(Rest, Queue, input, Out)
<1> DEFINE W == Ranks(sendBuf, pipeline, input, output)
           V == Ranks(Rest, Queue, input, Out)
           K(n) == <<Took[n].packet, 3 * Far(n, Took[n].packet) + 1>>
           M == {K(n) : n \in {x \in Node : Forwards(x, Took[x])}}
<1>1. TypeOK /\ Ordered(W) /\ RegWay(input)
  BY DEF IInv, Now, Flowing, Ways
<1>2. W \in SUBSET (Packet \X Nat) /\ V \in SUBSET (Packet \X Nat)
  BY DEF Ranks
<1>3. \A n \in Node : Forwards(n, Took[n]) =>
        /\ Took[n].taken /\ Took[n].packet \in Packet /\ 3 * Far(n, Took[n].packet) + 1 \in Nat
        /\ Stands(sendBuf, pipeline, input, output, Took[n].packet,
                  3 * Far(n, Took[n].packet) + 1)
  <2> SUFFICES ASSUME NEW n \in Node, Forwards(n, Took[n])
               PROVE  /\ Took[n].taken /\ Took[n].packet \in Packet
                      /\ 3 * Far(n, Took[n].packet) + 1 \in Nat
                      /\ Stands(sendBuf, pipeline, input, output, Took[n].packet,
                                3 * Far(n, Took[n].packet) + 1)
    OBVIOUS
  <2>1. Took[n].taken
    BY DEF Forwards
  <2>2. /\ Took[n].packet \in Packet
        /\ Stands(sendBuf, pipeline, input, output, Took[n].packet,
                  3 * Far(n, Took[n].packet) + 1)
    BY <1>1, <2>1, TakenStands
  <2>3. Far(n, Took[n].packet) \in Nat
    BY <2>2, FarFacts
  <2>4. QED
    BY <2>1, <2>2, <2>3
<1>4. M \in SUBSET W
  BY <1>3 DEF Ranks
<1>5. ASSUME NEW x \in V PROVE x \in W \/ <<x[1], x[2] + 1>> \in M
  <2>1. /\ x[1] \in Packet /\ x[2] \in Nat /\ x = <<x[1], x[2]>>
        /\ Stands(Rest, Queue, input, Out, x[1], x[2])
    BY DEF Ranks
  <2>2. CASE Stands(sendBuf, pipeline, input, output, x[1], x[2])
    BY <2>1, <2>2 DEF Ranks
  <2>3. CASE \E n \in Node : /\ Forwards(n, Took[n])
                             /\ x[1] = Took[n].packet /\ x[2] = 3 * Far(n, x[1])
    BY <2>3
  <2>4. QED
    BY <1>1, <2>1, <2>2, <2>3, RestSame, QueueFlow DEF Stands
<1>6. ASSUME NEW x \in W, NEW y \in M, Alike(x[1], y[1]), Before(x[1], y[1])
      PROVE  x[2] # y[2]
  <2>1. PICK n \in Node : Forwards(n, Took[n]) /\ y = K(n)
    BY <1>6
  <2>2. y[1] = Took[n].packet /\ y[2] = 3 * Far(n, Took[n].packet) + 1 /\ Took[n].taken
    BY <1>3, <2>1
  <2>3. x[1] \in Packet /\ Stands(sendBuf, pipeline, input, output, x[1], x[2])
    BY DEF Ranks
  <2>4. Alike(x[1], Took[n].packet) /\ Before(x[1], Took[n].packet)
    BY <1>6, <2>2
  <2>5. ~Stands(sendBuf, pipeline, input, output, x[1], 3 * Far(n, Took[n].packet) + 1)
    BY <1>1, <2>2, <2>3, <2>4, TakenFirst
  <2>6. QED
    BY <2>2, <2>3, <2>5
<1> HIDE DEF W, V, M
<1>7. Ordered(V)
  <2>1. \A x \in V : x \in W \/ <<x[1], x[2] + 1>> \in M
    BY <1>5
  <2>2. \A x \in W, y \in M : Alike(x[1], y[1]) /\ Before(x[1], y[1]) => x[2] # y[2]
    BY <1>6
  <2>3. QED
    BY <1>1, <1>2, <1>4, <2>1, <2>2, OrderKept
<1>8. QED
  BY <1>1, <1>7, RestSame, QueueFlow DEF Flowing, Ways, V
-------------------------------------------------------------------------------
(***************************************************************************)
(* A cycle, the release: packets leave the pipelines for input registers.  *)
(***************************************************************************)

\* What stays in a pipeline stays in its order.
LEMMA KeptFlow ==
  ASSUME TypeOK, PipeType(Queue), Onward(Queue), PipeWay(Queue), PipeSorted(Queue)
  PROVE  /\ PipeWay(Kept) /\ PipeSorted(Kept)
         /\ \A m, r : AtPipe(Kept, m, r) => AtPipe(Queue, m, r)
<1> DEFINE a(n) == Ascending(DOMAIN Queue[n] \ Gone[n])
<1>1. ASSUME NEW n \in Node PROVE Stays(Queue[n], Gone[n], Kept[n], a(n))
  <2>1. Queue[n] \in Seq([packet : Packet, wait : 0 .. RouteLatency])
    BY DEF PipeType
  <2>2. Gone[n] \in SUBSET DOMAIN Queue[n]
    BY GoneFacts
  <2>3. Kept[n] = Keep(Queue[n], Gone[n])
    BY DEF Kept
  <2>4. QED
    BY <2>1, <2>2, <2>3, KeepFacts
<1>2. ASSUME NEW n \in Node, NEW i \in DOMAIN Kept[n]
      PROVE  /\ a(n)[i] \in DOMAIN Queue[n] /\ Kept[n][i].packet = Queue[n][a(n)[i]].packet
             /\ Kept[n][i].wait = Waited(Queue[n][a(n)[i]].wait)
  BY <1>1 DEF Stays
<1>3. ASSUME NEW n \in Node, NEW i \in DOMAIN Kept[n], NEW j \in DOMAIN Kept[n], i < j
      PROVE  a(n)[i] < a(n)[j]
  BY <1>1, <1>3 DEF Stays
<1> HIDE DEF a
<1>4. PipeWay(Kept)
  BY <1>2 DEF PipeWay
<1>5. PipeSorted(Kept)
  <2> SUFFICES ASSUME NEW n \in Node, NEW i \in DOMAIN Kept[n], NEW j \in DOMAIN Kept[n], i < j
               PROVE  /\ Kept[n][i].wait <= Kept[n][j].wait
                      /\ Alike(Kept[n][i].packet, Kept[n][j].packet) =>
                           Before(Kept[n][i].packet, Kept[n][j].packet)
    BY DEF PipeSorted
  <2>1. PICK x \in DOMAIN Queue[n] : /\ x = a(n)[i] /\ Kept[n][i].packet = Queue[n][x].packet
                                     /\ Kept[n][i].wait = Waited(Queue[n][x].wait)
    BY <1>2
  <2>2. PICK y \in DOMAIN Queue[n] : /\ y = a(n)[j] /\ Kept[n][j].packet = Queue[n][y].packet
                                     /\ Kept[n][j].wait = Waited(Queue[n][y].wait)
    BY <1>2
  <2>3. x < y
    BY <1>3, <2>1, <2>2
  <2>4. /\ Queue[n][x].wait <= Queue[n][y].wait
        /\ Alike(Queue[n][x].packet, Queue[n][y].packet) =>
             Before(Queue[n][x].packet, Queue[n][y].packet)
    BY <2>3 DEF PipeSorted
  <2>5. \A v, w \in 0 .. RouteLatency : v <= w => Waited(v) <= Waited(w)
    BY ConfigAssumption DEF Waited
  <2>6. Queue[n][x].wait \in 0 .. RouteLatency /\ Queue[n][y].wait \in 0 .. RouteLatency
    BY PipesFacts
  <2>7. Waited(Queue[n][x].wait) <= Waited(Queue[n][y].wait)
    BY <2>4, <2>5, <2>6
  <2>8. QED
    BY <2>1, <2>2, <2>4, <2>7
<1>6. \A m, r : AtPipe(Kept, m, r) => AtPipe(Queue, m, r)
  BY <1>2 DEF AtPipe
<1>7. QED
  BY <1>4, <1>5, <1>6

\* A packet that leaves has one hop less to go, along its way.
LEMMA InFlow ==
  ASSUME TypeOK, PipeType(Queue), Onward(Queue), PipeWay(Queue), RegWay(input)
  PROVE  /\ RegWay(In)
         /\ \A m, r : AtReg(In, m, r, 2) =>
              \/ AtReg(input, m, r, 2)
              \/ \E n \in Node : \E i \in Gone[n] :
                   m = Queue[n][i].packet /\ r + 1 = 3 * Far(n, m)
<1> DEFINE Came(e, c) ==
             /\ e[1] \in Node
             /\ \E i \in Gone[e[1]] : /\ i \in DOMAIN Queue[e[1]]
                                      /\ In[e][c] = Queue[e[1]][i].packet
             /\ In[e][c].channel = c /\ OnWay(e[1], In[e][c]) /\ e[1] # Target(In[e][c])
             /\ e[2] = Onto(e[1], In[e][c])
             /\ 3 * Far(e[2], In[e][c]) + 2 + 1 = 3 * Far(e[1], In[e][c])
<1>1. ASSUME NEW e \in Edge, NEW c \in Channel
      PROVE  In[e][c] = input[e][c] \/ Came(e, c)
  <2> SUFFICES ASSUME In[e][c] # input[e][c] PROVE Came(e, c)
    OBVIOUS
  <2>1. PICK i \in Gone[e[1]] :
          /\ i \in DOMAIN Queue[e[1]]
          /\ Exit(e[1], Queue[e[1]][i].packet) = [edge |-> e, channel |-> c]
          /\ In[e][c] = Queue[e[1]][i].packet
    BY FillFacts
  <2> DEFINE m == In[e][c]
  <2>2. e[1] \in Node /\ e[2] \in Node /\ e = <<e[1], e[2]>>
    BY EdgeFacts
  <2>3. m \in Packet /\ ~Local(e[1], m) /\ OnWay(e[1], m)
    BY <2>1, <2>2, PipesFacts DEF Onward, PipeWay
  <2>4. m.channel = c /\ e = <<e[1], Onto(e[1], m)>>
    BY <2>1 DEF Exit, Onto, Target
  <2>5. e[1] # Target(m)
    BY <2>3 DEF Local, Target
  <2> HIDE DEF m
  <2>6. e[2] = Onto(e[1], m)
    BY <2>4
  <2>7. Far(e[1], m) \in Nat /\ Far(e[2], m) = Far(e[1], m) - 1
    BY <2>2, <2>3, <2>5, <2>6, FarFacts
  <2>8. 3 * Far(e[2], m) + 2 + 1 = 3 * Far(e[1], m)
    BY <2>7
  <2>9. QED
    BY <2>1, <2>2, <2>3, <2>4, <2>5, <2>6, <2>8 DEF m
<1>2. RegWay(In)
  <2> SUFFICES ASSUME NEW e \in Edge, NEW c \in Channel, In[e][c] # NoPacket
               PROVE  /\ In[e][c].channel = c /\ OnWay(e[1], In[e][c]) /\ e[1] # Target(In[e][c])
                      /\ e[2] = Onto(e[1], In[e][c])
    BY DEF RegWay
  <2>1. CASE In[e][c] = input[e][c]
    BY <2>1 DEF RegWay
  <2>2. CASE Came(e, c)
    BY <2>2
  <2>3. QED
    BY <1>1, <2>1, <2>2
<1>3. ASSUME NEW m, NEW r, AtReg(In, m, r, 2)
      PROVE  \/ AtReg(input, m, r, 2)
             \/ \E n \in Node : \E i \in Gone[n] :
                  m = Queue[n][i].packet /\ r + 1 = 3 * Far(n, m)
  <2>1. PICK e \in Edge, c \in Channel :
          In[e][c] # NoPacket /\ m = In[e][c] /\ r = 3 * Far(e[2], m) + 2
    BY <1>3 DEF AtReg
  <2>2. CASE In[e][c] = input[e][c]
    BY <2>1, <2>2 DEF AtReg
  <2>3. CASE Came(e, c)
    BY <2>1, <2>3
  <2>4. QED
    BY <1>1, <2>2, <2>3
<1>4. QED
  BY <1>2, <1>3

\* It is the oldest of its flow in the pipeline.
LEMMA GoneFirst ==
  ASSUME IInv, Flowing(Rest, Queue, input, Out), NEW n \in Node, NEW i \in Gone[n],
         NEW m \in Packet, Alike(m, Queue[n][i].packet), Before(m, Queue[n][i].packet)
  PROVE  ~Stands(Rest, Queue, input, Out, m, 3 * Far(n, Queue[n][i].packet))
<1> DEFINE k == Queue[n][i].packet
<1> SUFFICES ASSUME Stands(Rest, Queue, input, Out, m, 3 * Far(n, k)) PROVE FALSE
  OBVIOUS
<1>1. TypeOK /\ Types(Rest, Queue, input, Out) /\ Onward(Queue) /\ PipeType(Queue)
  BY TypesMid DEF IInv, Types
<1>2. Ways(Rest, Queue, input, Out) /\ PipeSorted(Queue)
  BY DEF Flowing
<1>3. /\ i \in DOMAIN Queue[n] /\ Queue[n][i].wait = 0
      /\ \A j \in 1 .. i - 1 : Queue[n][j].wait = 0 =>
           Exit(n, Queue[n][j].packet) # Exit(n, Queue[n][i].packet)
  BY <1>1, GoneFacts
<1>4. k \in Packet
  BY <1>1, <1>3, PipesFacts
<1>5. ~Before(k, m) /\ m # k
  BY <1>4, BeforeFacts
<1>6. PICK j \in DOMAIN Queue[n] : m = Queue[n][j].packet
  BY <1>1, <1>2, <1>3, SamePipe
<1>7. j \in Nat /\ i \in Nat /\ j >= 1
  <2>1. Queue[n] \in Seq([packet : Packet, wait : 0 .. RouteLatency])
    BY <1>1 DEF PipeType
  <2>2. DOMAIN Queue[n] = 1 .. Len(Queue[n])
    BY <2>1, LenProperties
  <2>3. QED
    BY <1>3, <2>2
<1>8. ~(i < j) /\ i # j
  <2>1. Alike(k, m)
    BY DEF Alike
  <2>2. QED
    BY <1>2, <1>3, <1>5, <1>6, <2>1 DEF PipeSorted
<1>9. j < i /\ j \in 1 .. i - 1
  BY <1>7, <1>8
<1>10. Queue[n][j].wait = 0
  <2>1. Queue[n][j].wait <= 0
    BY <1>2, <1>3, <1>9 DEF PipeSorted
  <2>2. Queue[n][j].wait \in 0 .. RouteLatency
    BY <1>1, PipesFacts
  <2>3. QED
    BY <2>1, <2>2
<1>11. Exit(n, m) = Exit(n, k)
  BY DEF Exit, Alike
<1>12. QED
  BY <1>3, <1>6, <1>9, <1>10, <1>11
LEMMA TypesLate ==
  ASSUME IInv PROVE Types(Rest, Kept, In, Out) /\ Types(Rest, Kept, InNext, OutNext)
<1>1. TypeOK /\ Separate /\ Onward(pipeline) /\ Sound
  BY IInvSound DEF IInv
<1>2. BufType(Rest) /\ PipeType(Queue) /\ Onward(Queue) /\ PipeApart(Queue) /\ RegType(Out)
  BY TypesMid DEF Types
<1>3. PipeType(Kept)
  BY <1>1, <1>2, KeptFacts
<1>4. RegType(In)
  <2>1. RegType(input)
    BY <1>1, TypesNow DEF Types
  <2>2. ASSUME NEW e \in Edge, NEW c \in Channel PROVE In[e][c] \in Packet \cup {NoPacket}
    <3>1. CASE In[e][c] = input[e][c]
      BY <2>1, <3>1 DEF RegType
    <3>2. CASE /\ e[1] \in Node
               /\ \E i \in Gone[e[1]] : /\ i \in DOMAIN Queue[e[1]]
                                        /\ In[e][c] = Queue[e[1]][i].packet
      BY <1>2, <3>2, PipesFacts
    <3>3. QED
      <4>1. \/ In[e][c] = input[e][c]
            \/ /\ e[1] \in Node
               /\ \E i \in Gone[e[1]] : /\ i \in DOMAIN Queue[e[1]]
                                        /\ In[e][c] = Queue[e[1]][i].packet
        <5>1. TypeOK /\ PipeType(Queue) /\ Onward(Queue)
          BY <1>1, <1>2
        <5>2. QED
          BY <5>1, FillFacts
      <4>2. QED
        BY <3>1, <3>2, <4>1
  <2>3. In = [e \in Edge |-> [c \in Channel |-> In[e][c]]]
    BY DEF In, Fill
  <2>4. QED
    BY <2>2, <2>3 DEF RegType
<1>5. RegType(InNext) /\ RegType(OutNext)
  BY <1>1, CycleApart
<1>6. QED
  BY <1>2, <1>3, <1>4, <1>5 DEF Types

LEMMA Release ==
  ASSUME IInv, Flowing(Rest, Queue, input, Out)
  PROVE  Flowing(Rest, Kept, In, Out)
<1> DEFINE W == Ranks(Rest, Queue, input, Out)
           V == Ranks(Rest, Kept, In, Out)
           K(n, i) == <<Queue[n][i].packet, 3 * Far(n, Queue[n][i].packet)>>
           M == UNION {{K(n, i) : i \in Gone[n]} : n \in Node}
<1>1. TypeOK /\ Types(Rest, Queue, input, Out) /\ Onward(Queue) /\ PipeType(Queue)
  BY TypesMid DEF IInv, Types
<1>2. /\ SendWay(Rest) /\ PipeWay(Queue) /\ RegWay(input) /\ RegWay(Out)
      /\ Sorted(Rest) /\ PipeSorted(Queue) /\ Ordered(W)
  BY DEF Flowing, Ways
<1>3. W \in SUBSET (Packet \X Nat) /\ V \in SUBSET (Packet \X Nat)
  BY DEF Ranks
<1>4. \A n \in Node : \A i \in Gone[n] :
        /\ i \in DOMAIN Queue[n]
        /\ Queue[n][i].packet \in Packet /\ 3 * Far(n, Queue[n][i].packet) \in Nat
  <2> SUFFICES ASSUME NEW n \in Node, NEW i \in Gone[n]
               PROVE  /\ i \in DOMAIN Queue[n] /\ Queue[n][i].packet \in Packet
                      /\ 3 * Far(n, Queue[n][i].packet) \in Nat
    OBVIOUS
  <2>1. i \in DOMAIN Queue[n]
    BY <1>1, GoneFacts
  <2>2. Queue[n][i].packet \in Packet
    BY <1>1, <2>1, PipesFacts
  <2>3. Far(n, Queue[n][i].packet) \in Nat
    BY <2>2, FarFacts
  <2>4. QED
    BY <2>1, <2>2, <2>3
<1>5. M \in SUBSET W
  <2> SUFFICES ASSUME NEW n \in Node, NEW i \in Gone[n] PROVE K(n, i) \in W
    OBVIOUS
  <2>1. AtPipe(Queue, Queue[n][i].packet, 3 * Far(n, Queue[n][i].packet))
    BY <1>4 DEF AtPipe
  <2>2. QED
    BY <1>4, <2>1 DEF Ranks, Stands
<1>6. ASSUME NEW x \in V PROVE x \in W \/ <<x[1], x[2] + 1>> \in M
  <2>1. /\ x[1] \in Packet /\ x[2] \in Nat /\ x = <<x[1], x[2]>>
        /\ Stands(Rest, Kept, In, Out, x[1], x[2])
    BY DEF Ranks
  <2>2. CASE Stands(Rest, Queue, input, Out, x[1], x[2])
    BY <2>1, <2>2 DEF Ranks
  <2>3. CASE \E n \in Node : \E i \in Gone[n] :
               x[1] = Queue[n][i].packet /\ x[2] + 1 = 3 * Far(n, x[1])
    BY <2>3
  <2>4. QED
    BY <1>1, <1>2, <2>1, <2>2, <2>3, KeptFlow, InFlow DEF Stands
<1>7. ASSUME NEW x \in W, NEW y \in M, Alike(x[1], y[1]), Before(x[1], y[1])
      PROVE  x[2] # y[2]
  <2>1. PICK n \in Node : \E i \in Gone[n] : y = K(n, i)
    BY <1>7
  <2>2. PICK i \in Gone[n] : y = K(n, i)
    BY <2>1
  <2>3. y[1] = Queue[n][i].packet /\ y[2] = 3 * Far(n, Queue[n][i].packet)
    BY <2>2
  <2>4. x[1] \in Packet /\ Stands(Rest, Queue, input, Out, x[1], x[2])
    BY DEF Ranks
  <2>5. Alike(x[1], Queue[n][i].packet) /\ Before(x[1], Queue[n][i].packet)
    BY <1>7, <2>3
  <2>6. ~Stands(Rest, Queue, input, Out, x[1], 3 * Far(n, Queue[n][i].packet))
    BY <2>4, <2>5, GoneFirst
  <2>7. QED
    BY <2>3, <2>4, <2>6
<1> HIDE DEF W, V, M
<1>8. Ordered(V)
  <2>1. \A x \in V : x \in W \/ <<x[1], x[2] + 1>> \in M
    BY <1>6
  <2>2. \A x \in W, y \in M : Alike(x[1], y[1]) /\ Before(x[1], y[1]) => x[2] # y[2]
    BY <1>7
  <2>3. QED
    BY <1>2, <1>3, <1>5, <2>1, <2>2, OrderKept
<1>9. PipeWay(Kept) /\ PipeSorted(Kept) /\ RegWay(In)
  BY <1>1, <1>2, KeptFlow, InFlow
<1>10. QED
  BY <1>2, <1>8, <1>9 DEF Flowing, Ways, V

(***************************************************************************)
(* A cycle, the edges: packets move from input to output registers.        *)
(***************************************************************************)
LEMMA Crossed ==
  ASSUME IInv, Flowing(Rest, Kept, In, Out)
  PROVE  Flowing(Rest, Kept, InNext, OutNext)
<1> DEFINE W == Ranks(Rest, Kept, In, Out)
           V == Ranks(Rest, Kept, InNext, OutNext)
           K(e, c) == <<In[e][c], 3 * Far(e[2], In[e][c]) + 2>>
           M == UNION {{K(e, c) : c \in Crossing[e]} : e \in Edge}
<1>1. Types(Rest, Kept, In, Out) /\ RegType(In)
  BY TypesLate DEF Types
<1>2. /\ Ways(Rest, Kept, In, Out) /\ SendWay(Rest) /\ PipeWay(Kept) /\ RegWay(In) /\ RegWay(Out)
      /\ Sorted(Rest) /\ PipeSorted(Kept) /\ Ordered(W)
  BY DEF Flowing, Ways
<1>3. W \in SUBSET (Packet \X Nat) /\ V \in SUBSET (Packet \X Nat)
  BY DEF Ranks
<1>4. ASSUME NEW e \in Edge, NEW c \in Crossing[e]
      PROVE  /\ c \in Channel /\ In[e][c] # NoPacket
             /\ In[e][c] \in Packet /\ 3 * Far(e[2], In[e][c]) + 2 \in Nat
  <2>1. c \in Channel /\ In[e][c] # NoPacket
    BY <1>4, MovedFacts DEF Crossing
  <2>2. In[e][c] \in Packet
    BY <1>1, <2>1, RegsFacts
  <2>3. Far(e[2], In[e][c]) \in Nat
    BY <2>2, EdgeFacts, FarFacts
  <2>4. QED
    BY <2>1, <2>2, <2>3
<1>5. M \in SUBSET W
  <2> SUFFICES ASSUME NEW e \in Edge, NEW c \in Crossing[e] PROVE K(e, c) \in W
    OBVIOUS
  <2>1. AtReg(In, In[e][c], 3 * Far(e[2], In[e][c]) + 2, 2)
    BY <1>4 DEF AtReg
  <2>2. QED
    BY <1>4, <2>1 DEF Ranks, Stands
<1>6. /\ \A e \in Edge, c \in Channel : InNext[e][c] # NoPacket => InNext[e][c] = In[e][c]
      /\ \A e \in Edge, c \in Channel :
           \/ c \in Crossing[e] /\ OutNext[e][c] = In[e][c]
           \/ OutNext[e][c] = Out[e][c]
  BY DEF InNext, OutNext
<1>7. ASSUME NEW m, NEW r \in Nat, AtReg(OutNext, m, r, 1)
      PROVE  AtReg(Out, m, r, 1) \/ <<m, r + 1>> \in M
  <2>1. PICK e \in Edge, c \in Channel :
          OutNext[e][c] # NoPacket /\ m = OutNext[e][c] /\ r = 3 * Far(e[2], m) + 1
    BY <1>7 DEF AtReg
  <2>2. CASE OutNext[e][c] = Out[e][c]
    BY <2>1, <2>2 DEF AtReg
  <2>3. CASE c \in Crossing[e] /\ OutNext[e][c] = In[e][c]
    <3>1. m = In[e][c] /\ m \in Packet
      BY <1>4, <2>1, <2>3
    <3>2. Far(e[2], m) \in Nat
      BY <3>1, EdgeFacts, FarFacts
    <3>3. r + 1 = 3 * Far(e[2], m) + 2
      BY <2>1, <3>2
    <3>4. <<m, r + 1>> = K(e, c)
      BY <3>1, <3>3
    <3> HIDE DEF K
    <3>5. QED
      BY <2>3, <3>4
  <2>4. QED
    BY <1>6, <2>2, <2>3
<1>8. ASSUME NEW x \in V PROVE x \in W \/ <<x[1], x[2] + 1>> \in M
  <2>1. /\ x[1] \in Packet /\ x[2] \in Nat /\ x = <<x[1], x[2]>>
        /\ Stands(Rest, Kept, InNext, OutNext, x[1], x[2])
    BY DEF Ranks
  <2>2. CASE Stands(Rest, Kept, In, Out, x[1], x[2])
    BY <2>1, <2>2 DEF Ranks
  <2>3. AtReg(InNext, x[1], x[2], 2) => AtReg(In, x[1], x[2], 2)
    BY <1>6 DEF AtReg
  <2> HIDE DEF W, V, M
  <2>4. QED
    BY <1>7, <2>1, <2>2, <2>3 DEF Stands
<1>9. ASSUME NEW x \in W, NEW y \in M, Alike(x[1], y[1]), Before(x[1], y[1])
      PROVE  x[2] # y[2]
  <2>1. PICK e \in Edge : \E c \in Crossing[e] : y = K(e, c)
    BY <1>9
  <2>2. PICK c \in Crossing[e] : y = K(e, c)
    BY <2>1
  <2>3. /\ y[1] = In[e][c] /\ y[2] = 3 * Far(e[2], In[e][c]) + 2
        /\ c \in Channel /\ In[e][c] # NoPacket /\ In[e][c] \in Packet
    BY <1>4, <2>2
  <2>4. x[1] \in Packet /\ Stands(Rest, Kept, In, Out, x[1], x[2])
    BY DEF Ranks
  <2>5. Alike(x[1], In[e][c]) /\ Before(x[1], In[e][c])
    BY <1>9, <2>3
  <2>6. x[1] # In[e][c]
    BY <2>3, <2>4, <2>5, BeforeFacts
  <2>7. ~Stands(Rest, Kept, In, Out, x[1], 3 * Far(e[2], In[e][c]) + 2)
    BY <1>1, <1>2, <2>3, <2>4, <2>5, <2>6, SameInput
  <2>8. QED
    BY <2>3, <2>4, <2>7
<1> HIDE DEF W, V, M
<1>10. Ordered(V)
  <2>1. \A x \in V : x \in W \/ <<x[1], x[2] + 1>> \in M
    BY <1>8
  <2>2. \A x \in W, y \in M : Alike(x[1], y[1]) /\ Before(x[1], y[1]) => x[2] # y[2]
    BY <1>9
  <2>3. QED
    BY <1>2, <1>3, <1>5, <2>1, <2>2, OrderKept
<1>11. RegWay(InNext)
  BY <1>2, <1>6 DEF RegWay
<1>12. RegWay(OutNext)
  BY <1>2, <1>4, <1>6 DEF RegWay
<1>13. QED
  BY <1>2, <1>10, <1>11, <1>12 DEF Flowing, Ways, V

LEMMA TickFlow ==
  ASSUME IInv, Now, Tick PROVE Now'
<1>1. Flowing(Rest, Kept, InNext, OutNext)
  BY Intake, Release, Crossed
<1>2. sendBuf' = Rest /\ pipeline' = Kept /\ input' = InNext /\ output' = OutNext
  BY TickFacts
<1>3. QED
  BY <1>1, <1>2 DEF Now
-------------------------------------------------------------------------------
(***************************************************************************)
(* A send: the packets of a new message come last, and have all to go.     *)
(***************************************************************************)
LEMMA SendFlow ==
  ASSUME IInv, Now, NEW p \in Port, NEW d \in Port, NEW c \in Channel, NEW k \in Counts,
         Send(p, d, c, k)
  PROVE  Now'
<1> DEFINE m == First(p, d, c, k)
           W == Ranks(sendBuf, pipeline, input, output)
           V == Ranks(sendBuf', pipeline, input, output)
           New(x) == /\ x[1].id = accepted + 1 /\ x[1].src = p
                     /\ x[2] = 3 * Far(NodeOf[p], x[1]) + 1
<1>1. Sends(p, d, c, k, m)
  BY SendFacts
<1> HIDE DEF m
<1>2. /\ m \in Packet /\ m.src = p /\ m.channel = c /\ m.id = accepted + 1 /\ accepted \in Nat
      /\ sendBuf'[p][c] = Block(m) /\ BufType(sendBuf')
      /\ \A q \in Port, e \in Channel : <<q, e>> # <<p, c>> => sendBuf'[q][e] = sendBuf[q][e]
      /\ pipeline' = pipeline /\ input' = input /\ output' = output
  BY <1>1 DEF Sends
<1>3. /\ SendWay(sendBuf) /\ PipeWay(pipeline) /\ RegWay(input) /\ RegWay(output)
      /\ Sorted(sendBuf) /\ PipeSorted(pipeline) /\ Ordered(W)
  BY DEF Now, Flowing, Ways
<1>4. Types(sendBuf, pipeline, input, output) /\ Numbered
  BY TypesNow DEF IInv
<1>5. ASSUME NEW i \in DOMAIN Block(m)
      PROVE  /\ Block(m)[i].src = p /\ Block(m)[i].channel = c /\ Block(m)[i].id = accepted + 1
             /\ Block(m)[i].idx = i - 1 /\ i \in Nat
  <2>1. m.count \in Nat /\ i \in 1 .. m.count /\ Block(m)[i] = [m EXCEPT !.idx = i - 1]
    <3>1. m \in Packet
      BY <1>2
    <3>2. QED
      BY <3>1, BlockFacts
  <2>2. [m EXCEPT !.idx = i - 1].src = m.src
    BY <1>2 DEF Packet
  <2>3. QED
    BY <1>2, <2>1, <2>2, BlockFacts
<1>6. SendWay(sendBuf')
  <2> SUFFICES ASSUME NEW q \in Port, NEW e \in Channel, NEW i \in DOMAIN sendBuf'[q][e]
               PROVE  sendBuf'[q][e][i].src = q /\ sendBuf'[q][e][i].channel = e
    BY DEF SendWay
  <2>1. CASE q = p /\ e = c
    BY <1>2, <1>5, <2>1
  <2>2. CASE <<q, e>> # <<p, c>>
    BY <1>2, <1>3, <2>2 DEF SendWay
  <2>3. QED
    BY <2>1, <2>2
<1>7. Sorted(sendBuf')
  <2> SUFFICES ASSUME NEW q \in Port, NEW e \in Channel, NEW i \in DOMAIN sendBuf'[q][e],
                      NEW j \in DOMAIN sendBuf'[q][e], i < j
               PROVE  Before(sendBuf'[q][e][i], sendBuf'[q][e][j])
    BY DEF Sorted
  <2>1. CASE q = p /\ e = c
    <3>1. i \in DOMAIN Block(m) /\ j \in DOMAIN Block(m)
      BY <1>2, <2>1
    <3>2. /\ Block(m)[i].id = Block(m)[j].id /\ Block(m)[i].idx = i - 1
          /\ Block(m)[j].idx = j - 1 /\ i \in Nat /\ j \in Nat
      BY <1>5, <3>1
    <3>3. Before(Block(m)[i], Block(m)[j])
      BY <3>2 DEF Before
    <3>4. QED
      BY <1>2, <2>1, <3>3
  <2>2. CASE <<q, e>> # <<p, c>>
    BY <1>2, <1>3, <2>2 DEF Sorted
  <2>3. QED
    BY <2>1, <2>2
<1>8. ASSUME NEW x \in V PROVE x \in W \/ New(x)
  <2>1. /\ x[1] \in Packet /\ x[2] \in Nat /\ x = <<x[1], x[2]>>
        /\ Stands(sendBuf', pipeline, input, output, x[1], x[2])
    BY DEF Ranks
  <2>2. CASE AtSend(sendBuf', x[1], x[2])
    <3>1. PICK q \in Port, e \in Channel : \E i \in DOMAIN sendBuf'[q][e] :
            x[1] = sendBuf'[q][e][i] /\ x[2] = 3 * Far(NodeOf[q], x[1]) + 1
      BY <2>2 DEF AtSend
    <3>2. CASE q = p /\ e = c
      BY <1>2, <1>5, <3>1, <3>2
    <3>3. CASE <<q, e>> # <<p, c>>
      <4>1. AtSend(sendBuf, x[1], x[2])
        BY <1>2, <3>1, <3>3 DEF AtSend
      <4>2. QED
        BY <2>1, <4>1 DEF Ranks, Stands
    <3>4. QED
      BY <3>2, <3>3
  <2>3. CASE Stands(sendBuf, pipeline, input, output, x[1], x[2])
    BY <2>1, <2>3 DEF Ranks
  <2>4. QED
    BY <2>1, <2>2, <2>3 DEF Stands
<1>9. ASSUME NEW x \in W
      PROVE  /\ x[1].id \in Nat /\ x[1].id <= accepted /\ x[2] \in Nat
             /\ x[2] <= 3 * Far(NodeOf[x[1].src], x[1]) + 1
  <2>1. x[1] \in Packet /\ x[2] \in Nat /\ Stands(sendBuf, pipeline, input, output, x[1], x[2])
    BY DEF Ranks
  <2>2. x[1] \in Everything
    BY <1>4, <2>1, StandsFacts DEF Everything, All
  <2>3. x[1].id \in Nat /\ x[1].id <= accepted
    BY <1>2, <1>4, <2>2 DEF Numbered
  <2>4. Ways(sendBuf, pipeline, input, output)
    BY <1>3 DEF Ways
  <2>5. QED
    BY <1>4, <2>1, <2>3, <2>4, TopRank
<1>10. Ordered(V)
  <2> SUFFICES ASSUME NEW x \in V, NEW y \in V, Alike(x[1], y[1]), Before(x[1], y[1])
               PROVE  x[2] <= y[2]
    BY DEF Ordered
  <2>1. x[2] \in Nat /\ y[2] \in Nat /\ Far(NodeOf[p], x[1]) = Far(NodeOf[p], y[1])
    BY AlikeFacts DEF Ranks
  <2> HIDE DEF W, V
  <2>2. CASE x \in W /\ y \in W
    BY <1>3, <2>2 DEF Ordered
  <2>3. CASE x \in W /\ New(y)
    <3>1. x[1].src = p
      BY <2>3 DEF Alike
    <3>2. x[2] <= 3 * Far(NodeOf[p], x[1]) + 1
      BY <1>9, <2>3, <3>1
    <3>3. QED
      BY <2>1, <2>3, <3>2
  <2>4. CASE New(x) /\ y \in W
    BY <1>2, <1>9, <2>4 DEF Before
  <2>5. CASE New(x) /\ New(y)
    <3>1. x[2] = y[2]
      BY <2>1, <2>5
    <3>2. QED
      BY <2>1, <3>1
  <2>6. QED
    BY <1>8, <2>2, <2>3, <2>4, <2>5
<1>11. Flowing(sendBuf', pipeline, input, output)
  BY <1>3, <1>6, <1>7, <1>10 DEF Flowing, Ways
<1>12. QED
  BY <1>2, <1>11 DEF Now

\* At the start nothing is anywhere.
LEMMA InitFlow ==
  ASSUME Init PROVE Now
<1>1. /\ \A p \in Port, c \in Channel : DOMAIN sendBuf[p][c] = {}
      /\ \A n \in Node : DOMAIN pipeline[n] = {}
      /\ \A e \in Edge, c \in Channel : input[e][c] = NoPacket /\ output[e][c] = NoPacket
  <2>1. DOMAIN <<>> = {}
    OBVIOUS
  <2>2. QED
    BY <2>1 DEF Init
<1>2. Ways(sendBuf, pipeline, input, output) /\ Sorted(sendBuf) /\ PipeSorted(pipeline)
  BY <1>1 DEF Ways, SendWay, PipeWay, RegWay, Sorted, PipeSorted
<1>3. \A m, r : ~Stands(sendBuf, pipeline, input, output, m, r)
  BY <1>1 DEF Stands, AtSend, AtPipe, AtReg
<1>4. Ordered(Ranks(sendBuf, pipeline, input, output))
  BY <1>3 DEF Ranks, Ordered
<1>5. QED
  BY <1>2, <1>4 DEF Now, Flowing
-------------------------------------------------------------------------------
(***************************************************************************)
(* A message under reassembly has packets elsewhere.                       *)
(***************************************************************************)
Unfinished(O) ==
  \A n \in Node : \A m \in O[n] : \E i \in 0 .. m.count - 1 : [m EXCEPT !.idx = i] \notin O[n]

\* All packets of a message are as many as it has.
LEMMA AllTogether ==
  ASSUME NEW S \in SUBSET Packet, NEW m \in S, \A q \in S : q.id = m.id /\ q.idx < q.count,
         Consistent(S), \A i \in 0 .. m.count - 1 : [m EXCEPT !.idx = i] \in S
  PROVE  Cardinality(S) = m.count
<1> DEFINE n == m.count
           f == [q \in S |-> q.idx]
<1>1. n \in Nat
  BY DEF Packet
<1>2. \A q \in S : q = [m EXCEPT !.idx = q.idx] /\ q.count = n /\ q.idx \in 0 .. n - 1
  BY DEF Consistent, Packet
<1>3. \A i \in 0 .. n - 1 : [m EXCEPT !.idx = i] \in S /\ [m EXCEPT !.idx = i].idx = i
  BY DEF Packet
<1> HIDE DEF n
<1>4. IsFiniteSet(0 .. n - 1) /\ Cardinality(0 .. n - 1) = n
  <2>1. 0 \in Int /\ n - 1 \in Int
    BY <1>1
  <2>2. /\ IsFiniteSet(0 .. n - 1)
        /\ Cardinality(0 .. n - 1) = IF 0 > n - 1 THEN 0 ELSE n - 1 - 0 + 1
    BY <2>1, FS_Interval, Zenon
  <2>3. (0 > n - 1 => n = 0) /\ n - 1 - 0 + 1 = n
    BY <1>1
  <2>4. QED
    BY <2>2, <2>3
<1>5. f \in [S -> 0 .. n - 1]
  BY <1>2
<1>6. f \in Injection(S, 0 .. n - 1)
  <2>1. ASSUME NEW q \in S, NEW r \in S, f[q] = f[r] PROVE q = r
    BY <1>2, <2>1
  <2>2. QED
    BY <1>5, <2>1 DEF Injection, IsInjective
<1>7. f \in Surjection(S, 0 .. n - 1)
  <2>1. \A i \in 0 .. n - 1 : \E q \in S : f[q] = i
    BY <1>3
  <2> HIDE DEF f
  <2>2. QED
    BY <1>5, <2>1 DEF Surjection
<1> HIDE DEF f
<1>8. Cardinality(S) = Cardinality(0 .. n - 1)
  BY <1>4, <1>6, <1>7, FS_Injection
<1>9. QED
  BY <1>4, <1>8 DEF n

\* What is together of a message is sound.
LEMMA TogetherFacts ==
  ASSUME TypeOK, Sound, NEW n \in Node, Took[n].taken
  PROVE  LET k == Took[n].packet
             S == Together(n, k)
         IN /\ S \in SUBSET Packet /\ S \in SUBSET Everything /\ k \in S
            /\ \A q \in S : q.id = k.id /\ q.idx < q.count
            /\ Consistent(S)
<1> DEFINE k == Took[n].packet
           S == Together(n, k)
<1>1. k \in Packet /\ k \in Everything
  BY TakenHeld
<1>2. k \in S /\ \A q \in S : q.id = k.id
  BY DEF Together
<1>3. ASSUME NEW q \in S PROVE q \in Everything /\ q \in Packet
  <2>1. CASE q = k
    BY <1>1, <2>1
  <2>2. CASE q \in orderBuf[n]
    <3>1. q \in Orders(orderBuf)
      BY <2>2 DEF Orders
    <3>2. q \in Packet
      BY <2>2 DEF TypeOK
    <3>3. QED
      BY <3>1, <3>2 DEF Everything, All
  <2>3. QED
    BY <2>1, <2>2 DEF Together
<1> HIDE DEF S, k
<1>4. Consistent(S) /\ \A q \in S : q.idx < q.count
  BY <1>3 DEF Sound, Consistent
<1>5. QED
  BY <1>2, <1>3, <1>4 DEF S, k

LEMMA UnfinishedNext ==
  ASSUME IInv, Unfinished(orderBuf)
  PROVE  Unfinished(OrderNext)
<1>1. TypeOK /\ Sound
  BY IInvSound DEF IInv
<1> SUFFICES ASSUME NEW n \in Node, NEW m \in OrderNext[n]
             PROVE  \E i \in 0 .. m.count - 1 : [m EXCEPT !.idx = i] \notin OrderNext[n]
  BY DEF Unfinished
<1> DEFINE k == Took[n].packet
           S == Together(n, k)
           O == orderBuf[n]
<1>2. OrderNext[n] = OrderAfter(n, Took[n])
  BY DEF OrderNext
<1>3. \A q \in O : q \in Packet /\ \E i \in 0 .. q.count - 1 : [q EXCEPT !.idx = i] \notin O
  BY <1>1 DEF TypeOK, Unfinished
<1>4. CASE Done(n)
  <2>1. OrderNext[n] = O \ S
    BY <1>2, <1>4 DEF OrderAfter, Done
  <2>2. QED
    BY <1>3, <2>1
<1>5. CASE Arrives(n, Took[n]) /\ ~Done(n)
  <2>1. OrderNext[n] = O \cup {k}
    BY <1>2, <1>5 DEF OrderAfter, Done
  <2>2. Took[n].taken /\ Cardinality(S) # k.count
    BY <1>5 DEF Done, Completes, Arrives
  <2>3. /\ S \in SUBSET Packet /\ S \in SUBSET Everything /\ k \in S
        /\ \A q \in S : q.id = k.id /\ q.idx < q.count
        /\ Consistent(S)
    BY <1>1, <2>2, TogetherFacts
  <2>4. \A q \in O \cup {k} : q.id = k.id => q \in S
    BY DEF Together
  <2> HIDE DEF S, O, k
  <2>5. \A q \in Packet : \A i : [q EXCEPT !.idx = i].id = q.id
    BY DEF Packet
  <2>6. CASE m.id # k.id
    <3>1. m \in O /\ m \in Packet
      BY <1>3, <2>1, <2>6
    <3>2. PICK i \in 0 .. m.count - 1 : [m EXCEPT !.idx = i] \notin O
      BY <1>3, <3>1
    <3>3. [m EXCEPT !.idx = i] # k
      BY <2>5, <2>6, <3>1
    <3>4. QED
      BY <2>1, <3>2, <3>3
  <2>7. CASE m.id = k.id
    <3>1. m \in S /\ m \in Packet /\ m.count = k.count
      <4>1. m \in S
        BY <2>1, <2>4, <2>7
      <4>2. m = [k EXCEPT !.idx = m.idx] /\ k \in Packet
        BY <2>3, <2>7, <4>1 DEF Consistent
      <4>3. QED
        BY <2>3, <4>1, <4>2 DEF Packet
    <3>2. PICK i \in 0 .. m.count - 1 : [m EXCEPT !.idx = i] \notin S
      BY <2>2, <2>3, <2>7, <3>1, AllTogether
    <3>3. [m EXCEPT !.idx = i].id = k.id
      BY <2>5, <2>7, <3>1
    <3>4. [m EXCEPT !.idx = i] \notin OrderNext[n]
      BY <2>1, <2>4, <3>2, <3>3
    <3>5. QED
      BY <3>4
  <2>8. QED
    BY <2>6, <2>7
<1>6. CASE ~Arrives(n, Took[n])
  <2>1. OrderNext[n] = O
    BY <1>2, <1>6 DEF OrderAfter, Completes
  <2>2. QED
    BY <1>3, <2>1
<1>7. QED
  BY <1>4, <1>5, <1>6

(***************************************************************************)
(* The invariant of the flows.                                             *)
(***************************************************************************)
FlowInv == IInv /\ Now /\ Unfinished(orderBuf)

LEMMA InitFlowInv ==
  ASSUME Init PROVE FlowInv
<1>1. Unfinished(orderBuf)
  BY DEF Init, Unfinished
<1>2. QED
  BY <1>1, InitIInv, InitFlow DEF FlowInv

LEMMA NextFlowInv ==
  ASSUME FlowInv, [Next]_vars PROVE FlowInv'
<1>1. IInv /\ Now /\ Unfinished(orderBuf) /\ IInv'
  BY NextIInv DEF FlowInv
<1>2. CASE \E p \in Port, d \in Port, c \in Channel, k \in Counts : Send(p, d, c, k)
  <2>1. PICK p \in Port, d \in Port, c \in Channel, k \in Counts : Send(p, d, c, k)
    BY <1>2
  <2>2. Now' /\ orderBuf' = orderBuf
    BY <1>1, <2>1, SendFlow DEF Send
  <2>3. QED
    BY <1>1, <2>2 DEF FlowInv
<1>3. CASE (\E p \in Port, c \in Channel : Recv(p, c)) \/ UNCHANGED vars
  <2>1. /\ sendBuf' = sendBuf /\ pipeline' = pipeline /\ input' = input /\ output' = output
        /\ orderBuf' = orderBuf
    BY <1>3 DEF Recv, vars
  <2>2. Now'
    BY <1>1, <2>1 DEF Now
  <2>3. QED
    BY <1>1, <2>1, <2>2 DEF FlowInv
<1>4. CASE Tick
  <2>1. Now' /\ orderBuf' = OrderNext
    BY <1>1, <1>4, TickFlow, TickFacts
  <2>2. QED
    BY <1>1, <2>1, UnfinishedNext DEF FlowInv
<1>5. QED
  BY <1>2, <1>3, <1>4 DEF Next
-------------------------------------------------------------------------------
(***************************************************************************)
(* What IBus sees of a state: a letter for every message under way, and in *)
(* an inbox one for every first packet of a message.                       *)
(***************************************************************************)
Under(S, O, P, I, Q) == Packets(S) \cup Orders(O) \cup Pipes(P) \cup Regs(I) \cup Regs(Q)

Transit == {Letter(m) : m \in UnderWay}
Heads(r) == {i \in DOMAIN r : r[i].idx = 0}
LettersOf(r) ==
  LET firsts == Ascending(Heads(r)) IN [i \in DOMAIN firsts |-> Letter(r[firsts[i]])]
Inboxes == [p \in Port |-> [c \in Channel |-> LettersOf(recvBuf[p][c])]]

\* The packets under way are those of all places but the receive buffers.
LEMMA UnderFacts ==
  ASSUME NEW S, NEW O, NEW P, NEW I, NEW Q
  PROVE  (UNION {Range(S[p][c]) : p \in Port, c \in Channel})
         \cup (UNION {{P[n][i].packet : i \in DOMAIN P[n]} \cup O[n] : n \in Node})
         \cup (UNION {{r[e][c] : r \in {I, Q}, c \in Channel} \ {NoPacket} : e \in Edge})
           = Under(S, O, P, I, Q)
<1> DEFINE A == UNION {Range(S[p][c]) : p \in Port, c \in Channel}
           B == UNION {{P[n][i].packet : i \in DOMAIN P[n]} \cup O[n] : n \in Node}
           C == UNION {{r[e][c] : r \in {I, Q}, c \in Channel} \ {NoPacket} : e \in Edge}
<1>1. A = Packets(S)
  BY DEF Packets
<1>2. B = Orders(O) \cup Pipes(P)
  BY DEF Orders, Pipes
<1>3. C = Regs(I) \cup Regs(Q)
  BY DEF Regs
<1> HIDE DEF A, B, C
<1>4. A \cup B \cup C = Under(S, O, P, I, Q)
  BY <1>1, <1>2, <1>3 DEF Under
<1>5. QED
  BY <1>4 DEF A, B, C

LEMMA UnderWayFacts ==
  /\ UnderWay = Under(sendBuf, orderBuf, pipeline, input, output)
  /\ UnderWay' = Under(sendBuf', orderBuf', pipeline', input', output')
<1>1. UnderWay = Under(sendBuf, orderBuf, pipeline, input, output)
  BY UnderFacts DEF UnderWay, Queued, Piped, Linked
<1>2. UnderWay' = Under(sendBuf', orderBuf', pipeline', input', output')
  BY UnderFacts DEF UnderWay, Queued, Piped, Linked
<1>3. QED
  BY <1>1, <1>2

\* A list of numbers in ascending order is the one Ascending makes of its set.
LEMMA AscendingUnique ==
  ASSUME NEW n \in Nat, NEW f \in [1 .. n -> Nat], NEW S, S = {f[i] : i \in 1 .. n},
         \A i, j \in 1 .. n : i < j => f[i] < f[j]
  PROVE  IsFiniteSet(S) /\ Cardinality(S) = n /\ Ascending(S) = f
<1>1. ASSUME NEW k \in Nat, k <= n
      PROVE  /\ IsFiniteSet({f[i] : i \in 1 .. k}) /\ Cardinality({f[i] : i \in 1 .. k}) = k
  <2> DEFINE T == {f[i] : i \in 1 .. k}
             g == [i \in 1 .. k |-> f[i]]
  <2>1. IsFiniteSet(1 .. k) /\ Cardinality(1 .. k) = k
    <3>1. 1 \in Int /\ k \in Int
      OBVIOUS
    <3>2. IsFiniteSet(1 .. k) /\ Cardinality(1 .. k) = IF 1 > k THEN 0 ELSE k - 1 + 1
      BY <3>1, FS_Interval, Zenon
    <3>3. QED
      BY <3>2
  <2>2. \A i \in 1 .. k : i \in 1 .. n
    BY <1>1
  <2>3. g \in Injection(1 .. k, T)
    <3>1. g \in [1 .. k -> T]
      OBVIOUS
    <3>2. ASSUME NEW i \in 1 .. k, NEW j \in 1 .. k, g[i] = g[j] PROVE i = j
      <4>1. f[i] = f[j] /\ f[i] \in Nat /\ f[j] \in Nat /\ i \in 1 .. n /\ j \in 1 .. n
        BY <2>2, <3>2
      <4>2. ~(i < j) /\ ~(j < i)
        BY <4>1
      <4>3. QED
        BY <4>2
    <3>3. QED
      BY <3>1, <3>2 DEF Injection, IsInjective
  <2>4. g \in Surjection(1 .. k, T)
    BY DEF Surjection
  <2> HIDE DEF g, T
  <2>5. IsFiniteSet(T) /\ Cardinality(T) = Cardinality(1 .. k)
    BY <2>1, <2>3, <2>4, FS_Surjection, FS_Injection
  <2>6. QED
    BY <2>1, <2>5 DEF T
<1>2. IsFiniteSet(S) /\ Cardinality(S) = n
  <2>1. n <= n
    OBVIOUS
  <2>2. QED
    BY <1>1, <2>1
<1>3. ASSUME NEW i \in 1 .. n
      PROVE  (CHOOSE x \in S : Cardinality({y \in S : y < x}) = i - 1) = f[i]
  <2>1. ASSUME NEW j \in 1 .. n PROVE Cardinality({y \in S : y < f[j]}) = j - 1
    <3>1. {y \in S : y < f[j]} = {f[h] : h \in 1 .. j - 1}
      <4>1. ASSUME NEW h \in 1 .. n, f[h] < f[j] PROVE h \in 1 .. j - 1
        <5>1. f[h] \in Nat /\ f[j] \in Nat
          OBVIOUS
        <5>2. h # j /\ ~(j < h)
          BY <4>1, <5>1
        <5>3. QED
          BY <5>2
      <4>2. ASSUME NEW h \in 1 .. j - 1 PROVE h \in 1 .. n /\ f[h] < f[j]
        <5>1. h \in 1 .. n /\ h < j
          OBVIOUS
        <5>2. QED
          BY <5>1
      <4>3. QED
        BY <4>1, <4>2
    <3>2. j - 1 \in Nat /\ j - 1 <= n
      OBVIOUS
    <3>3. QED
      BY <1>1, <3>1, <3>2
  <2>2. f[i] \in S
    OBVIOUS
  <2>3. ASSUME NEW x \in S, Cardinality({y \in S : y < x}) = i - 1 PROVE x = f[i]
    <3>1. PICK j \in 1 .. n : x = f[j]
      OBVIOUS
    <3>2. j - 1 = i - 1
      BY <2>1, <2>3, <3>1
    <3>3. QED
      BY <3>1, <3>2
  <2>4. QED
    BY <2>1, <2>2, <2>3
<1>4. QED
  BY <1>2, <1>3 DEF Ascending

\* The n places of the first packets of messages in r are those of f, in order.
IsIndex(f, n, r) ==
  /\ n \in Nat /\ f \in [1 .. n -> Nat]
  /\ \A i, j \in 1 .. n : i < j => f[i] < f[j]
  /\ Heads(r) = {f[i] : i \in 1 .. n}

\* The letter of a packet is one that IBus knows, and that of its whole message.
LEMMA LetterFacts ==
  ASSUME NEW m \in Packet
  PROVE  /\ Letter(m) \in Bus!Letter
         /\ \A i : Letter([m EXCEPT !.idx = i]) = Letter(m)
<1>1. Letter(m) \in Bus!Letter
  BY DEF Packet, Letter, Bus!Letter
<1>2. \A i : Letter([m EXCEPT !.idx = i]) = Letter(m)
  BY DEF Packet, Letter
<1>3. QED
  BY <1>1, <1>2

\* There is such a list, and it gives the letters.
LEMMA IndexExists ==
  ASSUME NEW r \in Seq(Packet)
  PROVE  \E n, f : IsIndex(f, n, r)
<1> DEFINE F == Heads(r)
           n == Cardinality(F)
           f == Ascending(F)
<1>1. DOMAIN r = 1 .. Len(r) /\ Len(r) \in Nat
  BY LenProperties
<1>2. F \in SUBSET Nat /\ F \in SUBSET (1 .. Len(r))
  BY <1>1 DEF Heads
<1>3. IsFiniteSet(F)
  <2>1. 1 \in Int /\ Len(r) \in Int
    BY <1>1
  <2>2. IsFiniteSet(1 .. Len(r))
    BY <2>1, FS_Interval, Zenon
  <2> HIDE DEF F
  <2>3. QED
    BY <1>2, <2>2, FS_Subset
<1> HIDE DEF F
<1>4. /\ n \in Nat /\ f \in Seq(F) /\ Len(f) = n /\ DOMAIN f = 1 .. n
      /\ \A i \in DOMAIN f : f[i] \in F
      /\ \A i, j \in DOMAIN f : i < j => f[i] < f[j]
      /\ \A x \in F : \E i \in DOMAIN f : f[i] = x
  BY <1>2, <1>3, AscendingFacts
<1>5. f \in [1 .. n -> Nat]
  <2> HIDE DEF f, n
  <2>1. f \in [1 .. n -> F]
    BY <1>4
  <2>2. QED
    BY <1>2, <2>1
<1> HIDE DEF f, n
<1>6. IsIndex(f, n, r)
  BY <1>4, <1>5 DEF IsIndex, F
<1>7. QED
  BY <1>6

LEMMA IndexFacts ==
  ASSUME NEW r \in Seq(Packet), NEW n, NEW f, IsIndex(f, n, r)
  PROVE  /\ n \in Nat /\ LettersOf(r) \in Seq(Bus!Letter) /\ Len(LettersOf(r)) = n
         /\ \A i \in 1 .. n :
              /\ f[i] \in DOMAIN r /\ f[i] \in Nat /\ r[f[i]].idx = 0 /\ r[f[i]] \in Packet
              /\ LettersOf(r)[i] = Letter(r[f[i]])
<1>1. /\ n \in Nat /\ f \in [1 .. n -> Nat] /\ Heads(r) = {f[i] : i \in 1 .. n}
      /\ \A i, j \in 1 .. n : i < j => f[i] < f[j]
  BY DEF IsIndex
<1>2. Ascending(Heads(r)) = f
  BY <1>1, AscendingUnique
<1>3. ASSUME NEW i \in 1 .. n
      PROVE  f[i] \in DOMAIN r /\ r[f[i]].idx = 0 /\ r[f[i]] \in Packet /\ f[i] \in Nat
  <2>1. f[i] \in DOMAIN r /\ r[f[i]].idx = 0
    BY <1>1 DEF Heads
  <2>2. QED
    BY <1>1, <2>1, LenProperties, ElementOfSeq
<1> DEFINE L(i) == Letter(r[f[i]])
           s == [i \in 1 .. n |-> L(i)]
<1>4. LettersOf(r) = s
  BY <1>1, <1>2 DEF LettersOf
<1>5. \A i \in 1 .. n : L(i) \in Bus!Letter
  BY <1>3, LetterFacts
<1> HIDE DEF L
<1>6. s \in Seq(Bus!Letter) /\ Len(s) = n /\ \A i \in 1 .. n : s[i] = L(i)
  BY <1>1, <1>5
<1>7. QED
  BY <1>1, <1>3, <1>4, <1>6 DEF L

\* No letter in an empty inbox.
LEMMA LettersOfEmpty == LettersOf(<<>>) = <<>>
<1>1. <<>> \in Seq(Packet) /\ Heads(<<>>) = {}
  <2>1. DOMAIN <<>> = {}
    OBVIOUS
  <2>2. QED
    BY <2>1 DEF Heads
<1>2. PICK n, f : IsIndex(f, n, <<>>)
  BY <1>1, IndexExists
<1>3. n = 0
  <2>1. n \in Nat /\ \A i \in 1 .. n : f[i] \in Heads(<<>>)
    BY <1>2 DEF IsIndex
  <2>2. n # 0 => 1 \in 1 .. n
    BY <2>1
  <2>3. QED
    BY <1>1, <2>1, <2>2
<1>4. LettersOf(<<>>) \in Seq(Bus!Letter) /\ Len(LettersOf(<<>>)) = 0
  BY <1>1, <1>2, <1>3, IndexFacts
<1>5. QED
  BY <1>4, EmptySeq

\* A message that arrives last is the last letter.
LEMMA LettersOfAppend ==
  ASSUME NEW r \in Seq(Packet), NEW m \in Packet, m.count # 0
  PROVE  LettersOf(r \o Block(m)) = Append(LettersOf(r), Letter(m))
<1> DEFINE b == Block(m)
           s == r \o b
           l == Len(r)
           k == m.count
<1>1. /\ b \in Seq(Packet) /\ Len(b) = k /\ k \in Nat
      /\ \A i \in 1 .. k : b[i].idx = i - 1 /\ b[i] = [m EXCEPT !.idx = i - 1]
  BY BlockFacts
<1>2. Letter(b[1]) = Letter(m) /\ 1 \in 1 .. k
  <2>1. 1 \in 1 .. k
    BY <1>1
  <2>2. QED
    BY <1>1, <2>1, LetterFacts
<1> HIDE DEF b, k
<1>3. /\ s \in Seq(Packet) /\ l \in Nat /\ DOMAIN r = 1 .. l /\ DOMAIN s = 1 .. l + k
      /\ \A i \in 1 .. l : s[i] = r[i]
      /\ \A i \in 1 .. k : s[l + i] = b[i]
  <2>1. /\ s \in Seq(Packet) /\ Len(s) = l + k /\ DOMAIN r = 1 .. l /\ l \in Nat
    <3>1. DOMAIN r = 1 .. l /\ l \in Nat
      BY LenProperties
    <3>2. b \in Seq(Packet)
      BY <1>1
    <3>3. s \in Seq(Packet) /\ Len(s) = Len(r) + Len(b)
      BY <3>2, ConcatProperties
    <3>4. QED
      BY <1>1, <3>1, <3>3
  <2>2. \A i \in 1 .. l + k : s[i] = IF i <= l THEN r[i] ELSE b[i - l]
    BY <1>1, ConcatProperties
  <2> HIDE DEF s, l
  <2>3. DOMAIN s = 1 .. l + k
    BY <2>1, LenProperties
  <2>4. \A i \in 1 .. k : l + i \in 1 .. l + k /\ ~(l + i <= l) /\ (l + i) - l = i
    BY <1>1, <2>1
  <2>5. \A i \in 1 .. l : i \in 1 .. l + k /\ i <= l
    BY <1>1, <2>1
  <2>6. QED
    BY <2>1, <2>2, <2>3, <2>4, <2>5
<1> HIDE DEF s, l
<1>4. PICK n, f : IsIndex(f, n, r)
  BY IndexExists
<1>5. /\ n \in Nat /\ f \in [1 .. n -> Nat] /\ Heads(r) = {f[i] : i \in 1 .. n}
      /\ \A i, j \in 1 .. n : i < j => f[i] < f[j]
  BY <1>4 DEF IsIndex
<1> DEFINE g == [i \in 1 .. n + 1 |-> IF i = n + 1 THEN l + 1 ELSE f[i]]
<1>6. Heads(s) = Heads(r) \cup {l + 1}
  <2>1. ASSUME NEW i \in 1 .. l + k
        PROVE  i \in Heads(s) <=> i \in Heads(r) \/ i = l + 1
    <3>1. i \in Heads(s) <=> s[i].idx = 0
      BY <1>3 DEF Heads
    <3>2. CASE i \in 1 .. l
      BY <1>3, <3>1, <3>2 DEF Heads
    <3>3. CASE i \notin 1 .. l
      <4>1. i - l \in 1 .. k /\ i = l + (i - l)
        BY <1>1, <1>3, <3>3
      <4>2. s[i].idx = (i - l) - 1
        BY <1>1, <1>3, <4>1
      <4>3. i \notin Heads(r)
        BY <1>3, <3>3 DEF Heads
      <4>4. (i - l) - 1 = 0 <=> i = l + 1
        BY <1>3
      <4>5. QED
        BY <3>1, <4>2, <4>3, <4>4
    <3>4. QED
      BY <3>2, <3>3
  <2>2. Heads(s) \subseteq 1 .. l + k
    BY <1>3 DEF Heads
  <2>3. Heads(r) \subseteq 1 .. l /\ \A i \in 1 .. l : i \in 1 .. l + k
    BY <1>1, <1>3 DEF Heads
  <2>4. l + 1 \in 1 .. l + k
    BY <1>1, <1>2, <1>3
  <2>5. QED
    BY <2>1, <2>2, <2>3, <2>4
<1>7. \A i \in 1 .. n : f[i] \in Nat /\ f[i] <= l
  <2>1. \A i \in 1 .. n : f[i] \in 1 .. l
    BY <1>3, <1>5 DEF Heads
  <2>2. QED
    BY <1>3, <2>1
<1>8. /\ \A i \in 1 .. n : i \in 1 .. n + 1 /\ i # n + 1 /\ g[i] = f[i]
      /\ n + 1 \in 1 .. n + 1 /\ g[n + 1] = l + 1
      /\ \A i \in 1 .. n + 1 : i \in 1 .. n \/ i = n + 1
  BY <1>5
<1>9. g \in [1 .. n + 1 -> Nat]
  BY <1>3, <1>5
<1> HIDE DEF g
<1>10. IsIndex(g, n + 1, s)
  <2>1. ASSUME NEW i \in 1 .. n + 1, NEW j \in 1 .. n + 1, i < j PROVE g[i] < g[j]
    <3>1. i \in 1 .. n
      BY <1>5, <2>1
    <3>2. CASE j \in 1 .. n
      BY <1>5, <1>8, <2>1, <3>1, <3>2
    <3>3. CASE j = n + 1
      BY <1>3, <1>7, <1>8, <3>1, <3>3
    <3>4. QED
      BY <1>8, <3>2, <3>3
  <2>2. Heads(s) = {g[i] : i \in 1 .. n + 1}
    BY <1>5, <1>6, <1>8
  <2>3. QED
    BY <1>5, <1>9, <2>1, <2>2 DEF IsIndex
<1> DEFINE t == LettersOf(s)
           u == LettersOf(r)
           a == Letter(m)
<1>11. /\ t \in Seq(Bus!Letter) /\ Len(t) = n + 1
       /\ \A i \in 1 .. n + 1 : t[i] = Letter(s[g[i]])
  <2>1. PICK h : h = n + 1
    OBVIOUS
  <2>2. IsIndex(g, h, s)
    BY <1>10, <2>1
  <2>3. /\ t \in Seq(Bus!Letter) /\ Len(t) = h
        /\ \A i \in 1 .. h : t[i] = Letter(s[g[i]])
    <3>1. s \in Seq(Packet)
      BY <1>3
    <3>2. QED
      BY <2>2, <3>1, IndexFacts
  <2>4. QED
    BY <2>1, <2>3
<1>12. /\ u \in Seq(Bus!Letter) /\ Len(u) = n
       /\ \A i \in 1 .. n : u[i] = Letter(r[f[i]]) /\ f[i] \in DOMAIN r
  BY <1>4, IndexFacts
<1>13. a \in Bus!Letter
  BY LetterFacts
<1>14. ASSUME NEW i \in 1 .. n PROVE t[i] = u[i]
  <2>1. t[i] = Letter(s[f[i]])
    BY <1>8, <1>11
  <2>2. f[i] \in 1 .. l /\ u[i] = Letter(r[f[i]])
    BY <1>3, <1>12
  <2>3. s[f[i]] = r[f[i]]
    BY <1>3, <2>2
  <2>4. QED
    BY <2>1, <2>2, <2>3
<1>15. t[n + 1] = a
  BY <1>2, <1>3, <1>8, <1>11
<1> HIDE DEF t, u, a
<1>16. /\ Append(u, a) \in Seq(Bus!Letter) /\ Len(Append(u, a)) = n + 1
       /\ \A i \in 1 .. n : Append(u, a)[i] = u[i]
       /\ Append(u, a)[n + 1] = a
  BY <1>5, <1>12, <1>13
<1>17. \A i \in 1 .. n + 1 : t[i] = Append(u, a)[i]
  BY <1>8, <1>14, <1>15, <1>16
<1>18. t = Append(u, a)
  BY <1>11, <1>16, <1>17, SeqEqual
<1>19. QED
  BY <1>18 DEF t, u, a, s, b

\* Receiving the first message is receiving the first letter.
LEMMA LettersOfDrop ==
  ASSUME NEW r \in Seq(Packet), NEW s \in Seq(Packet), NEW k \in 1 .. Len(r),
         Len(s) = Len(r) - k, \A i \in DOMAIN s : i + k \in DOMAIN r /\ s[i] = r[i + k],
         \A i \in 1 .. k : r[i].idx = i - 1
  PROVE  LettersOf(r) # <<>> /\ LettersOf(s) = Tail(LettersOf(r))
<1> DEFINE l == Len(r)
<1>1. l \in Nat /\ DOMAIN r = 1 .. l /\ k \in Nat /\ k # 0 /\ k <= l /\ DOMAIN s = 1 .. l - k
  <2>1. l \in Nat /\ DOMAIN r = 1 .. l /\ DOMAIN s = 1 .. Len(s)
    BY LenProperties
  <2>2. QED
    BY <2>1
<1> HIDE DEF l
<1>2. PICK n, f : IsIndex(f, n, s)
  BY IndexExists
<1>3. /\ n \in Nat /\ f \in [1 .. n -> Nat] /\ Heads(s) = {f[i] : i \in 1 .. n}
      /\ \A i, j \in 1 .. n : i < j => f[i] < f[j]
  BY <1>2 DEF IsIndex
<1> DEFINE g == [i \in 1 .. n + 1 |-> IF i = 1 THEN 1 ELSE f[i - 1] + k]
<1>4. \A i \in 1 .. n : f[i] \in 1 .. l - k /\ f[i] \in Nat /\ f[i] # 0 /\ s[f[i]] = r[f[i] + k]
  <2>1. \A i \in 1 .. n : f[i] \in DOMAIN s
    BY <1>3 DEF Heads
  <2>2. QED
    BY <1>1, <1>3, <2>1
<1>5. /\ \A i \in 1 .. n : i + 1 \in 1 .. n + 1 /\ g[i + 1] = f[i] + k
      /\ 1 \in 1 .. n + 1 /\ g[1] = 1
      /\ \A i \in 1 .. n + 1 : i = 1 \/ (i - 1 \in 1 .. n /\ g[i] = f[i - 1] + k)
  BY <1>3
<1>6. g \in [1 .. n + 1 -> Nat]
  <2>1. \A i \in 1 .. n + 1 : i # 1 => i - 1 \in 1 .. n
    BY <1>3
  <2>2. \A i \in 1 .. n : f[i] + k \in Nat
    BY <1>1, <1>4
  <2>3. QED
    BY <2>1, <2>2
<1> HIDE DEF g
<1>7. Heads(r) = {g[i] : i \in 1 .. n + 1}
  <2>1. ASSUME NEW i \in Heads(r) PROVE \E j \in 1 .. n + 1 : i = g[j]
    <3>1. i \in 1 .. l /\ r[i].idx = 0
      BY <1>1, <2>1 DEF Heads
    <3>2. CASE i \in 1 .. k
      <4>1. i = 1
        BY <1>1, <3>1, <3>2
      <4>2. QED
        BY <1>5, <4>1
    <3>3. CASE i \notin 1 .. k
      <4>1. i - k \in 1 .. l - k /\ (i - k) + k = i
        BY <1>1, <3>1, <3>3
      <4>2. i - k \in Heads(s)
        BY <1>1, <3>1, <4>1 DEF Heads
      <4>3. PICK j \in 1 .. n : i - k = f[j]
        BY <1>3, <4>2
      <4>4. j + 1 \in 1 .. n + 1 /\ g[j + 1] = i
        BY <1>5, <4>1, <4>3
      <4>5. QED
        BY <4>4
    <3>4. QED
      BY <3>2, <3>3
  <2>2. ASSUME NEW j \in 1 .. n + 1 PROVE g[j] \in Heads(r)
    <3>1. CASE j = 1
      <4>1. 1 \in 1 .. l /\ r[1].idx = 0
        <5>1. 1 \in 1 .. k
          BY <1>1
        <5>2. 1 \in 1 .. l /\ 1 - 1 = 0
          BY <1>1
        <5>3. QED
          BY <5>1, <5>2
      <4>2. QED
        BY <1>1, <1>5, <3>1, <4>1 DEF Heads
    <3>2. CASE j # 1
      <4>1. j - 1 \in 1 .. n /\ g[j] = f[j - 1] + k
        BY <1>5, <3>2
      <4>2. f[j - 1] \in Heads(s)
        BY <1>3, <4>1
      <4>3. QED
        BY <4>1, <4>2 DEF Heads
    <3>3. QED
      BY <3>1, <3>2
  <2>3. QED
    BY <2>1, <2>2
<1>8. IsIndex(g, n + 1, r)
  <2>1. ASSUME NEW i \in 1 .. n + 1, NEW j \in 1 .. n + 1, i < j PROVE g[i] < g[j]
    <3>1. j - 1 \in 1 .. n /\ g[j] = f[j - 1] + k /\ f[j - 1] \in Nat /\ f[j - 1] # 0
      <4>1. j # 1
        BY <2>1
      <4>2. QED
        BY <1>4, <1>5, <4>1
    <3>2. CASE i = 1
      BY <1>1, <1>5, <3>1, <3>2
    <3>3. CASE i # 1
      <4>1. i - 1 \in 1 .. n /\ g[i] = f[i - 1] + k /\ f[i - 1] \in Nat /\ i - 1 < j - 1
        BY <1>4, <1>5, <2>1, <3>3
      <4>2. f[i - 1] < f[j - 1]
        BY <1>3, <3>1, <4>1
      <4>3. QED
        BY <1>1, <3>1, <4>1, <4>2
    <3>4. QED
      BY <3>2, <3>3
  <2>2. QED
    BY <1>3, <1>6, <1>7, <2>1 DEF IsIndex
<1> DEFINE t == LettersOf(s)
           u == LettersOf(r)
<1>9. /\ u \in Seq(Bus!Letter) /\ Len(u) = n + 1
      /\ \A i \in 1 .. n + 1 : u[i] = Letter(r[g[i]])
  <2>1. PICK h : h = n + 1
    OBVIOUS
  <2>2. IsIndex(g, h, r)
    BY <1>8, <2>1
  <2>3. /\ u \in Seq(Bus!Letter) /\ Len(u) = h
        /\ \A i \in 1 .. h : u[i] = Letter(r[g[i]])
    BY <2>2, IndexFacts
  <2>4. QED
    BY <2>1, <2>3
<1>10. /\ t \in Seq(Bus!Letter) /\ Len(t) = n
       /\ \A i \in 1 .. n : t[i] = Letter(s[f[i]])
  BY <1>2, IndexFacts
<1> HIDE DEF t, u
<1>11. ASSUME NEW i \in 1 .. n PROVE t[i] = u[i + 1]
  <2>1. i + 1 \in 1 .. n + 1 /\ g[i + 1] = f[i] + k
    BY <1>5
  <2>2. u[i + 1] = Letter(r[f[i] + k])
    BY <1>9, <2>1
  <2>3. t[i] = Letter(s[f[i]]) /\ s[f[i]] = r[f[i] + k]
    BY <1>4, <1>10
  <2>4. QED
    BY <2>2, <2>3
<1>12. /\ u # <<>> /\ Tail(u) \in Seq(Bus!Letter) /\ Len(Tail(u)) = n
       /\ \A i \in 1 .. n : Tail(u)[i] = u[i + 1]
  BY <1>3, <1>9
<1>13. t = Tail(u)
  BY <1>10, <1>11, <1>12, SeqEqual
<1>14. QED
  BY <1>12, <1>13 DEF t, u

\* Inboxes that differ in one place only.
LEMMA OneInbox ==
  ASSUME NEW S, NEW T, NEW f, NEW h, f = [s \in S |-> [t \in T |-> f[s][t]]],
         h = [s \in S |-> [t \in T |-> h[s][t]]], NEW x \in S, NEW y \in T, NEW v,
         \A s \in S, t \in T : h[s][t] = IF s = x /\ t = y THEN v ELSE f[s][t]
  PROVE  h = [f EXCEPT ![x][y] = v]
<1> DEFINE g == [f EXCEPT ![x][y] = v]
<1>1. g = [s \in S |-> IF s = x THEN [f[x] EXCEPT ![y] = v] ELSE f[s]]
  BY Zenon
<1>2. ASSUME NEW s \in S PROVE g[s] = h[s]
  <2>1. h[s] = [t \in T |-> h[s][t]] /\ f[s] = [t \in T |-> f[s][t]]
    BY Zenon
  <2>2. CASE s = x
    <3>1. [f[x] EXCEPT ![y] = v] = [t \in T |-> IF t = y THEN v ELSE f[x][t]]
      BY <2>1, <2>2, Zenon
    <3>2. g[s] = [t \in T |-> IF t = y THEN v ELSE f[x][t]]
      BY <1>1, <2>2, <3>1
    <3>3. QED
      BY <2>1, <2>2, <3>2
  <2>3. CASE s # x
    BY <1>1, <2>1, <2>3
  <2>4. QED
    BY <2>2, <2>3
<1>3. g = [s \in S |-> g[s]] /\ h = [s \in S |-> h[s]]
  BY <1>1
<1> HIDE DEF g
<1>4. g = h
  BY <1>2, <1>3
<1>5. QED
  BY <1>4 DEF g

\* The packets of a message have one letter.
LEMMA OneLetter ==
  ASSUME NEW m \in Packet, m.count # 0
  PROVE  {Letter(x) : x \in Parts(m)} = {Letter(m)}
<1>1. Parts(m) # {} /\ \A x \in Parts(m) : x = [m EXCEPT !.idx = x.idx]
  BY PartsFacts
<1>2. \A x \in Parts(m) : Letter(x) = Letter(m)
  <2>1. SUFFICES ASSUME NEW x \in Parts(m) PROVE Letter(x) = Letter(m)
    OBVIOUS
  <2>2. Letter([m EXCEPT !.idx = x.idx]) = Letter(m)
    BY LetterFacts
  <2>3. QED
    BY <1>1, <2>2
<1>3. QED
  BY <1>1, <1>2

LEMMA InitRefines == Init => Bus!Init
<1> SUFFICES ASSUME Init PROVE Bus!Init
  OBVIOUS
<1>1. /\ sendBuf = [p \in Port |-> [c \in Channel |-> <<>>]]
      /\ recvBuf = [p \in Port |-> [c \in Channel |-> <<>>]]
      /\ orderBuf = [n \in Node |-> {}] /\ pipeline = [n \in Node |-> <<>>]
      /\ input = [e \in Edge |-> [c \in Channel |-> NoPacket]]
      /\ output = [e \in Edge |-> [c \in Channel |-> NoPacket]]
      /\ accepted = 0
  BY DEF Init
<1>2. Packets(sendBuf) = {} /\ Orders(orderBuf) = {} /\ Pipes(pipeline) = {}
      /\ Regs(input) = {} /\ Regs(output) = {}
  <2>1. DOMAIN <<>> = {}
    OBVIOUS
  <2>2. Range(<<>>) = {}
    BY <2>1 DEF Range
  <2>3. Packets(sendBuf) = {}
    BY <1>1, <2>2 DEF Packets
  <2>4. Pipes(pipeline) = {}
    BY <1>1, <2>1 DEF Pipes
  <2>5. QED
    BY <1>1, <2>3, <2>4 DEF Orders, Regs
<1>3. UnderWay = {}
  BY <1>2, UnderWayFacts DEF Under
<1>4. Transit = {}
  BY <1>3 DEF Transit
<1>5. Inboxes = [p \in Port |-> [c \in Channel |-> <<>>]]
  BY <1>1, LettersOfEmpty DEF Inboxes
<1>6. QED
  BY <1>1, <1>4, <1>5 DEF Bus!Init, Transit, Inboxes, LettersOf, Heads

\* An accepted message is in transit: the letters are those of before and its own.
LEMMA SendRefines ==
  ASSUME IInv, NEW p \in Port, NEW d \in Port, NEW c \in Channel, NEW k \in Counts,
         Send(p, d, c, k)
  PROVE  Bus!Send(p, d, c, Opaque)
<1> DEFINE m == First(p, d, c, k)
           l == [id |-> accepted', src |-> p, dst |-> d, channel |-> c, body |-> Opaque]
<1>1. Sends(p, d, c, k, m)
  BY SendFacts
<1> HIDE DEF m
<1>2. /\ m \in Packet /\ m.count = k /\ k # 0 /\ m.id = accepted + 1
      /\ m.src = p /\ m.dst = d /\ m.channel = c /\ accepted \in Nat
      /\ sendBuf[p][c] = <<>> /\ BufType(sendBuf) /\ BufType(sendBuf')
      /\ sendBuf'[p][c] = Block(m)
      /\ \A q \in Port, e \in Channel : <<q, e>> # <<p, c>> => sendBuf'[q][e] = sendBuf[q][e]
      /\ recvBuf' = recvBuf /\ orderBuf' = orderBuf /\ pipeline' = pipeline
      /\ input' = input /\ output' = output /\ accepted' = accepted + 1
  BY <1>1 DEF Sends
<1>3. Letter(m) = l
  BY <1>2 DEF Letter
<1> HIDE DEF l
<1>4. Parts(m) \cap Packets(sendBuf) = {}
  <2>1. \A x \in Parts(m) : x.id = m.id
    BY <1>2, PartsFacts
  <2>2. \A x \in Packets(sendBuf) : x.id <= accepted /\ x.id \in Nat
    <3>1. Packets(sendBuf) \subseteq Everything
      BY DEF Everything, All
    <3>2. Numbered
      BY DEF IInv
    <3>3. QED
      BY <1>2, <3>1, <3>2 DEF Numbered
  <2>3. QED
    BY <1>2, <2>1, <2>2
<1>5. Packets(sendBuf') = Packets(sendBuf) \cup Parts(m)
  <2>1. BufApart(sendBuf)
    BY DEF IInv, Separate, Apart
  <2>2. QED
    BY <1>2, <1>4, <2>1, BufAdd
<1>6. UnderWay' = UnderWay \cup Parts(m)
  BY <1>2, <1>5, UnderWayFacts DEF Under
<1>7. Transit' = Transit \cup {l}
  <2>1. {Letter(x) : x \in Parts(m)} = {l}
    BY <1>2, <1>3, OneLetter
  <2>2. QED
    BY <1>6, <2>1 DEF Transit
<1>8. Inboxes' = Inboxes
  BY <1>2 DEF Inboxes, LettersOf, Heads
<1>9. QED
  BY <1>2, <1>7, <1>8 DEF Bus!Send, Transit, Inboxes, LettersOf, Heads, l

\* Receiving takes the first letter of the inbox.
LEMMA RecvRefines ==
  ASSUME IInv, NEW p \in Port, NEW c \in Channel, Recv(p, c)
  PROVE  Bus!Recv(p, c)
<1> DEFINE r == recvBuf[p][c]
           m == Head(r)
           s == SubSeq(r, m.count + 1, Len(r))
<1>1. /\ sendBuf' = sendBuf /\ orderBuf' = orderBuf /\ pipeline' = pipeline
      /\ input' = input /\ output' = output /\ accepted' = accepted
  BY DEF Recv
<1>2. Transit' = Transit
  <2> HIDE DEF r, m, s
  <2>1. UnderWay' = UnderWay
    BY <1>1, UnderWayFacts
  <2>2. QED
    BY <2>1 DEF Transit
<1>3. Receives(p, c, r, m, s)
  BY RecvFacts
<1> HIDE DEF m, s
<1>4. r \in Seq(Packet)
  BY <1>3 DEF Receives
<1>5. /\ m \in Packet /\ m.count \in 1 .. Len(r)
      /\ \A i \in 1 .. m.count : r[i] = [m EXCEPT !.idx = i - 1]
      /\ s \in Seq(Packet) /\ Len(s) = Len(r) - m.count
      /\ \A i \in DOMAIN s : i + m.count \in DOMAIN r /\ s[i] = r[i + m.count]
  BY <1>3 DEF Receives
<1>6. /\ recvBuf'[p][c] = s
      /\ \A q \in Port, e \in Channel : <<q, e>> # <<p, c>> => recvBuf'[q][e] = recvBuf[q][e]
  BY <1>3 DEF Receives
<1>7. \A i \in 1 .. m.count : r[i].idx = i - 1
  BY <1>5 DEF Packet
<1>8. LettersOf(r) # <<>> /\ LettersOf(s) = Tail(LettersOf(r))
  <2> HIDE DEF r
  <2>1. QED
    BY <1>4, <1>5, <1>7, LettersOfDrop
<1>9. Inboxes[p][c] = LettersOf(r)
  BY DEF Inboxes
<1>10. Inboxes' = [Inboxes EXCEPT ![p][c] = Tail(LettersOf(r))]
  <2> DEFINE f == Inboxes
             h == Inboxes'
             v == Tail(LettersOf(r))
  <2>1. /\ f = [q \in Port |-> [e \in Channel |-> f[q][e]]]
        /\ \A q \in Port, e \in Channel : f[q][e] = LettersOf(recvBuf[q][e])
    BY DEF Inboxes
  <2> HIDE DEF f, r, v
  <2>2. h = [q \in Port |-> [e \in Channel |-> LettersOf(recvBuf'[q][e])]]
    BY DEF Inboxes, LettersOf, Heads
  <2>3. /\ h = [q \in Port |-> [e \in Channel |-> h[q][e]]]
        /\ \A q \in Port, e \in Channel : h[q][e] = LettersOf(recvBuf'[q][e])
    BY <2>2
  <2> HIDE DEF h
  <2>4. ASSUME NEW q \in Port, NEW e \in Channel
        PROVE  h[q][e] = IF q = p /\ e = c THEN v ELSE f[q][e]
    <3>1. CASE q = p /\ e = c
      BY <1>8, <1>6, <2>3, <3>1 DEF v
    <3>2. CASE <<q, e>> # <<p, c>>
      BY <1>6, <2>1, <2>3, <3>2
    <3>3. QED
      BY <3>1, <3>2
  <2> HIDE DEF f, h, v
  <2>5. h = [f EXCEPT ![p][c] = v]
    BY <2>1, <2>3, <2>4, OneInbox
  <2>6. QED
    BY <2>5 DEF f, h, v
<1>11. QED
  BY <1>1, <1>2, <1>8, <1>9, <1>10 DEF Bus!Recv, Transit, Inboxes, LettersOf, Heads

-------------------------------------------------------------------------------
(***************************************************************************)
(* A cycle that completes messages.                                        *)
(***************************************************************************)

\* A packet that is neither under reassembly nor complete has some way to go.
LEMMA StandsSomewhere ==
  ASSUME IInv, Now, NEW m \in Packets(sendBuf) \cup Pipes(pipeline) \cup Regs(input) \cup Regs(output)
  PROVE  \E r \in Nat : r # 0 /\ Stands(sendBuf, pipeline, input, output, m, r)
<1>1. /\ BufType(sendBuf) /\ PipeType(pipeline) /\ RegType(input) /\ RegType(output)
      /\ Onward(pipeline)
  BY DEF IInv, TypeOK, BufType, PipeType, RegType
<1>2. CASE m \in Packets(sendBuf)
  <2>1. PICK p \in Port, c \in Channel : \E i \in DOMAIN sendBuf[p][c] : m = sendBuf[p][c][i]
    BY <1>1, <1>2, PacketsFacts
  <2>2. Far(NodeOf[p], m) \in Nat
    BY <1>1, <1>2, PacketsFacts, FarFacts, PortFacts
  <2>3. 3 * Far(NodeOf[p], m) + 1 \in Nat /\ 3 * Far(NodeOf[p], m) + 1 # 0
    BY <2>2
  <2>4. AtSend(sendBuf, m, 3 * Far(NodeOf[p], m) + 1)
    BY <2>1 DEF AtSend
  <2>5. QED
    BY <2>3, <2>4 DEF Stands
<1>3. CASE m \in Pipes(pipeline)
  <2>1. PICK n \in Node : \E i \in DOMAIN pipeline[n] : m = pipeline[n][i].packet
    BY <1>3 DEF Pipes
  <2>2. m \in Packet /\ n # Target(m)
    BY <1>1, <1>3, <2>1, PipesFacts DEF Onward, Local, Target
  <2>3. Far(n, m) \in Nat /\ Far(n, m) # 0
    BY <2>2, FarFacts
  <2>4. 3 * Far(n, m) \in Nat /\ 3 * Far(n, m) # 0
    BY <2>3
  <2>5. AtPipe(pipeline, m, 3 * Far(n, m))
    BY <2>1 DEF AtPipe
  <2>6. QED
    BY <2>4, <2>5 DEF Stands
<1>4. ASSUME NEW X, RegType(X), NEW k \in 1 .. 2, m \in Regs(X)
      PROVE  \E r \in Nat : r # 0 /\ AtReg(X, m, r, k)
  <2>1. PICK e \in Edge, c \in Channel : m = X[e][c] /\ X[e][c] # NoPacket
    BY <1>4 DEF Regs
  <2>2. m \in Packet /\ e[2] \in Node
    BY <1>4, RegsFacts, EdgeFacts
  <2>3. Far(e[2], m) \in Nat
    BY <2>2, FarFacts
  <2>4. 3 * Far(e[2], m) + k \in Nat /\ 3 * Far(e[2], m) + k # 0
    BY <2>3
  <2>5. AtReg(X, m, 3 * Far(e[2], m) + k, k)
    BY <2>1 DEF AtReg
  <2>6. QED
    BY <2>4, <2>5
<1>5. 1 \in 1 .. 2 /\ 2 \in 1 .. 2
  OBVIOUS
<1>6. CASE m \in Regs(input)
  BY <1>1, <1>4, <1>5, <1>6 DEF Stands
<1>7. CASE m \in Regs(output)
  BY <1>1, <1>4, <1>5, <1>7 DEF Stands
<1>8. QED
  BY <1>2, <1>3, <1>6, <1>7

\* No packet of an older message of the flow is on its way when a packet is
\* taken at its target.
LEMMA NoneOnWay ==
  ASSUME IInv, Now, NEW n \in Node, Took[n].taken, Local(n, Took[n].packet),
         NEW q \in Packets(sendBuf) \cup Pipes(pipeline) \cup Regs(input) \cup Regs(output),
         Alike(q, Took[n].packet)
  PROVE  ~(q.id < Took[n].packet.id)
<1> DEFINE k == Took[n].packet
<1> SUFFICES ASSUME q.id < k.id PROVE FALSE
  OBVIOUS
<1>1. TypeOK /\ Ordered(Ranks(sendBuf, pipeline, input, output))
  BY DEF IInv, Now, Flowing
<1>2. PICK r \in Nat : r # 0 /\ Stands(sendBuf, pipeline, input, output, q, r)
  BY StandsSomewhere
<1>3. q \in Packet
  BY <1>1, <1>2, TypesNow, StandsFacts
<1>4. k \in Packet /\ Stands(sendBuf, pipeline, input, output, k, 3 * Far(n, k) + 1)
  BY <1>1, TakenStands
<1>5. Before(q, k)
  BY DEF Before
<1>6. 3 * Far(n, k) + 1 = 1
  <2>1. Far(n, k) = 0
    BY <1>4, FarFacts DEF Local, Target
  <2>2. QED
    BY <2>1
<1>7. ~Stands(sendBuf, pipeline, input, output, q, 3 * Far(n, k) + 1)
  BY <1>1, <1>3, <1>5, TakenFirst
<1> HIDE DEF k
<1>8. r <= 1
  <2> DEFINE x == <<q, r>>
             y == <<k, 1>>
             W == Ranks(sendBuf, pipeline, input, output)
  <2>1. x \in W /\ y \in W
    BY <1>2, <1>3, <1>4, <1>6 DEF Ranks
  <2>2. Alike(x[1], y[1]) /\ Before(x[1], y[1])
    BY <1>5 DEF k
  <2> HIDE DEF W
  <2>3. x[2] <= y[2]
    BY <1>1, <2>1, <2>2 DEF Ordered, W
  <2>4. QED
    BY <2>3
<1>9. r = 1
  BY <1>2, <1>8
<1>10. QED
  BY <1>2, <1>6, <1>7, <1>9

\* Nor is any under reassembly: some other packet of its message would be on its way.
LEMMA OldestArrives ==
  ASSUME FlowInv, NEW n \in Node, Took[n].taken, Local(n, Took[n].packet),
         NEW q \in UnderWay, Alike(q, Took[n].packet)
  PROVE  Took[n].packet.id <= q.id
<1> DEFINE k == Took[n].packet
           F == Packets(sendBuf) \cup Pipes(pipeline) \cup Regs(input) \cup Regs(output)
<1>1. /\ IInv /\ Now /\ Unfinished(orderBuf) /\ TypeOK /\ Separate /\ WholeBuffers
      /\ Whole(Everything)
  BY DEF FlowInv, IInv
<1>2. k \in Packet /\ k.id \in Nat
  <2>1. k \in Packet
    BY <1>1, TakenHeld
  <2>2. QED
    BY <2>1 DEF Packet
<1>3. UnderWay = F \cup Orders(orderBuf) /\ Everything = UnderWay \cup Packets(recvBuf)
  BY UnderWayFacts DEF Under, Everything, All
<1>4. q \in Packet /\ q \in Everything /\ q.id \in Nat
  <2>1. q \in Packet /\ q \in Everything
    BY <1>1, <1>3, EverythingType
  <2>2. QED
    BY <2>1 DEF Packet
<1> HIDE DEF F, k
<1>5. CASE q \in F
  <2>1. ~(q.id < k.id)
    BY <1>1, <1>5, NoneOnWay DEF F, k
  <2>2. QED
    BY <1>2, <1>4, <2>1 DEF k
<1>6. CASE q \in Orders(orderBuf)
  <2>1. PICK h \in Node : q \in orderBuf[h]
    BY <1>6 DEF Orders
  <2>2. PICK i \in 0 .. q.count - 1 : [q EXCEPT !.idx = i] \notin orderBuf[h]
    BY <1>1, <2>1 DEF Unfinished
  <2> DEFINE z == [q EXCEPT !.idx = i]
  <2>3. z \in Everything
    BY <1>1, <1>4, <2>2 DEF Whole
  <2>4. /\ z.id = q.id /\ z.src = q.src /\ z.dst = q.dst /\ z.channel = q.channel
        /\ z.count = q.count /\ [z EXCEPT !.idx = q.idx] = q
    BY <1>4 DEF Packet
  <2>5. q.idx \in 0 .. q.count - 1
    <3>1. q.idx < q.count /\ q.idx \in Nat /\ q.count \in Nat
      BY <1>1, <1>4 DEF Whole, Packet
    <3>2. QED
      BY <3>1
  <2>6. OrderApart(orderBuf) /\ Packets(recvBuf) \cap Orders(orderBuf) = {}
    BY <1>1 DEF Separate, Apart, Disjoint
  <2>7. z \notin orderBuf[h]
    BY <2>2
  <2> HIDE DEF z
  <2>8. z \notin Orders(orderBuf)
    <3>1. SUFFICES ASSUME NEW g \in Node, z \in orderBuf[g] PROVE FALSE
      BY DEF Orders
    <3>2. g = h
      BY <2>1, <2>4, <2>6, <3>1 DEF OrderApart
    <3>3. QED
      BY <2>7, <3>1, <3>2
  <2>9. z \notin Packets(recvBuf)
    <3>1. SUFFICES ASSUME z \in Packets(recvBuf) PROVE FALSE
      OBVIOUS
    <3>2. BufType(recvBuf)
      BY <1>1 DEF TypeOK, BufType
    <3>3. PICK p \in Port, c \in Channel : \E j \in DOMAIN recvBuf[p][c] : z = recvBuf[p][c][j]
      BY <3>1, <3>2, PacketsFacts
    <3> DEFINE r == recvBuf[p][c]
    <3>4. PICK j \in DOMAIN r : z = r[j]
      BY <3>3
    <3>5. WholeSeq(r, p, c) /\ r \in Seq(Packet)
      BY <1>1, <3>2 DEF WholeBuffers, BufType
    <3> HIDE DEF r
    <3>6. /\ j - z.idx \in DOMAIN r /\ j - z.idx + z.count - 1 \in DOMAIN r
          /\ r[j - z.idx + q.idx] = q
      BY <2>4, <2>5, <3>4, <3>5 DEF WholeSeq
    <3>7. j - z.idx + q.idx \in DOMAIN r
      <4> DEFINE a == j - z.idx
                 b == q.idx
      <4>1. DOMAIN r = 1 .. Len(r) /\ Len(r) \in Nat
        BY <3>5, LenProperties
      <4>2. q.count \in Nat
        BY <1>4 DEF Packet
      <4>3. a \in 1 .. Len(r) /\ a + q.count - 1 \in 1 .. Len(r) /\ b \in 0 .. q.count - 1
        BY <2>4, <2>5, <3>6, <4>1
      <4> HIDE DEF a, b
      <4>4. a + b \in 1 .. Len(r)
        BY <4>1, <4>2, <4>3
      <4>5. QED
        BY <4>1, <4>4 DEF a, b
    <3>8. q \in Packets(recvBuf)
      BY <3>2, <3>6, <3>7, PacketsFacts DEF r
    <3>9. QED
      BY <1>6, <2>6, <3>8
  <2>10. z \in F /\ Alike(z, k)
    <3>1. z \in F
      BY <1>3, <2>3, <2>8, <2>9
    <3>2. QED
      BY <2>4, <3>1 DEF Alike, k
  <2>11. ~(z.id < k.id)
    BY <1>1, <2>10, NoneOnWay DEF F, k
  <2>12. QED
    BY <1>2, <1>4, <2>4, <2>11 DEF k
<1>7. QED
  BY <1>3, <1>5, <1>6

Finished == {n \in Node : Done(n)}
Arriving == {Letter(Took[n].packet) : n \in Finished}
Completed == UNION {Parts(Took[n].packet) : n \in Finished}

\* A message is finished by the arrival of a packet of its own, and all its
\* packets were under way.
LEMMA FinishedFacts ==
  ASSUME IInv, NEW n \in Finished
  PROVE  LET k == Took[n].packet IN
         /\ n \in Node /\ Done(n) /\ Took[n].taken /\ Local(n, k)
         /\ k \in Packet /\ k \in Everything /\ k.count # 0
         /\ k.dst \in Port /\ k.channel \in Channel /\ NodeOf[k.dst] = n
         /\ k \in UnderWay /\ Parts(k) \subseteq UnderWay
<1> DEFINE k == Took[n].packet
<1>1. TypeOK /\ Sound /\ n \in Node /\ Done(n)
  BY IInvSound DEF IInv, Finished
<1>2. Took[n].taken /\ Local(n, k)
  BY <1>1 DEF Done, Completes, Arrives
<1>3. k \in Packet /\ k \in Everything /\ k \in Packets(sendBuf) \cup Regs(output)
  BY <1>1, <1>2, TakenHeld
<1>4. NodeOf[k.dst] = n /\ \A i \in 1 .. k.count : Block(k)[i] \in Together(n, k)
  BY <1>1, DoneFacts
<1>5. k \in UnderWay
  BY <1>3, UnderWayFacts DEF Under
<1>6. orderBuf[n] \subseteq UnderWay
  <2>1. orderBuf[n] \subseteq Orders(orderBuf)
    BY <1>1 DEF Orders
  <2>2. QED
    BY <2>1, UnderWayFacts DEF Under
<1>7. Parts(k) \subseteq UnderWay
  <2>1. Together(n, k) \subseteq UnderWay
    BY <1>5, <1>6 DEF Together
  <2>2. QED
    BY <1>4, <2>1 DEF Parts
<1>8. k.count # 0 /\ k.dst \in Port /\ k.channel \in Channel
  <2>1. k.idx < k.count
    BY <1>1, <1>3 DEF Sound
  <2> HIDE DEF k
  <2>2. QED
    BY <1>3, <2>1 DEF Packet
<1>9. QED
  BY <1>1, <1>2, <1>3, <1>4, <1>5, <1>7, <1>8

\* What the ports hold once the cycle is over.
LEMMA LandedNext ==
  ASSUME IInv
  PROVE  Packets(RecvNext) = Packets(recvBuf) \cup Completed
<1>1. TypeOK /\ Sound /\ BufType(recvBuf)
  BY IInvSound DEF IInv, TypeOK, BufType
<1>2. BufType(RecvNext)
  BY <1>1, ArrivalFacts DEF IInv
<1>3. ASSUME NEW x \in Packets(RecvNext) PROVE x \in Packets(recvBuf) \cup Completed
  <2>1. PICK p \in Port, c \in Channel : \E i \in DOMAIN RecvNext[p][c] : x = RecvNext[p][c][i]
    BY <1>2, PacketsFacts
  <2>2. PICK i \in DOMAIN RecvNext[p][c] : x = RecvNext[p][c][i]
    BY <2>1
  <2> DEFINE m == Took[NodeOf[p]].packet
             j == i - Len(recvBuf[p][c])
  <2>3. \/ i \in DOMAIN recvBuf[p][c] /\ RecvNext[p][c][i] = recvBuf[p][c][i]
        \/ Gets(p, c) /\ j \in 1 .. m.count /\ RecvNext[p][c][i] = Block(m)[j]
    BY <1>1, RecvNextFacts
  <2> HIDE DEF m, j
  <2>4. CASE i \in DOMAIN recvBuf[p][c] /\ RecvNext[p][c][i] = recvBuf[p][c][i]
    BY <1>1, <2>2, <2>4, PacketsFacts
  <2>5. CASE Gets(p, c) /\ j \in 1 .. m.count /\ RecvNext[p][c][i] = Block(m)[j]
    <3>1. x \in Parts(m)
      BY <2>2, <2>5 DEF Parts
    <3>2. NodeOf[p] \in Finished
      BY <2>5, PortFacts DEF Gets, Finished
    <3>3. QED
      BY <3>1, <3>2 DEF Completed, m
  <2>6. QED
    BY <2>3, <2>4, <2>5
<1>4. ASSUME NEW x \in Packets(recvBuf) PROVE x \in Packets(RecvNext)
  <2>1. PICK p \in Port, c \in Channel : \E i \in DOMAIN recvBuf[p][c] : x = recvBuf[p][c][i]
    BY <1>1, PacketsFacts
  <2>2. PICK i \in DOMAIN recvBuf[p][c] : x = recvBuf[p][c][i]
    BY <2>1
  <2>3. i \in DOMAIN RecvNext[p][c] /\ RecvNext[p][c][i] = recvBuf[p][c][i]
    BY <1>1, RecvNextFacts
  <2>4. QED
    BY <1>2, <2>2, <2>3, PacketsFacts
<1>5. ASSUME NEW n \in Finished, NEW x \in Parts(Took[n].packet) PROVE x \in Packets(RecvNext)
  <2> DEFINE k == Took[n].packet
             p == k.dst
             c == k.channel
  <2>1. p \in Port /\ c \in Channel /\ NodeOf[p] = n /\ Done(n)
    BY FinishedFacts
  <2>2. Gets(p, c)
    BY <2>1 DEF Gets
  <2>3. PICK j \in 1 .. k.count : x = Block(k)[j]
    BY DEF Parts
  <2>4. \E i \in DOMAIN RecvNext[p][c] : RecvNext[p][c][i] = Block(k)[j]
    <3>1. \A q \in Port, e \in Channel : Gets(q, e) =>
            \A h \in 1 .. Took[NodeOf[q]].packet.count :
              \E i \in DOMAIN RecvNext[q][e] : RecvNext[q][e][i] = Block(Took[NodeOf[q]].packet)[h]
      BY <1>1, RecvNextFacts
    <3> HIDE DEF p, c
    <3>2. QED
      BY <2>1, <2>2, <2>3, <3>1
  <2> HIDE DEF k, p, c
  <2>5. QED
    BY <1>2, <2>1, <2>3, <2>4, PacketsFacts
<1>6. QED
  BY <1>3, <1>4, <1>5 DEF Completed

\* Their packets are no longer under way, and all others are.
LEMMA UnderWayNext ==
  ASSUME IInv, Tick
  PROVE  UnderWay' = UnderWay \ Completed
<1> DEFINE U == Under(Rest, OrderNext, Kept, InNext, OutNext)
<1>1. TypeOK /\ Sound /\ Separate /\ Onward(pipeline)
  BY IInvSound DEF IInv
<1>2. UnderWay' = U
  BY TickFacts, UnderWayFacts
<1>3. /\ Apart(Rest, RecvNext, OrderNext, Kept, InNext, OutNext)
      /\ All(Rest, RecvNext, OrderNext, Kept, InNext, OutNext) = Everything
  BY <1>1, CycleApart
<1>4. U \cup Packets(RecvNext) = Everything /\ U \cap Packets(RecvNext) = {}
  <2>1. U \cup Packets(RecvNext) = Everything
    BY <1>3 DEF Under, All
  <2>2. U \cap Packets(RecvNext) = {}
    BY <1>3 DEF Under, Apart, Disjoint
  <2>3. QED
    BY <2>1, <2>2
<1>5. UnderWay \cup Packets(recvBuf) = Everything /\ UnderWay \cap Packets(recvBuf) = {}
  <2>1. UnderWay = Under(sendBuf, orderBuf, pipeline, input, output)
    BY UnderWayFacts
  <2>2. UnderWay \cup Packets(recvBuf) = Everything
    BY <2>1 DEF Under, Everything, All
  <2>3. UnderWay \cap Packets(recvBuf) = {}
    BY <1>1, <2>1 DEF Under, Separate, Apart, Disjoint
  <2>4. QED
    BY <2>2, <2>3
<1>6. Packets(RecvNext) = Packets(recvBuf) \cup Completed
  BY LandedNext
<1> HIDE DEF U
<1>7. QED
  BY <1>2, <1>4, <1>5, <1>6

\* In letters: those of the finished messages leave transit.
LEMMA TransitNext ==
  ASSUME IInv, Tick
  PROVE  Transit' = Transit \ Arriving /\ Arriving \subseteq Transit
<1>1. UnderWay' = UnderWay \ Completed
  BY UnderWayNext
<1>2. ASSUME NEW n \in Finished
      PROVE  /\ Took[n].packet \in UnderWay
             /\ \A x \in Parts(Took[n].packet) : Letter(x) = Letter(Took[n].packet)
  <2>1. Took[n].packet \in UnderWay /\ Took[n].packet \in Packet /\ Took[n].packet.count # 0
    BY FinishedFacts
  <2>2. {Letter(x) : x \in Parts(Took[n].packet)} = {Letter(Took[n].packet)}
    BY <2>1, OneLetter
  <2>3. QED
    BY <2>1, <2>2
<1>3. ASSUME NEW n \in Finished, NEW x \in UnderWay, Letter(x) = Letter(Took[n].packet)
      PROVE  x \in Parts(Took[n].packet)
  <2> DEFINE k == Took[n].packet
  <2>1. k \in Packet /\ k \in Everything
    BY FinishedFacts
  <2>2. /\ Everything \in SUBSET Packet /\ Consistent(Everything) /\ Whole(Everything)
        /\ x \in Everything
    BY EverythingType, AllPackets DEF IInv
  <2>3. Everything \ Parts(k) = {y \in Everything : y.id # k.id}
    BY <2>1, <2>2, MessageGone
  <2>4. x.id = k.id
    <3>1. Letter(x).id = x.id /\ Letter(k).id = k.id
      BY DEF Letter
    <3> HIDE DEF k
    <3>2. QED
      BY <1>3, <3>1 DEF k
  <2> HIDE DEF k
  <2>5. QED
    BY <2>2, <2>3, <2>4 DEF k
<1>4. Arriving \subseteq Transit
  BY <1>2 DEF Arriving, Transit
<1>5. ASSUME NEW x \in UnderWay
      PROVE  x \in Completed <=> Letter(x) \in Arriving
  <2>1. ASSUME x \in Completed PROVE Letter(x) \in Arriving
    <3>1. PICK n \in Finished : x \in Parts(Took[n].packet)
      BY <2>1 DEF Completed
    <3>2. QED
      BY <1>2, <3>1 DEF Arriving
  <2>2. ASSUME Letter(x) \in Arriving PROVE x \in Completed
    <3>1. PICK n \in Finished : Letter(x) = Letter(Took[n].packet)
      BY <2>2 DEF Arriving
    <3>2. QED
      BY <1>3, <3>1 DEF Completed
  <2>3. QED
    BY <2>1, <2>2
<1>6. Transit' = {Letter(x) : x \in UnderWay'}
  BY DEF Transit
<1>7. {Letter(x) : x \in UnderWay'} = Transit \ Arriving
  BY <1>1, <1>5 DEF Transit
<1>8. QED
  BY <1>4, <1>6, <1>7

\* In inboxes: the letter of a finished message is the last of its inbox.
LEMMA InboxNext ==
  ASSUME IInv, Tick, NEW p \in Port, NEW c \in Channel
  PROVE  Inboxes'[p][c] = IF Gets(p, c)
           THEN Append(Inboxes[p][c], Letter(Took[NodeOf[p]].packet)) ELSE Inboxes[p][c]
<1> DEFINE r == recvBuf[p][c]
           m == Took[NodeOf[p]].packet
<1>1. TypeOK /\ Sound
  BY IInvSound DEF IInv
<1>2. recvBuf' = RecvNext
  BY TickFacts
<1>3. /\ Inboxes[p][c] = LettersOf(r)
      /\ Inboxes'[p][c] = LettersOf(RecvNext[p][c])
  <2>1. Inboxes[p][c] = LettersOf(r)
    BY DEF Inboxes
  <2> HIDE DEF r, m
  <2>2. Inboxes'[p][c] = LettersOf(recvBuf'[p][c])
    BY DEF Inboxes, LettersOf, Heads
  <2>3. QED
    BY <1>2, <2>1, <2>2
<1>4. CASE Gets(p, c)
  <2>1. r \in Seq(Packet) /\ m \in Packet /\ RecvNext[p][c] = r \o Block(m)
    BY <1>1, <1>4, RecvNextFacts
  <2>2. m.count # 0
    <3>1. NodeOf[p] \in Finished
      BY <1>4, PortFacts DEF Gets, Finished
    <3>2. QED
      BY <3>1, FinishedFacts
  <2> HIDE DEF r, m
  <2>3. LettersOf(r \o Block(m)) = Append(LettersOf(r), Letter(m))
    BY <2>1, <2>2, LettersOfAppend
  <2>4. QED
    BY <1>3, <1>4, <2>1, <2>3 DEF m
<1>5. CASE ~Gets(p, c)
  <2>1. RecvNext[p][c] = r
    BY <1>1, <1>5, RecvNextFacts
  <2>2. QED
    BY <1>3, <1>5, <2>1
<1>6. QED
  BY <1>4, <1>5

\* A cycle lets the letters of the finished messages arrive, if there are any.
LEMMA TickRefines ==
  ASSUME FlowInv, Tick
  PROVE  Bus!Deliver \/ UNCHANGED Bus!vars
<1>1. IInv /\ accepted' = accepted
  BY TickFacts DEF FlowInv
<1>2. Transit' = Transit \ Arriving /\ Arriving \subseteq Transit
  BY <1>1, TransitNext
<1>3. ASSUME NEW n
      PROVE  LET k == Took[n].packet IN
             /\ Letter(k).id = k.id /\ Letter(k).src = k.src /\ Letter(k).dst = k.dst
             /\ Letter(k).channel = k.channel
  BY DEF Letter
<1>4. \A l \in Arriving : \A x \in Transit : Bus!SameFlow(l, x) => l.id <= x.id
  <2>1. SUFFICES ASSUME NEW n \in Finished, NEW q \in UnderWay,
                        Bus!SameFlow(Letter(Took[n].packet), Letter(q))
                 PROVE  Letter(Took[n].packet).id <= Letter(q).id
    BY DEF Arriving, Transit
  <2>2. Alike(q, Took[n].packet)
    BY <2>1 DEF Bus!SameFlow, Letter, Alike
  <2>3. n \in Node /\ Took[n].taken /\ Local(n, Took[n].packet)
    BY <1>1, FinishedFacts
  <2>4. Took[n].packet.id <= q.id
    BY <2>2, <2>3, OldestArrives
  <2>5. QED
    BY <2>4 DEF Letter
<1>5. \A l, x \in Arriving : l.dst = x.dst => l = x
  <2>1. SUFFICES ASSUME NEW n \in Finished, NEW h \in Finished,
                        Letter(Took[n].packet).dst = Letter(Took[h].packet).dst
                 PROVE  n = h
    BY DEF Arriving
  <2>2. NodeOf[Took[n].packet.dst] = n /\ NodeOf[Took[h].packet.dst] = h
    BY <1>1, FinishedFacts
  <2>3. QED
    BY <1>3, <2>1, <2>2
<1>6. ASSUME NEW p \in Port, NEW c \in Channel
      PROVE  Inboxes'[p][c] = Bus!Arrived(Arriving, p, c)
  <2> DEFINE l == Letter(Took[NodeOf[p]].packet)
             For(x) == x.dst = p /\ x.channel = c
  <2>1. ASSUME NEW x \in Arriving, For(x) PROVE Gets(p, c) /\ x = l
    <3>1. PICK n \in Finished : x = Letter(Took[n].packet)
      BY DEF Arriving
    <3>2. Took[n].packet.dst = p /\ Took[n].packet.channel = c
      BY <1>3, <2>1, <3>1
    <3>3. NodeOf[p] = n /\ Done(n)
      BY <1>1, <3>2, FinishedFacts
    <3>4. QED
      BY <3>1, <3>2, <3>3 DEF Gets
  <2>2. ASSUME Gets(p, c) PROVE l \in Arriving /\ For(l)
    <3>1. NodeOf[p] \in Finished
      BY <2>2, PortFacts DEF Gets, Finished
    <3>2. QED
      BY <1>3, <2>2, <3>1 DEF Gets, Arriving
  <2>3. Inboxes'[p][c] = IF Gets(p, c) THEN Append(Inboxes[p][c], l) ELSE Inboxes[p][c]
    BY <1>1, InboxNext
  <2> HIDE DEF l
  <2>4. Bus!Arrived(Arriving, p, c) =
          IF \E x \in Arriving : For(x)
            THEN Append(Inboxes[p][c], CHOOSE x \in Arriving : For(x)) ELSE Inboxes[p][c]
    BY DEF Bus!Arrived, Inboxes, LettersOf, Heads
  <2>5. CASE Gets(p, c)
    <3>1. (CHOOSE x \in Arriving : For(x)) = l
      BY <2>1, <2>2, <2>5
    <3>2. QED
      BY <2>2, <2>3, <2>4, <2>5, <3>1
  <2>6. CASE ~Gets(p, c)
    BY <2>1, <2>3, <2>4, <2>6
  <2>7. QED
    BY <2>5, <2>6
<1>7. Inboxes' = [p \in Port |-> [c \in Channel |-> Bus!Arrived(Arriving, p, c)]]
  <2> DEFINE h == Inboxes'
             A(p, c) == Bus!Arrived(Arriving, p, c)
  <2>1. h = [p \in Port |-> [c \in Channel |-> h[p][c]]]
    BY DEF Inboxes
  <2>2. \A p \in Port, c \in Channel : h[p][c] = A(p, c)
    BY <1>6
  <2> HIDE DEF h, A
  <2>3. h = [p \in Port |-> [c \in Channel |-> A(p, c)]]
    BY <2>1, <2>2
  <2>4. QED
    BY <2>3 DEF h, A
<1>8. CASE Arriving = {}
  <2>1. Transit' = Transit
    BY <1>2, <1>8
  <2>2. ASSUME NEW p \in Port, NEW c \in Channel
        PROVE  Bus!Arrived(Arriving, p, c) = Inboxes[p][c]
    BY <1>8 DEF Bus!Arrived, Inboxes, LettersOf, Heads
  <2>3. Inboxes' = [p \in Port |-> [c \in Channel |-> Inboxes[p][c]]]
    <3> DEFINE A(p, c) == Bus!Arrived(Arriving, p, c)
    <3>1. \A p \in Port, c \in Channel : A(p, c) = Inboxes[p][c]
      BY <2>2
    <3>2. Inboxes' = [p \in Port |-> [c \in Channel |-> A(p, c)]]
      BY <1>7
    <3> HIDE DEF A
    <3>3. QED
      BY <3>1, <3>2
  <2>4. Inboxes' = Inboxes
    <3>1. Inboxes = [p \in Port |-> [c \in Channel |-> Inboxes[p][c]]]
      BY DEF Inboxes
    <3>2. QED
      BY <2>3, <3>1
  <2>5. QED
    BY <1>1, <2>1, <2>4 DEF Bus!vars, Transit, Inboxes, LettersOf, Heads
<1>9. CASE Arriving # {}
  <2>1. Bus!Arrive(Arriving)
    BY <1>1, <1>2, <1>4, <1>5, <1>7, <1>9
       DEF Bus!Arrive, Bus!OldestOfFlow, Transit, Inboxes, LettersOf, Heads
  <2>2. \E S \in SUBSET Transit : Bus!Arrive(S)
    BY <1>2, <2>1
  <2>3. QED
    BY <2>2 DEF Bus!Deliver, Transit
<1>10. QED
  BY <1>8, <1>9

\* Every step of the network is one of IBus or invisible to it.
LEMMA StepRefines == FlowInv /\ [Next]_vars => [Bus!Next]_(Bus!vars)
<1> SUFFICES ASSUME FlowInv, [Next]_vars PROVE [Bus!Next]_(Bus!vars)
  OBVIOUS
<1>1. IInv
  BY DEF FlowInv
<1>2. CASE \E p \in Port, d \in Port, c \in Channel, k \in Counts : Send(p, d, c, k)
  <2>1. PICK p \in Port, d \in Port, c \in Channel, k \in Counts : Send(p, d, c, k)
    BY <1>2
  <2>2. Bus!Send(p, d, c, Opaque)
    BY <1>1, <2>1, SendRefines
  <2>3. QED
    BY <2>2 DEF Bus!Next
<1>3. CASE \E p \in Port, c \in Channel : Recv(p, c)
  BY <1>1, <1>3, RecvRefines DEF Bus!Next
<1>4. CASE Tick
  BY <1>4, TickRefines DEF Bus!Next
<1>5. CASE UNCHANGED vars
  <2>1. /\ sendBuf' = sendBuf /\ recvBuf' = recvBuf /\ orderBuf' = orderBuf
        /\ pipeline' = pipeline /\ input' = input /\ output' = output /\ accepted' = accepted
    BY <1>5 DEF vars
  <2>2. UnderWay' = UnderWay
    BY <2>1, UnderWayFacts
  <2>3. QED
    BY <2>1, <2>2 DEF Bus!vars
<1>6. QED
  BY <1>2, <1>3, <1>4, <1>5 DEF Next

(***************************************************************************)
(* The network implements IBus, for every routing table, topology, buffer  *)
(* limit, size of messages and traffic: no message is lost, doubled or     *)
(* invented, none arrives before an older one of its flow is complete, and *)
(* recv takes messages in the order of their arrival.                      *)
(***************************************************************************)
THEOREM NetworkImplemented == Spec => Bus!Spec
<1>1. Init => Bus!Init /\ FlowInv
  BY InitRefines, InitFlowInv
<1>2. FlowInv /\ [Next]_vars => FlowInv'
  BY NextFlowInv
<1>3. FlowInv /\ [Next]_vars => [Bus!Next]_(Bus!vars)
  BY StepRefines
<1>4. QED
  BY <1>1, <1>2, <1>3, PTL DEF Spec, Bus!Spec
===============================================================================
