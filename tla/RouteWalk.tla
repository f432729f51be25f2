------------------------------ MODULE RouteWalk ------------------------------
(***************************************************************************)
(* A routing table is generated, perhaps edited one entry at a time, given *)
(* to a network, which only accepts what route_table_valid does, and then  *)
(* followed by a packet, hop by hop as next_hop sends it.                  *)
(***************************************************************************)
EXTENDS RouteTable, Sequences

CONSTANTS
  Rings,            \* the sizes of the rings
  Widths, Heights,  \* the sizes of the tori
  Edited,           \* the sizes of single rings whose table is edited
  Stranger          \* nodes an edited entry may name that are not nodes of the network

\* The generators require at least one node.
ASSUME SizesAssumption ==
  /\ Rings \subseteq Nat \ {0} /\ Edited \subseteq Nat \ {0}
  /\ Widths \subseteq Nat \ {0} /\ Heights \subseteq Nat \ {0}

VARIABLES
  topology,  \* [kind, x, y]: y is 1 for a ring
  table,     \* BusRouteTable, a partial function of partial functions
  dst,       \* the destination of the packet
  trail      \* the nodes it has been at; empty before the network is built

vars == <<topology, table, dst, trail>>

Topology ==
  [kind : {"single ring", "double ring"}, x : Rings, y : {1}] \cup
  [kind : {"edited ring"}, x : Edited, y : {1}] \cup
  [kind : {"mesh", "double mesh"}, x : Widths, y : Heights]

Table(t) ==
  CASE t.kind \in {"single ring", "edited ring"} -> SingleRing(t.x)
    [] t.kind = "double ring" -> DoubleRing(t.x)
    [] t.kind = "mesh" -> Torus(t.x, t.y, FALSE)
    [] t.kind = "double mesh" -> Torus(t.x, t.y, TRUE)

Node == 0 .. topology.x * topology.y - 1

-------------------------------------------------------------------------------
Init ==
  /\ topology \in Topology
  /\ table = Table(topology)
  /\ dst = 0
  /\ trail = <<>>

Editing == topology.kind = "edited ring" /\ trail = <<>>

\* route_insert overwrites the entry or adds it, creating the row.
RouteInsert(s, d, hop) ==
  /\ Editing
  /\ table' = [r \in DOMAIN table \cup {s} |->
                IF r = s
                  THEN [e \in (IF s \in DOMAIN table THEN DOMAIN table[s] ELSE {}) \cup {d} |->
                          IF e = d THEN hop ELSE table[s][e]]
                  ELSE table[r]]
  /\ UNCHANGED <<topology, dst, trail>>

\* route_delete removes the entry, and the row with its last entry.
RouteDelete(s, d) ==
  LET rest == DOMAIN table[s] \ {d} IN
  /\ Editing
  /\ s \in DOMAIN table
  /\ table' = IF rest = {}
                THEN [r \in DOMAIN table \ {s} |-> table[r]]
                ELSE [table EXCEPT ![s] = [e \in rest |-> table[s][e]]]
  /\ UNCHANGED <<topology, dst, trail>>

\* The constructor of the network throws on a table that is not valid.
Depart(s, d) ==
  /\ trail = <<>>
  /\ Valid(table, Node)
  /\ trail' = <<s>>
  /\ dst' = d
  /\ UNCHANGED <<topology, table>>

At == trail[Len(trail)]

Hop ==
  /\ trail # <<>>
  /\ At # dst
  /\ trail' = Append(trail, table[At][dst])
  /\ UNCHANGED <<topology, table, dst>>

Next ==
  \/ \E s, d \in Node, hop \in Node \cup Stranger : s # d /\ RouteInsert(s, d, hop)
  \/ \E s, d \in Node : s # d /\ RouteDelete(s, d)
  \/ \E s, d \in Node : Depart(s, d)
  \/ Hop

Spec == Init /\ [][Next]_vars

-------------------------------------------------------------------------------
\* A destination is reached from everywhere iff the nodes can be ranked so that
\* every entry for it leads to a node of lower rank.
Ranked(d) ==
  \E rank \in [Node -> 0 .. Cardinality(Node) - 1] :
    \A s \in Node \ {d} :
      HasEntry(table, s, d) /\ table[s][d] \in Node /\ rank[table[s][d]] < rank[s]

(***************************************************************************)
(* route_table_valid accepts a table iff no packet can loop, fall off an   *)
(* entry that is missing or leave the network, whatever edits led to it:   *)
(* its bounded walk with a set of visited nodes is a full loop check.  So  *)
(* next_hop never throws on a table that was accepted, and a packet never  *)
(* meets a node twice.                                                     *)
(***************************************************************************)
ValidIsLoopFree ==
  /\ Editing => (Valid(table, Node) <=> \A d \in Node : Ranked(d))
  /\ \A i, j \in DOMAIN trail : i # j => trail[i] # trail[j]
  /\ \A i \in DOMAIN trail : trail[i] \in Node

\* The length of the shortest way from i to j around a circle of n nodes.
Around(i, j, n, double) ==
  IF double /\ (i - j) % n < (j - i) % n THEN (i - j) % n ELSE (j - i) % n

Shortest(i, j) ==
  LET double == topology.kind \in {"double ring", "double mesh"}
      x == topology.x
  IN Around(i % x, j % x, x, double) + Around(i \div x, j \div x, topology.y, double)

(***************************************************************************)
(* The network accepts every generated table, and it takes a packet along  *)
(* a shortest way its topology has, from any node to any other, for odd    *)
(* and even sizes and across the wrap-around: each hop brings it one node  *)
(* nearer.  In a torus a packet that has left its row is already in the    *)
(* column of its destination: it never turns back from y to x.             *)
(***************************************************************************)
GeneratedRoutes ==
  topology.kind # "edited ring" =>
    IF trail = <<>> THEN Valid(table, Node)
    ELSE /\ Len(trail) - 1 + Shortest(At, dst) = Shortest(trail[1], dst)
         /\ At \div topology.x # trail[1] \div topology.x => At % topology.x = dst % topology.x
===============================================================================
