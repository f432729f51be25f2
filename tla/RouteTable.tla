------------------------------ MODULE RouteTable ------------------------------
(***************************************************************************)
(* The routing tables of noc: table[src][dst] is the node a packet for dst *)
(* leaves src for.  A table is edited one entry at a time (module          *)
(* RouteWalk), or generated as a whole for a ring, a double ring or a      *)
(* two-dimensional torus; a network is only built from a table that        *)
(* route_table_valid accepts.  Nodes are numbered by their position in the *)
(* node list of the generators, whatever their ids.                        *)
(***************************************************************************)
EXTENDS Integers, FiniteSets

-------------------------------------------------------------------------------
(***************************************************************************)
(* The generators, over n, or x * y, nodes numbered from 0.                *)
(***************************************************************************)

\* genroute_single_ring: always on to the next node.
SingleRing(n) ==
  [s \in 0 .. n - 1 |-> [d \in 0 .. n - 1 |-> IF d = s THEN s ELSE (s + 1) % n]]

\* Mutant: half of the nodes, rounded up, are reached forwards.
ForwardReach_RoundUp(n) == (n + 1) \div 2

\* genroute_double_ring reaches this many nodes forwards, the rest backwards.
ForwardReach(n) == n \div 2

DoubleRing(n) ==
  [s \in 0 .. n - 1 |-> [d \in 0 .. n - 1 |->
     CASE d = s -> s
       [] d # s /\ (d - s) % n <= ForwardReach(n) -> (s + 1) % n
       [] OTHER -> (s - 1) % n]]

\* One step along one dimension of size n from i to j; both directions are
\* used only if double.
StepTowards(i, j, n, double) ==
  IF double /\ (i - j) % n < (j - i) % n THEN (i - 1) % n ELSE (i + 1) % n

\* genroute_mesh2d_xy: first along x, then along y, wrapping around.
Torus(x, y, double) ==
  LET XOf(i) == i % x
      YOf(i) == i \div x
  IN [s \in 0 .. x * y - 1 |-> [d \in 0 .. x * y - 1 |->
       CASE d = s -> s
         [] XOf(d) # XOf(s) -> StepTowards(XOf(s), XOf(d), x, double) + YOf(s) * x
         [] OTHER -> XOf(s) + StepTowards(YOf(s), YOf(d), y, double) * x]]

-------------------------------------------------------------------------------
(***************************************************************************)
(* route_table_valid: follow the table from every node to every other.     *)
(***************************************************************************)
HasEntry(t, s, d) == s \in DOMAIN t /\ d \in DOMAIN t[s]

\* The walk from s for d gets to d, within as many hops as there are nodes.  It
\* stays where it is at d and where the code gives up: at a node without an entry
\* and outside the network.  (A walk that meets a node twice never gets to d.)
Reaches(t, nodes, s, d) ==
  LET walk[h \in 0 .. Cardinality(nodes)] ==
        IF h = 0 THEN s
        ELSE LET cur == walk[h - 1] IN
             IF cur # d /\ cur \in nodes /\ HasEntry(t, cur, d) THEN t[cur][d] ELSE cur
  IN walk[Cardinality(nodes)] = d

\* Mutant: only walks from the lower-numbered to the higher-numbered node.
Valid_Half(t, nodes) == \A s, d \in nodes : s < d => Reaches(t, nodes, s, d)

Valid(t, nodes) == \A s, d \in nodes : Reaches(t, nodes, s, d)
===============================================================================
