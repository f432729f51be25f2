-------------------------------- MODULE MCNoC --------------------------------
(***************************************************************************)
(* Instances of NoC for TLC.                                               *)
(***************************************************************************)
EXTENDS NoC, TLC

\* Packets are one unit wide; on the second channel two, twice the link.
OneChannel == [c \in 0 .. 0 |-> 1]
TwoChannels == [c \in 0 .. 1 |-> c + 1]

\* The line 0 - 1 - 2 of the tests, with two ports at its first node.
Line == 0 .. 2
LinePort == 0 .. 3
LinePortsAt == 0 :> <<3, 0>> @@ 1 :> <<1>> @@ 2 :> <<2>>
LineRoute == [s \in Line |-> [d \in Line |-> CASE d > s -> s + 1 [] d < s -> s - 1 [] d = s -> s]]
LineFlows == {<<0, 2, 0>>, <<3, 2, 0>>, <<2, 1, 0>>, <<1, 2, 0>>}

\* Rings with a port at every node.
Ring4 == 0 .. 3
OnePortEach == [n \in Node |-> <<n>>]
DoubleRing4 == DoubleRing(4)

\* The traffic of the simulated systems on the double ring: requests to the
\* memory controller at node 3 on channel 0, responses on channel 1.  The core
\* at node 2, a neighbour of the memory, only forwards.
Memory == 3
ClientFlows == {<<p, Memory, 0>> : p \in 0 .. 1} \cup {<<Memory, p, 1>> : p \in 0 .. 1}

\* The torus of three by three nodes, and three flows that cross two dimensions.
Torus9 == 0 .. 8
Torus3x3 == Torus(3, 3, TRUE)
CrossFlows == {<<6, 2, 0>>, <<1, 8, 0>>, <<7, 2, 0>>}
===============================================================================
