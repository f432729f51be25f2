--------------------------------- MODULE NoC ---------------------------------
(***************************************************************************)
(* The packet network of noc (class SymmetricMultiChannelBus).  A message  *)
(* is cut into packets.  In a cycle every node takes at most one packet,   *)
(* from an incoming edge or else from a local port; a packet for a local   *)
(* port is reassembled, another one goes through the node's pipeline to    *)
(* the edge its route names; and every edge moves packets from its input   *)
(* to its output registers.  A full pipeline blocks the node's intake, and *)
(* so the edges behind it; a congested node stops local sends.             *)
(*                                                                         *)
(* The callers are free: a port may send messages of any of the sizes      *)
(* Counts along any of its Flows at any time between two cycles, and       *)
(* receive whatever is complete.                                           *)
(*                                                                         *)
(* Nodes are independent within a cycle: a node reads and clears only the  *)
(* outputs of its incoming edges and fills only the inputs of its outgoing *)
(* ones; so their steps are taken at once.  A message is identified by     *)
(* its rank among the accepted ones, which is its xmtid until 2^32         *)
(* messages have been sent.  Payload bytes and statistics are left out.    *)
(***************************************************************************)
EXTENDS Sequences, Functions, RoundRobin, RouteTable

CONSTANTS
  Node,           \* the nodes
  Port,           \* the ports
  PortsAt,        \* per node, the sequence of its ports in the order of its map
  Route,          \* the routing table: Route[node][target] is the next node
  ChannelCount,   \* cha_cnt_
  Width,          \* cha_widths_: per channel, the size of its packets
  LinkWidth,      \* link_width_byte_: what an edge moves in one cycle
  RouteLatency,   \* route_latency_: cycles a packet spends in a pipeline
  Congestion,     \* CongestionConfig::enabled
  BufferLimit,    \* CongestionConfig::node_buffer_limit
  High, Low,      \* CongestionConfig::high_watermark, low_watermark
  Slots,          \* NocConfig::receive_message_slots, 0 is unlimited
  Flows,          \* the <<source, destination, channel>> the callers use
  Counts,         \* the numbers of packets of their messages
  MaxMessages,    \* bound of the model: messages accepted in a behaviour
  NoPacket        \* a register that holds no packet

Channel == 0 .. ChannelCount - 1

\* What the constructor requires.
ASSUME ConfigAssumption ==
  /\ ChannelCount \in Nat \ {0}
  /\ Width \in [Channel -> Nat \ {0}]
  /\ LinkWidth \in Nat \ {0}
  /\ RouteLatency \in Nat
  /\ Congestion \in BOOLEAN
  /\ Congestion => /\ BufferLimit \in Nat \ {0}
                   /\ High \in 0 .. BufferLimit
                   /\ Low \in 0 .. High
  /\ Slots \in Nat
  /\ Node \subseteq Nat /\ IsFiniteSet(Node)
  /\ PortsAt \in [Node -> Seq(Port)]
  /\ \A p \in Port : \E n \in Node : p \in Range(PortsAt[n])
  /\ \A n, k \in Node : \A i \in DOMAIN PortsAt[n], j \in DOMAIN PortsAt[k] :
       PortsAt[n][i] = PortsAt[k][j] => n = k /\ i = j
  /\ Route \in [Node -> [Node -> Node]] /\ Valid(Route, Node)
  /\ Flows \subseteq Port \X Port \X Channel
  /\ Counts \subseteq Nat \ {0}
  /\ MaxMessages \in Nat

\* MsgPack: packet idx of the count packets of message id.
Packet == [id : Nat, src : Port, dst : Port, channel : Channel, idx : Nat, count : Nat]

\* A register without a packet can be told from one with a packet.
ASSUME NoPacketAssumption == NoPacket \notin Packet

\* The node a port is attached to (port2node_), the target of its packets.
NodeOf == [p \in Port |-> CHOOSE n \in Node : p \in Range(PortsAt[n])]

\* The edges: one for every hop of the table, in both directions.
Edge ==
  LET hops == {<<s, Route[s][d]>> : s \in Node, d \in Node} IN
  {e \in hops \cup {<<h[2], h[1]>> : h \in hops} : e[1] # e[2]}

\* The numbers of a finite set in ascending order.
Ascending(S) ==
  [i \in 1 .. Cardinality(S) |-> CHOOSE x \in S : Cardinality({y \in S : y < x}) = i - 1]

\* The nodes at the other end of the incoming edges of n, in scan order.
Rxs == [n \in Node |-> Ascending({e[1] : e \in {x \in Edge : x[2] = n}})]

VARIABLES
  sendBuf,   \* send_buf: per port and channel, the packets to be taken
  recvBuf,   \* recv_buf: per port and channel, the packets of complete messages
  orderBuf,  \* order_buf: per node, the packets of messages being reassembled
  pipeline,  \* pipeline: per node, packets and the cycles they still have to wait
  buffered,  \* buffered_packets: per node
  congested, \* congested: per node
  input,     \* EdgeInChannel::input: per edge and channel, a packet or NoPacket
  output,    \* EdgeInChannel::output: likewise
  rxPtr,     \* rx_ptr: per node, the position in Rxs the scan starts at
  sdPtr,     \* sd_ptr: per node, the position in PortsAt the scan starts at
  reserved,  \* reserved: per port and channel, the receive slots taken
  accepted   \* xmtid_alloc_: the number of messages accepted so far

vars == <<sendBuf, recvBuf, orderBuf, pipeline, buffered, congested, input, output,
          rxPtr, sdPtr, reserved, accepted>>

Init ==
  /\ sendBuf = [p \in Port |-> [c \in Channel |-> <<>>]]
  /\ recvBuf = [p \in Port |-> [c \in Channel |-> <<>>]]
  /\ orderBuf = [n \in Node |-> {}]
  /\ pipeline = [n \in Node |-> <<>>]
  /\ buffered = [n \in Node |-> 0]
  /\ congested = [n \in Node |-> FALSE]
  /\ input = [e \in Edge |-> [c \in Channel |-> NoPacket]]
  /\ output = [e \in Edge |-> [c \in Channel |-> NoPacket]]
  /\ rxPtr = [n \in Node |-> 0]
  /\ sdPtr = [n \in Node |-> 0]
  /\ reserved = [p \in Port |-> [c \in Channel |-> 0]]
  /\ accepted = 0

-------------------------------------------------------------------------------
(***************************************************************************)
(* The calls of the ports.                                                 *)
(***************************************************************************)
CanSend(p, c) ==
  /\ sendBuf[p][c] = <<>>
  /\ Congestion => ~congested[NodeOf[p]] /\ buffered[NodeOf[p]] < BufferLimit

HasCredit(d, c) == Slots = 0 \/ reserved[d][c] < Slots

\* An accepted send of a message of k packets.
Send(p, d, c, k) ==
  /\ <<p, d, c>> \in Flows
  /\ CanSend(p, c)
  /\ HasCredit(d, c)
  /\ accepted < MaxMessages
  /\ accepted' = accepted + 1
  /\ sendBuf' = [sendBuf EXCEPT ![p][c] = @ \o
       [i \in 1 .. k |-> [id |-> accepted', src |-> p, dst |-> d, channel |-> c,
                          idx |-> i - 1, count |-> k]]]
  /\ reserved' = IF Slots = 0 THEN reserved ELSE [reserved EXCEPT ![d][c] = @ + 1]
  /\ UNCHANGED <<recvBuf, orderBuf, pipeline, buffered, congested, input, output,
                 rxPtr, sdPtr>>

CanRecv(p, c) ==
  recvBuf[p][c] # <<>> /\ Len(recvBuf[p][c]) >= Head(recvBuf[p][c]).count

\* Mutant: the receive slot is not given back.
Recv_Leak(p, c) ==
  /\ CanRecv(p, c)
  /\ recvBuf' = [recvBuf EXCEPT ![p][c] = SubSeq(@, Head(@).count + 1, Len(@))]
  /\ UNCHANGED <<sendBuf, orderBuf, pipeline, buffered, congested, input, output,
                 rxPtr, sdPtr, reserved, accepted>>

\* A receive: it throws when the packets are not those of one message in order.
Recv(p, c) ==
  /\ CanRecv(p, c)
  /\ recvBuf' = [recvBuf EXCEPT ![p][c] = SubSeq(@, Head(@).count + 1, Len(@))]
  /\ reserved' = IF Slots = 0 THEN reserved ELSE [reserved EXCEPT ![p][c] = @ - 1]
  /\ UNCHANGED <<sendBuf, orderBuf, pipeline, buffered, congested, input, output,
                 rxPtr, sdPtr, accepted>>

-------------------------------------------------------------------------------
(***************************************************************************)
(* A cycle at node n: the intake.                                          *)
(***************************************************************************)
Lowest(channels) == CHOOSE c \in channels : \A k \in channels : c <= k

\* The channels on which an incoming edge, a local port has a packet.
EdgeOffers(e) == {c \in Channel : output[e][c] # NoPacket}
PortOffers(p) == {c \in Channel : sendBuf[p][c] # <<>>}

\* The positions in Rxs[n], in PortsAt[n] that have one.
RxReady(n) == {i \in 0 .. Len(Rxs[n]) - 1 : EdgeOffers(<<Rxs[n][i + 1], n>>) # {}}
SdReady(n) == {i \in 0 .. Len(PortsAt[n]) - 1 : PortOffers(PortsAt[n][i + 1]) # {}}

Local(n, m) == NodeOf[m.dst] = n

\* Mutant: off by one in the comparison with the limit.
CanAccept_OneMore(n, m) == Local(n, m) \/ ~Congestion \/ buffered[n] <= BufferLimit

\* A packet to be forwarded needs room in the pipeline, a local one does not.
CanAccept(n, m) == Local(n, m) \/ ~Congestion \/ buffered[n] < BufferLimit

\* A candidate of node n: packet m on channel c of place, which the scan of the
\* edges or of the ports (from) met at position i.
Met(n, from, i, place, c, m) ==
  [from |-> from, position |-> i, place |-> place, channel |-> c, packet |-> m,
   taken |-> CanAccept(n, m)]

\* find_candidate: the edges go before the ports; the lowest channel goes first.
Candidate(n) ==
  LET i == CHOOSE k \in RxReady(n) : MetFirst(k, rxPtr[n], RxReady(n), Len(Rxs[n]))
      j == CHOOSE k \in SdReady(n) : MetFirst(k, sdPtr[n], SdReady(n), Len(PortsAt[n]))
      e == <<Rxs[n][i + 1], n>>
      p == PortsAt[n][j + 1]
      ce == Lowest(EdgeOffers(e))
      cp == Lowest(PortOffers(p))
  IN CASE RxReady(n) # {} -> Met(n, "edge", i, e, ce, output[e][ce])
       [] RxReady(n) = {} /\ SdReady(n) # {} ->
            Met(n, "port", j, p, cp, Head(sendBuf[p][cp]))
       [] OTHER -> [from |-> "none", taken |-> FALSE]

\* The scan stops at the candidate k, and goes past it once it has been taken.
PtrAfter(ptr, from, k, size) ==
  CASE k.from = from /\ k.taken -> Successor(k.position, size)
    [] k.from = from /\ ~k.taken -> k.position
    [] OTHER -> ptr

\* detach_candidate: the packet taken leaves its place.
TakenFrom(k, from, place, c) ==
  k.from = from /\ k.taken /\ k.place = place /\ k.channel = c

\* The packets of the message of m at node n once m has been taken there.
Together(n, m) == {q \in orderBuf[n] : q.id = m.id} \cup {m}

\* order_buf keeps them sorted by idx.
InOrder(packets) ==
  [i \in 1 .. Cardinality(packets) |->
     CHOOSE m \in packets : Cardinality({q \in packets : q.idx < m.idx}) = i - 1]

\* deliver_to_local_port: a packet for a port of n was taken, and completes
\* its message or not.
Arrives(n, k) == k.taken /\ Local(n, k.packet)

\* Mutant: every packet is passed on as it comes.
Completes_AtOnce(n, k) == Arrives(n, k)

Completes(n, k) ==
  Arrives(n, k) /\ Cardinality(Together(n, k.packet)) = k.packet.count

OrderAfter(n, k) ==
  CASE Completes(n, k) -> orderBuf[n] \ Together(n, k.packet)
    [] Arrives(n, k) /\ ~Completes(n, k) -> orderBuf[n] \cup {k.packet}
    [] OTHER -> orderBuf[n]

\* The receive buffer of port p and channel c, k being the candidate at p's node.
RecvAfter(p, c, k) ==
  IF Completes(NodeOf[p], k) /\ k.packet.dst = p /\ k.packet.channel = c
    THEN recvBuf[p][c] \o InOrder(Together(NodeOf[p], k.packet))
    ELSE recvBuf[p][c]

-------------------------------------------------------------------------------
(***************************************************************************)
(* A cycle at node n: the pipeline, the taken packet included.             *)
(***************************************************************************)
Forwards(n, k) == k.taken /\ ~Local(n, k.packet)

\* The pipeline once the candidate k has been admitted.
Admit(n, k) ==
  IF Forwards(n, k)
    THEN Append(pipeline[n], [packet |-> k.packet, wait |-> RouteLatency])
    ELSE pipeline[n]

\* The edge and the channel a packet leaves node n on.
Exit(n, m) == [edge |-> <<n, Route[n][NodeOf[m.dst]]>>, channel |-> m.channel]

\* Mutant: the register is only checked as it was before the cycle.
Released_Overwrite(n, q) ==
  LET exit(i) == Exit(n, q[i].packet) IN
  {i \in DOMAIN q :
     q[i].wait = 0 /\ input[exit(i).edge][exit(i).channel] = NoPacket}

\* The positions in the pipeline q of node n that leave: those that have waited
\* enough, find their register free, and come before the others that want it.
Released(n, q) ==
  LET exit(i) == Exit(n, q[i].packet) IN
  {i \in DOMAIN q :
     /\ q[i].wait = 0
     /\ input[exit(i).edge][exit(i).channel] = NoPacket
     /\ \A j \in 1 .. i - 1 : q[j].wait = 0 => exit(j) # exit(i)}

\* The others stay and wait on.
Keep(q, released) ==
  LET kept == Ascending(DOMAIN q \ released)
  IN [i \in DOMAIN kept |-> [q[kept[i]] EXCEPT !.wait = IF @ = 0 THEN 0 ELSE @ - 1]]

\* Mutant: a packet that leaves is still counted.
BufferedAfter_Leak(n, k, released) ==
  IF Congestion /\ Forwards(n, k) THEN buffered[n] + 1 ELSE buffered[n]

\* buffered_packets, counted only with congestion control.
BufferedAfter(n, k, released) ==
  CASE ~Congestion -> buffered[n]
    [] Congestion /\ Forwards(n, k) -> buffered[n] + 1 - Cardinality(released)
    [] Congestion /\ ~Forwards(n, k) -> buffered[n] - Cardinality(released)

\* The input registers of edge e, q and released being those of its origin.
Fill(e, q, released) ==
  [c \in Channel |->
     LET came == {i \in released : Exit(e[1], q[i].packet) = [edge |-> e, channel |-> c]}
     IN IF came = {} THEN input[e][c] ELSE q[CHOOSE i \in came : TRUE].packet]

-------------------------------------------------------------------------------
(***************************************************************************)
(* A cycle: the edges, and the congestion flags.                           *)
(***************************************************************************)

\* Mutant: a packet wider than the link never moves.
Moved_OnlyFitting(in, out) ==
  LET movable == {c \in Channel : in[c] # NoPacket /\ out[c] = NoPacket}
      fits(c, used) == c \in movable /\ used + Width[c] <= LinkWidth
      used[c \in 0 .. ChannelCount] ==
        IF c = 0 THEN 0
        ELSE used[c - 1] + (IF fits(c - 1, used[c - 1]) THEN Width[c - 1] ELSE 0)
  IN {c \in Channel : fits(c, used[c])}

\* process_edge: the channels whose packet moves from the input registers in
\* to the output registers out.  They share the link, lower channels first; the
\* first packet moves even if it is wider than the link.
Moved(in, out) ==
  LET movable == {c \in Channel : in[c] # NoPacket /\ out[c] = NoPacket}
      fits(c, used) ==
        c \in movable /\ used < LinkWidth /\ (used = 0 \/ used + Width[c] <= LinkWidth)
      used[c \in 0 .. ChannelCount] ==
        IF c = 0 THEN 0
        ELSE used[c - 1] + (IF fits(c - 1, used[c - 1]) THEN Width[c - 1] ELSE 0)
  IN {c \in Channel : fits(c, used[c])}

\* Mutant: the flag is only cleared below the low watermark.
Update_Below(was, k) ==
  CASE ~Congestion -> FALSE
    [] Congestion /\ ~was /\ k >= High -> TRUE
    [] Congestion /\ was /\ k < Low -> FALSE
    [] OTHER -> was

\* update_congestion_state with k packets buffered.
Update(was, k) ==
  CASE ~Congestion -> FALSE
    [] Congestion /\ ~was /\ k >= High -> TRUE
    [] Congestion /\ was /\ k <= Low -> FALSE
    [] OTHER -> was

\* It runs at the end of process_node and again at the end of the cycle.
CongestedAfter(n, k) == Update(Update(congested[n], k), k)

\* A cycle.  Each \E names the one value of its set: the candidates, the pipelines
\* with the packets taken, the positions released, and the registers of the edges.
Tick ==
  \E took \in {[n \in Node |-> Candidate(n)]} :
  \E queue \in {[n \in Node |-> Admit(n, took[n])]} :
  \E gone \in {[n \in Node |-> Released(n, queue[n])]} :
  \E in \in {[e \in Edge |-> Fill(e, queue[e[1]], gone[e[1]])]} :
  \E out \in {[e \in Edge |-> [c \in Channel |->
                 IF TakenFrom(took[e[2]], "edge", e, c) THEN NoPacket ELSE output[e][c]]]} :
  \E moved \in {[e \in Edge |-> Moved(in[e], out[e])]} :
  /\ sendBuf' = [p \in Port |-> [c \in Channel |->
       IF TakenFrom(took[NodeOf[p]], "port", p, c) THEN Tail(sendBuf[p][c]) ELSE sendBuf[p][c]]]
  /\ recvBuf' = [p \in Port |-> [c \in Channel |-> RecvAfter(p, c, took[NodeOf[p]])]]
  /\ orderBuf' = [n \in Node |-> OrderAfter(n, took[n])]
  /\ pipeline' = [n \in Node |-> Keep(queue[n], gone[n])]
  /\ buffered' = [n \in Node |-> BufferedAfter(n, took[n], gone[n])]
  /\ congested' = [n \in Node |-> CongestedAfter(n, buffered'[n])]
  /\ input' = [e \in Edge |-> [c \in Channel |->
       IF c \in moved[e] THEN NoPacket ELSE in[e][c]]]
  /\ output' = [e \in Edge |-> [c \in Channel |->
       IF c \in moved[e] THEN in[e][c] ELSE out[e][c]]]
  /\ rxPtr' = [n \in Node |-> PtrAfter(rxPtr[n], "edge", took[n], Len(Rxs[n]))]
  /\ sdPtr' = [n \in Node |-> PtrAfter(sdPtr[n], "port", took[n], Len(PortsAt[n]))]
  /\ UNCHANGED <<reserved, accepted>>

-------------------------------------------------------------------------------
Next ==
  \/ \E p \in Port, d \in Port, c \in Channel, k \in Counts : Send(p, d, c, k)
  \/ \E p \in Port, c \in Channel : Recv(p, c)
  \/ Tick

Spec == Init /\ [][Next]_vars

\* The network is ticked once per cycle for ever, whatever its callers do.
FairSpec == Spec /\ WF_vars(Tick)

-------------------------------------------------------------------------------
TypeOK ==
  /\ sendBuf \in [Port -> [Channel -> Seq(Packet)]]
  /\ recvBuf \in [Port -> [Channel -> Seq(Packet)]]
  /\ orderBuf \in [Node -> SUBSET Packet]
  /\ pipeline \in [Node -> Seq([packet : Packet, wait : 0 .. RouteLatency])]
  /\ buffered \in [Node -> Nat]
  /\ congested \in [Node -> BOOLEAN]
  /\ input \in [Edge -> [Channel -> Packet \cup {NoPacket}]]
  /\ output \in [Edge -> [Channel -> Packet \cup {NoPacket}]]
  /\ \A n \in Node : rxPtr[n] = 0 \/ rxPtr[n] \in 0 .. Len(Rxs[n]) - 1
  /\ \A n \in Node : sdPtr[n] = 0 \/ sdPtr[n] \in 0 .. Len(PortsAt[n]) - 1
  /\ reserved \in [Port -> [Channel -> Nat]]
  /\ accepted \in Nat

\* The packets the network holds, by place.
Queued(p, c) == Range(sendBuf[p][c])
Piped(n) == {pipeline[n][i].packet : i \in DOMAIN pipeline[n]}
Linked(e) == {r[e][c] : r \in {input, output}, c \in Channel} \ {NoPacket}
Landed(p, c) == Range(recvBuf[p][c])

UnderWay ==
  (UNION {Queued(p, c) : p \in Port, c \in Channel})
  \cup (UNION {Piped(n) \cup orderBuf[n] : n \in Node})
  \cup (UNION {Linked(e) : e \in Edge})
Complete == UNION {Landed(p, c) : p \in Port, c \in Channel}

\* The places of the network with the packet each of them holds.
Buffers(kind, buf) ==
  UNION {{[at |-> <<kind, p, c, i>>, packet |-> buf[p][c][i]] : i \in DOMAIN buf[p][c]} :
           p \in Port, c \in Channel}
Registers(kind, regs) ==
  {r \in {[at |-> <<kind, e, c>>, packet |-> regs[e][c]] : e \in Edge, c \in Channel} :
     r.packet # NoPacket}
Held ==
  Buffers("send", sendBuf) \cup Buffers("recv", recvBuf)
  \cup Registers("input", input) \cup Registers("output", output)
  \cup (UNION {{[at |-> <<"pipeline", n, i>>, packet |-> pipeline[n][i].packet] :
                  i \in DOMAIN pipeline[n]} : n \in Node})
  \cup (UNION {{[at |-> <<"order", n>>, packet |-> m] : m \in orderBuf[n]} : n \in Node})

(***************************************************************************)
(* No packet is lost or doubled on its way through send buffers, pipelines,*)
(* registers and reassembly: until a message is received as a whole, the   *)
(* network holds each of its packets at exactly one place.                 *)
(***************************************************************************)
PacketsConserved ==
  /\ \A x, y \in Held : x.packet = y.packet => x.at = y.at
  /\ \A m \in UnderWay \cup Complete : \A i \in 0 .. m.count - 1 :
       [m EXCEPT !.idx = i] \in UnderWay \cup Complete

(***************************************************************************)
(* A receive buffer holds whole messages, one after the other, each with   *)
(* its packets in order, although the packets of several messages arrive   *)
(* interleaved: recv never throws "packet order error", and a buffer that  *)
(* is not empty has a message to receive.                                  *)
(***************************************************************************)
MessagesWhole ==
  \A p \in Port, c \in Channel :
    LET r == recvBuf[p][c] IN
    \A i \in DOMAIN r :
      /\ r[i].dst = p /\ r[i].channel = c
      /\ i - r[i].idx \in DOMAIN r
      /\ i - r[i].idx + r[i].count - 1 \in DOMAIN r
      /\ \A k \in 0 .. r[i].count - 1 : r[i - r[i].idx + k] = [r[i] EXCEPT !.idx = k]

(***************************************************************************)
(* With bounded reception the receive slots taken at a port are the        *)
(* messages for it the network holds, complete or not, and at most Slots:  *)
(* a reserved message keeps its slot through forwarding and reassembly,    *)
(* and recv never throws "destination credit underflow".                   *)
(***************************************************************************)
CreditConservation ==
  Slots # 0 =>
    \A p \in Port, c \in Channel :
      /\ reserved[p][c] =
           Cardinality({m.id : m \in {k \in UnderWay \cup Complete : k.dst = p /\ k.channel = c}})
      /\ reserved[p][c] <= Slots

(***************************************************************************)
(* With congestion control a router never holds more than BufferLimit      *)
(* packets, and its counter is right although it is read for the intake    *)
(* before the pipeline releases packets in the same cycle; so releases     *)
(* never throw "router buffer underflow".  The pointers of the intake      *)
(* scans stay within their rings, and every register holds a packet or     *)
(* none.                                                                   *)
(***************************************************************************)
BuffersBounded ==
  /\ TypeOK
  /\ Congestion => \A n \in Node : buffered[n] = Len(pipeline[n]) /\ buffered[n] <= BufferLimit

(***************************************************************************)
(* A congested node recovers: whatever raised the flag, the packets it     *)
(* holds drain down to the low watermark and local sends are possible      *)
(* again, although the watermarks are far apart and no send of its own     *)
(* ports can prompt it.                                                    *)
(***************************************************************************)
CongestionClears == \A n \in Node : congested[n] ~> ~congested[n]

(***************************************************************************)
(* The network keeps the promise of IBus: every message exactly once and   *)
(* every flow in order, whatever the sizes of its messages; and ticked for *)
(* ever, it keeps delivering messages while it holds any.                  *)
(***************************************************************************)
Opaque == "bytes"
Letter(m) ==
  [id |-> m.id, src |-> m.src, dst |-> m.dst, channel |-> m.channel, body |-> Opaque]

Bus == INSTANCE IBus WITH
  Body <- {Opaque},
  transit <- {Letter(m) : m \in UnderWay},
  inbox <- [p \in Port |-> [c \in Channel |->
             LET firsts == Ascending({i \in DOMAIN recvBuf[p][c] : recvBuf[p][c][i].idx = 0})
             IN [i \in DOMAIN firsts |-> Letter(recvBuf[p][c][firsts[i]])]]]

BusFairSpec == Bus!FairSpec

(***************************************************************************)
(* A send is refused only when IBus lets it be: once the last packet has   *)
(* landed no node is left congested and no receive slot or send buffer is  *)
(* left taken.  Until then the slots taken are exactly those of the        *)
(* messages under way.                                                     *)
(***************************************************************************)
RefusalsExplained ==
  /\ CreditConservation
  /\ \A f \in Flows :
       ~Bus!MayRefuse(f[2], f[3]) => CanSend(f[1], f[3]) /\ HasCredit(f[2], f[3])

(***************************************************************************)
(* Reassembly always finishes: "Its packets must be admitted without an    *)
(* additional local packet limit so a partial message can always finish    *)
(* reassembly."                                                            *)
(***************************************************************************)
Partial(id) == \E n \in Node : \E m \in orderBuf[n] : m.id = id
ReassemblyFinishes == \A id \in 1 .. MaxMessages : Partial(id) ~> ~Partial(id)
===============================================================================
