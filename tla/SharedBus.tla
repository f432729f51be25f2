------------------------------- MODULE SharedBus -------------------------------
(***************************************************************************)
(* The serialized bus of rv64-manycore-sim (class SharedBus).  Ports queue *)
(* messages; an arbiter puts one of them at a time on the bus, where it    *)
(* stays AddressCycles + DataCycles cycles before it enters the inbox of   *)
(* its destination.  Channel 0 carries requests, channel 1 responses.  A   *)
(* send reserves one of ReceiveSlots receive slots of its destination; the *)
(* slot is given back when the destination receives the message.           *)
(*                                                                         *)
(* The callers of the bus are free here: a port may send on any of its     *)
(* Flows at any time between two cycles, and receive whatever has arrived. *)
(*                                                                         *)
(* A message is identified by id, its rank among all the messages the bus  *)
(* has accepted (the sum of the ports' `requests' statistics); its bytes   *)
(* play no role.  tick_ is not kept: a message carries its age, which is   *)
(* tick_ - enqueued cut off at StarvationThreshold, the only value it is   *)
(* compared with.  Statistics nothing reads are left out.                  *)
(***************************************************************************)
EXTENDS Integers, Sequences, FiniteSets, RoundRobin

CONSTANTS
  N,                   \* number of ports
  AddressCycles,       \* SharedBusConfig::address_cycles
  DataCycles,          \* SharedBusConfig::data_cycles
  QueueDepth,          \* SharedBusConfig::queue_depth
  ReceiveSlots,        \* SharedBusConfig::receive_slots, 0 is unlimited
  StarvationThreshold, \* SharedBusConfig::starvation_threshold
  FixedPriority,       \* SharedBusConfig::fixed_priority
  Flows,               \* the <<source, destination, channel>> its callers use
  MaxMessages          \* bound of the model: messages accepted in a behaviour

Port == 0 .. N - 1
Request == 0
Response == 1
Channel == {Request, Response}

\* What the constructor requires; the other parameters are unsigned.
ASSUME ConfigAssumption ==
  /\ N \in Nat \ {0}
  /\ AddressCycles \in Nat \ {0}
  /\ DataCycles \in Nat \ {0}
  /\ QueueDepth \in Nat \ {0}
  /\ StarvationThreshold \in Nat \ {0}
  /\ ReceiveSlots \in Nat
  /\ FixedPriority \in BOOLEAN
  /\ Flows \subseteq Port \X Port \X Channel
  /\ MaxMessages \in Nat

Message ==
  [id : Nat, src : Port, dst : Port, channel : Channel, age : Nat, warned : BOOLEAN]

VARIABLES
  pending,   \* pending_: per port, the messages waiting for the bus
  active,    \* active_: the message on the bus, a sequence of length 0 or 1
  remaining, \* remaining_: cycles the active message still needs
  inbox,     \* inbox_: per port and channel, the messages that have arrived
  reserved,  \* reserved_: per port and channel, the receive slots taken
  next,      \* next_: where the round-robin scan starts
  accepted,  \* the number of messages accepted so far
  starved,   \* per port, stats_.starvation_events
  overtaken  \* auxiliary: per port, the requests of other ports granted
             \* since its current front request reached the front

vars == <<pending, active, remaining, inbox, reserved, next, accepted, starved, overtaken>>

-------------------------------------------------------------------------------
Init ==
  /\ pending = [p \in Port |-> <<>>]
  /\ active = <<>>
  /\ remaining = 0
  /\ inbox = [p \in Port |-> [c \in Channel |-> <<>>]]
  /\ reserved = [p \in Port |-> [c \in Channel |-> 0]]
  /\ next = 0
  /\ accepted = 0
  /\ starved = [p \in Port |-> 0]
  /\ overtaken = [p \in Port |-> 0]

CanSend(p) == Len(pending[p]) < QueueDepth

\* Mutant: off by one in the comparison with the limit.
HasCredit_OneMore(d, c) == ReceiveSlots = 0 \/ reserved[d][c] <= ReceiveSlots

HasCredit(d, c) == ReceiveSlots = 0 \/ reserved[d][c] < ReceiveSlots

\* An accepted send.  A refused one changes nothing but a statistic.
Send(p, d, c) ==
  /\ <<p, d, c>> \in Flows
  /\ CanSend(p)
  /\ HasCredit(d, c)
  /\ accepted < MaxMessages
  /\ accepted' = accepted + 1
  /\ pending' = [pending EXCEPT ![p] = Append(@,
       [id |-> accepted', src |-> p, dst |-> d, channel |-> c, age |-> 0, warned |-> FALSE])]
  /\ reserved' = [reserved EXCEPT ![d][c] = @ + 1]
  /\ UNCHANGED <<active, remaining, inbox, next, starved, overtaken>>

CanRecv(p, c) == inbox[p][c] # <<>>

\* Mutant: the receive slot is not given back.
Recv_Leak(p, c) ==
  /\ CanRecv(p, c)
  /\ inbox' = [inbox EXCEPT ![p][c] = Tail(@)]
  /\ UNCHANGED <<pending, active, remaining, reserved, next, accepted, starved, overtaken>>

\* Mutant: the newest message is taken.
Recv_Newest(p, c) ==
  /\ CanRecv(p, c)
  /\ inbox' = [inbox EXCEPT ![p][c] = SubSeq(@, 1, Len(@) - 1)]
  /\ reserved' = [reserved EXCEPT ![p][c] = @ - 1]
  /\ UNCHANGED <<pending, active, remaining, next, accepted, starved, overtaken>>

Recv(p, c) ==
  /\ CanRecv(p, c)
  /\ inbox' = [inbox EXCEPT ![p][c] = Tail(@)]
  /\ reserved' = [reserved EXCEPT ![p][c] = @ - 1]
  /\ UNCHANGED <<pending, active, remaining, next, accepted, starved, overtaken>>

-------------------------------------------------------------------------------
(***************************************************************************)
(* One bus cycle.                                                          *)
(***************************************************************************)

\* The ports whose front message is on channel c: only fronts compete.
Contenders(c) == {p \in Port : pending[p] # <<>> /\ Head(pending[p]).channel = c}

\* Mutant: only requests are arbitrated while there are any.
Candidates_RequestsOnly == Contenders(Request)

\* Responses go first under both policies.
Candidates == IF Contenders(Response) # {} THEN Contenders(Response) ELSE Contenders(Request)

ScanStart == IF FixedPriority THEN 0 ELSE next

Winner(p) == MetFirst(p, ScanStart, Candidates, N)

\* What a cycle does to a message that is left waiting.
Older(m) ==
  LET w == m.age + 1 IN
  [m EXCEPT !.age = IF w < StarvationThreshold THEN w ELSE StarvationThreshold,
            !.warned = @ \/ w >= StarvationThreshold]

NewlyStarved(q) ==
  {i \in DOMAIN q : q[i].age + 1 >= StarvationThreshold /\ ~q[i].warned}

\* The messages in queues wait for another cycle.
Wait(queues) ==
  /\ pending' = [p \in Port |-> [i \in DOMAIN queues[p] |-> Older(queues[p][i])]]
  /\ starved' = [p \in Port |-> starved[p] + Cardinality(NewlyStarved(queues[p]))]

\* p is granted its message m: p's next front starts afresh; if m is a request
\* the other ports whose front is a request have been overtaken once more.
Overtake(p, m) ==
  [q \in Port |-> CASE q = p -> 0
                    [] q # p /\ m.channel = Request /\ q \in Contenders(Request)
                         -> overtaken[q] + 1
                    [] OTHER -> overtaken[q]]

\* Mutant: the scan pointer also moves on a response grant.
ScanAfter_Any(p, m) == Successor(p, N)

\* Where the next scan starts once p has been granted its message m: a
\* response leaves the scan of the requests alone.
ScanAfter(p, m) == IF m.channel = Request THEN Successor(p, N) ELSE next

\* Mutant: the cycle of the grant does not count as a cycle of the transfer.
CyclesAfterGrant_Extra == AddressCycles + DataCycles

\* The granted message spends the cycle of its grant on the bus already.
CyclesAfterGrant == AddressCycles + DataCycles - 1

\* The bus is free and p wins it.  Since both cycle counts are positive its
\* message cannot be delivered in this cycle.
Grant(p) ==
  LET m == Head(pending[p]) IN
  /\ active = <<>>
  /\ Winner(p)
  /\ active' = <<m>>
  /\ remaining' = CyclesAfterGrant
  /\ next' = ScanAfter(p, m)
  /\ overtaken' = Overtake(p, m)
  /\ Wait([pending EXCEPT ![p] = Tail(@)])
  /\ UNCHANGED <<inbox, reserved, accepted>>

Transfer ==
  /\ active # <<>>
  /\ remaining > 1
  /\ remaining' = remaining - 1
  /\ Wait(pending)
  /\ UNCHANGED <<active, inbox, reserved, next, accepted, overtaken>>

\* The last cycle of a transfer.
Deliver ==
  LET m == active[1] IN
  /\ active # <<>>
  /\ remaining = 1
  /\ remaining' = 0
  /\ active' = <<>>
  /\ inbox' = [inbox EXCEPT ![m.dst][m.channel] = Append(@, m)]
  /\ Wait(pending)
  /\ UNCHANGED <<reserved, next, accepted, overtaken>>

\* Nothing to grant: the cycle only counts as idle.
Idle ==
  /\ active = <<>>
  /\ Candidates = {}
  /\ UNCHANGED vars

Tick == (\E p \in Port : Grant(p)) \/ Transfer \/ Deliver \/ Idle

-------------------------------------------------------------------------------
Next ==
  \/ \E p \in Port, d \in Port, c \in Channel : Send(p, d, c)
  \/ \E p \in Port, c \in Channel : Recv(p, c)
  \/ Tick

Spec == Init /\ [][Next]_vars

\* The system loop calls the tick once per cycle for ever, whatever else happens.
FairSpec == Spec /\ WF_vars(Tick)

-------------------------------------------------------------------------------
TypeOK ==
  /\ pending \in [Port -> Seq(Message)]
  /\ active \in Seq(Message)
  /\ remaining \in 0 .. AddressCycles + DataCycles - 1
  /\ inbox \in [Port -> [Channel -> Seq(Message)]]
  /\ reserved \in [Port -> [Channel -> Nat]]
  /\ next \in Port
  /\ accepted \in Nat
  /\ starved \in [Port -> Nat]
  /\ overtaken \in [Port -> Nat]

\* The messages the bus holds for port d on channel c, by id: still queued, on
\* the bus, or arrived and not yet received.
Queued(p) == {pending[p][i] : i \in DOMAIN pending[p]}
OnBus == {active[i] : i \in DOMAIN active}
Arrived(d, c) == {inbox[d][c][i] : i \in DOMAIN inbox[d][c]}
UnderWay == OnBus \cup UNION {Queued(p) : p \in Port}
Addressed(d, c) == {m \in UnderWay : m.dst = d /\ m.channel = c}
Held(d, c) == {m.id : m \in Addressed(d, c) \cup Arrived(d, c)}

(***************************************************************************)
(* The receive slots taken at a port are the messages on their way to it   *)
(* or waiting in its inbox, each counted once, from the send that accepts  *)
(* the message to the receive that takes it; so the unsigned counter never *)
(* underflows, no slot leaks, and at most ReceiveSlots are ever taken.     *)
(***************************************************************************)
CreditConservation ==
  \A d \in Port, c \in Channel :
    /\ reserved[d][c] = Cardinality(Held(d, c))
    /\ ReceiveSlots # 0 => reserved[d][c] <= ReceiveSlots

(***************************************************************************)
(* Under round robin a request that has reached the front of its queue     *)
(* sees at most one grant to every other port before its own: it has been  *)
(* overtaken at most once by each of the N - 1 - Distance other ports the  *)
(* scan has left behind, however the responses that go first are           *)
(* interleaved (a response grant leaves the scan pointer alone).           *)
(***************************************************************************)
BoundedOvertaking ==
  ~FixedPriority =>
    \A p \in Contenders(Request) : overtaken[p] + Distance(next, p, N) <= N - 1

(***************************************************************************)
(* The bus keeps the promise of IBus: no loss, no duplicate, and every     *)
(* flow in order, under both arbitration policies.                         *)
(***************************************************************************)
Opaque == "bytes"
Letter(m) ==
  [id |-> m.id, src |-> m.src, dst |-> m.dst, channel |-> m.channel, body |-> Opaque]

Bus == INSTANCE IBus WITH
  Body <- {Opaque},
  transit <- {Letter(m) : m \in UnderWay},
  inbox <- [p \in Port |-> [c \in Channel |->
             [i \in DOMAIN inbox[p][c] |-> Letter(inbox[p][c][i])]]]

BusSpec == Bus!Spec

\* A send is refused only when IBus lets it be: a full queue, or receive slots
\* all taken, means messages under way or waiting in that inbox.
RefusalsExplained ==
  \A f \in Flows :
    ~Bus!MayRefuse(f[2], f[3]) => CanSend(f[1]) /\ HasCredit(f[2], f[3])

\* With the bus ticked for ever, messages under way keep arriving.
BusFairSpec == Bus!FairSpec

-------------------------------------------------------------------------------
(***************************************************************************)
(* The inductive invariant behind CreditConservation, BoundedOvertaking    *)
(* and the refinement of IBus.                                             *)
(***************************************************************************)

\* remaining counts down only while a message is on the bus.
ActiveShape == Len(active) <= 1 /\ (remaining = 0 <=> active = <<>>)

\* A message is queued at its source and arrives at its destination.
QueuedAtSource ==
  \A p \in Port : \A i \in DOMAIN pending[p] : pending[p][i].src = p
ArrivedAtDestination ==
  \A d \in Port, c \in Channel : \A i \in DOMAIN inbox[d][c] :
    inbox[d][c][i].dst = d /\ inbox[d][c][i].channel = c

\* Ids are those of accepted messages, and a queue holds them in order.
IdsAccepted ==
  /\ \A p \in Port : \A i \in DOMAIN pending[p] : pending[p][i].id \in 1 .. accepted
  /\ \A i \in DOMAIN active : active[i].id \in 1 .. accepted
  /\ \A d \in Port, c \in Channel : \A i \in DOMAIN inbox[d][c] :
       inbox[d][c][i].id \in 1 .. accepted
QueuesInOrder ==
  \A p \in Port : \A i, j \in DOMAIN pending[p] :
    i < j => pending[p][i].id < pending[p][j].id
BusBeforeQueue ==
  \A p \in Port : \A i \in DOMAIN pending[p], j \in DOMAIN active :
    active[j].src = p => active[j].id < pending[p][i].id

\* No message is in two places.
QueuesApart ==
  \A p, q \in Port : \A i \in DOMAIN pending[p], j \in DOMAIN pending[q] :
    pending[p][i].id = pending[q][j].id => p = q
InboxesApart ==
  \A d, e \in Port, c, k \in Channel :
    \A i \in DOMAIN inbox[d][c], j \in DOMAIN inbox[e][k] :
      inbox[d][c][i].id = inbox[e][k][j].id => d = e /\ c = k /\ i = j
QueueInboxApart ==
  \A p \in Port, d \in Port, c \in Channel :
    \A i \in DOMAIN pending[p], j \in DOMAIN inbox[d][c] :
      pending[p][i].id # inbox[d][c][j].id
QueueBusApart ==
  \A p \in Port : \A i \in DOMAIN pending[p], j \in DOMAIN active :
    pending[p][i].id # active[j].id
InboxBusApart ==
  \A d \in Port, c \in Channel : \A i \in DOMAIN inbox[d][c], j \in DOMAIN active :
    inbox[d][c][i].id # active[j].id
OneCopy == QueuesApart /\ InboxesApart /\ QueueInboxApart /\ QueueBusApart /\ InboxBusApart

\* Only a port whose front is a request can be overtaken.
OvertakenIsWaiting ==
  \A p \in Port : overtaken[p] > 0 => p \in Contenders(Request)

IInv ==
  /\ TypeOK
  /\ ActiveShape
  /\ QueuedAtSource
  /\ ArrivedAtDestination
  /\ IdsAccepted
  /\ QueuesInOrder
  /\ BusBeforeQueue
  /\ OneCopy
  /\ OvertakenIsWaiting
  /\ CreditConservation
  /\ BoundedOvertaking
===============================================================================
