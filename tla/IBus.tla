--------------------------------- MODULE IBus ---------------------------------
(***************************************************************************)
(* What every bus of the simulator promises its callers (the interfaces    *)
(* BusInterfaceV2 and IBus): a message that send accepts arrives in the    *)
(* inbox of its destination port and channel exactly once; two messages    *)
(* of one flow (same source, destination and channel) arrive in the order  *)
(* in which they were sent; a port gets at most one message per cycle; and *)
(* receive takes the messages of an inbox in the order of their arrival.   *)
(* A send is refused only while a message is under way or waits in the     *)
(* inbox the send is for.  How long a message is under way and which flow  *)
(* goes first is left open.                                                *)
(***************************************************************************)
EXTENDS Integers, Sequences

CONSTANTS Port, Channel, Body

\* Messages are told apart by id, their rank among the accepted ones; the body
\* is what the bytes of the message say, which the bus never looks at.
Letter == [id : Nat, src : Port, dst : Port, channel : Channel, body : Body]

VARIABLES
  transit,  \* the set of messages accepted and not yet arrived
  inbox,    \* per port and channel, the arrived messages, oldest first
  accepted  \* the number of messages accepted so far

vars == <<transit, inbox, accepted>>

TypeOK ==
  /\ transit \in SUBSET Letter
  /\ inbox \in [Port -> [Channel -> Seq(Letter)]]
  /\ accepted \in Nat

Init ==
  /\ transit = {}
  /\ inbox = [p \in Port |-> [c \in Channel |-> <<>>]]
  /\ accepted = 0

\* send() returned true.
Send(p, d, c, b) ==
  /\ accepted' = accepted + 1
  /\ transit' = transit \cup
       {[id |-> accepted', src |-> p, dst |-> d, channel |-> c, body |-> b]}
  /\ UNCHANGED inbox

\* When send() or can_send() may return false for a message to d on c.
MayRefuse(d, c) == transit # {} \/ inbox[d][c] # <<>>

\* recv() returned true.
Recv(p, c) ==
  /\ inbox[p][c] # <<>>
  /\ inbox' = [inbox EXCEPT ![p][c] = Tail(@)]
  /\ UNCHANGED <<transit, accepted>>

SameFlow(m, k) == m.src = k.src /\ m.dst = k.dst /\ m.channel = k.channel

OldestOfFlow(m) == \A k \in transit : SameFlow(m, k) => m.id <= k.id

\* The inbox of port d and channel c after the messages in S have arrived.
Arrived(S, d, c) ==
  IF \E m \in S : m.dst = d /\ m.channel = c
    THEN Append(inbox[d][c], CHOOSE m \in S : m.dst = d /\ m.channel = c)
    ELSE inbox[d][c]

\* A cycle in which the messages in S arrive.
Arrive(S) ==
  /\ S # {}
  /\ \A m \in S : OldestOfFlow(m)
  /\ \A m, k \in S : m.dst = k.dst => m = k
  /\ transit' = transit \ S
  /\ inbox' = [d \in Port |-> [c \in Channel |-> Arrived(S, d, c)]]
  /\ UNCHANGED accepted

Deliver == \E S \in SUBSET transit : Arrive(S)

Next ==
  \/ \E p \in Port, d \in Port, c \in Channel, b \in Body : Send(p, d, c, b)
  \/ \E p \in Port, c \in Channel : Recv(p, c)
  \/ Deliver

Spec == Init /\ [][Next]_vars

\* A bus that is ticked for ever does not keep a message under way for ever.
FairSpec == Spec /\ WF_vars(Deliver)
===============================================================================
