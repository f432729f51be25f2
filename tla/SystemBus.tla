------------------------------ MODULE SystemBus ------------------------------
(***************************************************************************)
(* The bus as the components of a simulated system share it: the harts at  *)
(* ports 0 .. Cores - 1, the memory controller at port Cores, requests on  *)
(* channel 0 and responses on channel 1, and the memory messages they      *)
(* exchange.  The bus is the one IBus promises, so that whatever holds     *)
(* here holds on SharedBus and on NoC, which implement it.                 *)
(***************************************************************************)
EXTENDS Integers, Sequences, FiniteSets

CONSTANTS
  Cores,   \* number of harts
  Address, \* the addresses of the bytes the programs touch, a set of naturals
  Byte,    \* the values of a byte; 0 is what an unwritten byte holds
  IdSpace  \* transaction ids are taken modulo IdSpace, 2^32 in the code

ASSUME SystemAssumption ==
  /\ Cores \in Nat \ {0}
  /\ Address \subseteq Nat /\ IsFiniteSet(Address)
  /\ 0 \in Byte
  /\ IdSpace \in Nat \ {0}

Hart == 0 .. Cores - 1
MemoryPort == Cores
Port == Hart \cup {MemoryPort}
Request == 0
Response == 1
Channel == {Request, Response}

\* The sequences of bytes that fit an access.
Data == UNION {[1 .. n -> Byte] : n \in 0 .. Cardinality(Address)}

MemoryRequest ==
  [op : {"Read", "Write"}, hart : Hart, transaction : 0 .. IdSpace - 1,
   address : Address, size : 1 .. Cardinality(Address), data : Data]
MemoryResponse ==
  [hart : Hart, transaction : 0 .. IdSpace - 1, data : Data]

VARIABLES transit, inbox, accepted

busVars == <<transit, inbox, accepted>>

Bus == INSTANCE IBus WITH Body <- MemoryRequest \cup MemoryResponse

\* The message recv returns next.
Received(p, c) == Head(inbox[p][c]).body
CanRecv(p, c) == inbox[p][c] # <<>>

\* The bus's apply_next_tick(): some of the messages under way may arrive.
BusTick == Bus!Deliver \/ UNCHANGED busVars
==============================================================================
