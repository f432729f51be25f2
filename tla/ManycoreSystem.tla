---------------------------- MODULE ManycoreSystem ----------------------------
(***************************************************************************)
(* The simulated system (class ManycoreSystem): in every tick the memory   *)
(* controller, then the harts in order, then the bus take their turn.  The *)
(* run ends when every hart has halted and the controller is idle; nobody  *)
(* asks the bus.                                                           *)
(***************************************************************************)
EXTENDS AtomicCore, MemoryController

VARIABLE turn \* whose turn it is: 0 the controller, i hart i - 1, Cores + 1 the bus

vars == <<turn, coreVars, memoryVars, busVars>>

Init == turn = 0 /\ CoreInit /\ MemoryInit /\ Bus!Init

Halted == \A h \in Hart : state[h] = "Halted"
Finished == Halted /\ Idle

\* finished() is asked before each tick.
MemoryTurn ==
  /\ turn = 0
  /\ ~Finished
  /\ MemoryTick
  /\ turn' = 1
  /\ UNCHANGED coreVars

CoreTurn(h) ==
  /\ turn = h + 1
  /\ CoreTick(h)
  /\ turn' = turn + 1
  /\ UNCHANGED memoryVars

BusTurn ==
  /\ turn = Cores + 1
  /\ BusTick
  /\ turn' = 0
  /\ UNCHANGED <<coreVars, memoryVars>>

Stopped == turn = 0 /\ Finished /\ UNCHANGED vars

Next == MemoryTurn \/ (\E h \in Hart : CoreTurn(h)) \/ BusTurn \/ Stopped

Spec == Init /\ [][Next]_vars

\* The loop ticks for ever, and the bus, ticked for ever, keeps delivering.
FairSpec ==
  /\ Spec
  /\ WF_vars(Next)
  /\ SF_vars(BusTurn /\ Bus!Deliver)

-------------------------------------------------------------------------------
TypeOK ==
  /\ turn \in 0 .. Cores + 1
  /\ CoreTypeOK
  /\ MemoryTypeOK
  /\ Bus!TypeOK

\* The responses for hart h, wherever they are.
Bodies(p, c) == {inbox[p][c][i].body : i \in DOMAIN inbox[p][c]}
InTransit(c) == {m.body : m \in {k \in transit : k.channel = c}}
Responses(h) ==
  {r \in InTransit(Response) \cup {response[i] : i \in DOMAIN response} : r.hart = h}
  \cup Bodies(h, Response)

\* What a hart's state says of its operation.
OperationUnderWay ==
  \A h \in Hart :
    /\ state[h] = "Executing" => current[h] \in Op /\ current[h].kind # "Halt" /\ left[h] > 0
    /\ state[h] = "MemoryIssue" => current[h] \in Op /\ current[h].kind \in {"Read", "Write"}

\* A request stays within the memory, and writes as many bytes as it says.
Fits(r) ==
  /\ r \in MemoryRequest
  /\ r.address .. r.address + r.size - 1 \subseteq Address

\* Requests are on their way to the memory, responses to their hart.
WellAddressed ==
  /\ \A m \in transit :
       \/ m.channel = Request /\ m.dst = MemoryPort /\ Fits(m.body)
       \/ m.channel = Response /\ m.dst = m.body.hart /\ m.body \in MemoryResponse
  /\ \A i \in DOMAIN inbox[MemoryPort][Request] : Fits(inbox[MemoryPort][Request][i].body)
  /\ \A i \in DOMAIN queue : Fits(queue[i])
  /\ \A i \in DOMAIN active : Fits(active[i].request)
  /\ \A h \in Hart : \A i \in DOMAIN inbox[h][Response] :
       inbox[h][Response][i].body \in MemoryResponse /\ inbox[h][Response][i].body.hart = h

\* The harts with a message in transit, with a request in the inbox of the memory,
\* in its queue or in service, with a response there, and in their own inbox.
Travelling == {m.body.hart : m \in transit}
Requesting == {inbox[MemoryPort][Request][i].body.hart : i \in DOMAIN inbox[MemoryPort][Request]}
Queueing == {queue[i].hart : i \in DOMAIN queue}
InService == {active[i].request.hart : i \in DOMAIN active}
Answered == {response[i].hart : i \in DOMAIN response}
Returned == {h \in Hart : inbox[h][Response] # <<>>}

\* A hart waits iff it has a message in one of these places, and then in one only.
OnePlace ==
  /\ {h \in Hart : state[h] = "MemoryWait"} =
       Travelling \cup Requesting \cup Queueing \cup InService \cup Answered \cup Returned
  /\ Travelling \cap (Requesting \cup Queueing \cup InService \cup Answered \cup Returned) = {}
  /\ Requesting \cap (Queueing \cup InService \cup Answered \cup Returned) = {}
  /\ Queueing \cap (InService \cup Answered \cup Returned) = {}
  /\ InService \cap (Answered \cup Returned) = {}
  /\ Answered \cap Returned = {}

\* No place holds two messages of a hart.
OneThere ==
  /\ \A m, k \in transit : m.body.hart = k.body.hart => m = k
  /\ \A i, j \in DOMAIN inbox[MemoryPort][Request] :
       inbox[MemoryPort][Request][i].body.hart = inbox[MemoryPort][Request][j].body.hart => i = j
  /\ \A i, j \in DOMAIN queue : queue[i].hart = queue[j].hart => i = j
  /\ \A h \in Hart : Len(inbox[h][Response]) <= 1

\* Every message has the id its hart waits for.
RightId ==
  /\ \A m \in transit : m.body.transaction = waitingId[m.body.hart]
  /\ \A i \in DOMAIN inbox[MemoryPort][Request] :
       inbox[MemoryPort][Request][i].body.transaction =
         waitingId[inbox[MemoryPort][Request][i].body.hart]
  /\ \A i \in DOMAIN queue : queue[i].transaction = waitingId[queue[i].hart]
  /\ \A i \in DOMAIN active :
       active[i].request.transaction = waitingId[active[i].request.hart]
  /\ \A i \in DOMAIN response : response[i].transaction = waitingId[response[i].hart]
  /\ \A h \in Hart : \A i \in DOMAIN inbox[h][Response] :
       inbox[h][Response][i].body.transaction = waitingId[h]

(***************************************************************************)
(* A hart never throws "core received an unexpected memory response": all  *)
(* that is under way for a hart is the one request it waits for or its     *)
(* response, in one place of the bus or the memory, although refused sends *)
(* use up transaction ids and ids wrap around.  A hart that does not wait  *)
(* has nothing under way.  Countdowns and the request queue keep to their  *)
(* ranges.                                                                 *)
(***************************************************************************)
NoUnexpectedResponse ==
  TypeOK /\ OperationUnderWay /\ WellAddressed /\ OnePlace /\ OneThere /\ RightId

(***************************************************************************)
(* The harts see an atomic memory: each read and write takes effect at one *)
(* moment, on all its bytes, between its issue and its retirement.         *)
(***************************************************************************)
AccessOf(o) == [op |-> o.kind, address |-> o.address, size |-> o.size, data |-> o.data]

\* The requests the memory has not yet carried out, wherever they are.
Asked ==
  InTransit(Request) \cup Bodies(MemoryPort, Request)
  \cup {queue[i] : i \in DOMAIN queue} \cup {active[i].request : i \in DOMAIN active}

\* What the refinement needs beyond NoUnexpectedResponse: a hart waits for a memory
\* operation, and the request under way asks for that operation.
RequestsCurrent ==
  /\ \A h \in Hart : state[h] = "MemoryWait" =>
       current[h] \in Op /\ current[h].kind \in {"Read", "Write"}
  /\ \A r \in Asked :
       AccessOf(current[r.hart]) =
         [op |-> r.op, address |-> r.address, size |-> r.size, data |-> r.data]

Memory == INSTANCE AtomicMemory WITH
  Access <- {AccessOf(o) : o \in {x \in Op : x.kind \in {"Read", "Write"}}},
  mem <- bytes,
  last <- lastRead,
  call <- [h \in Hart |->
    IF state[h] # "MemoryWait" THEN [phase |-> "Quiet"]
    ELSE IF Responses(h) = {} THEN [phase |-> "Called", access |-> AccessOf(current[h])]
    ELSE [phase |-> "Done", access |-> AccessOf(current[h]),
          result |-> (CHOOSE r \in Responses(h) : TRUE).data]]

MemorySpec == Memory!Spec

(***************************************************************************)
(* Every run of finite programs ends: no request is refused for ever, no   *)
(* response is dropped, and the harts and the controller cannot wait for   *)
(* each other, however often sends are refused meanwhile.  When it ends    *)
(* nothing is under way in the bus or waiting in an inbox, although        *)
(* finished() asks only the harts and the controller.                      *)
(***************************************************************************)
Quiescent == transit = {} /\ \A p \in Port, c \in Channel : inbox[p][c] = <<>>

Termination == <>(Finished /\ Quiescent)
==============================================================================
