------------------------------ MODULE Rv64System ------------------------------
(***************************************************************************)
(* The simulated system of RV64 harts (class Rv64ManycoreSystem): in every *)
(* tick the memory controller, then the harts in order, each its window    *)
(* before itself, then the bus.  The run ends when every hart has stopped, *)
(* the windows have drained and the controller is idle, or as soon as a    *)
(* hart has faulted.                                                       *)
(***************************************************************************)
EXTENDS Rv64Core, MemoryController

CONSTANT AccessSize \* the sizes of the accesses the programs make

ASSUME SizeAssumption == AccessSize \subseteq {1, 2, 4, 8}

VARIABLE turn \* 0 the controller, 2h + 1 the window of hart h, 2h + 2 hart h, then the bus

vars == <<turn, core, adapter, memoryVars, busVars>>

Init == turn = 0 /\ CoreInit /\ AdapterInit /\ MemoryInit /\ Bus!Init

Finished == (\A h \in Hart : Ended(h) /\ ~Busy(adapter[h])) /\ Idle
AnyFaulted == \E h \in Hart : State(h) = "Faulted"
Succeeded == Finished /\ ~AnyFaulted /\ \A h \in Hart : core[h].exit = 0

Over == turn = 0 /\ (Finished \/ AnyFaulted)

MemoryTurn ==
  /\ turn = 0 /\ ~Over
  /\ MemoryTick
  /\ turn' = 1
  /\ UNCHANGED <<core, adapter>>

\* A window that throws faults its hart, even a halted one.
WindowTurn(h) ==
  /\ turn = 2 * h + 1
  /\ \E sent \in BOOLEAN :
       /\ AdapterTick(h, sent)
       /\ core' = IF AdapterThrows(h, sent) THEN [core EXCEPT ![h] = Faulted(@)] ELSE core
  /\ turn' = turn + 1
  /\ UNCHANGED memoryVars

CoreTurn(h) ==
  /\ turn = 2 * h + 2
  /\ CoreTick(h)
  /\ turn' = turn + 1
  /\ UNCHANGED memoryVars

BusTurn ==
  /\ turn = 2 * Cores + 1
  /\ BusTick
  /\ turn' = 0
  /\ UNCHANGED <<core, adapter, memoryVars>>

RunEnded == Over /\ UNCHANGED vars

Next == MemoryTurn \/ (\E h \in Hart : WindowTurn(h) \/ CoreTurn(h)) \/ BusTurn \/ RunEnded

Spec == Init /\ [][Next]_vars

\* The loop ticks for ever, and the bus, ticked for ever, keeps delivering.
FairSpec ==
  /\ Spec
  /\ WF_vars(Next)
  /\ SF_vars(BusTurn /\ Bus!Deliver)

-------------------------------------------------------------------------------
\* The requests of hart h that have been sent, and the responses for it.
Bodies(p, c) == {inbox[p][c][i].body : i \in DOMAIN inbox[p][c]}
InTransit(c) == {m.body : m \in {k \in transit : k.channel = c}}
Requests(h) ==
  {r \in InTransit(Request) \cup Bodies(MemoryPort, Request)
         \cup {queue[i] : i \in DOMAIN queue}
         \cup {active[i].request : i \in DOMAIN active} : r.hart = h}
Responses(h) ==
  {r \in InTransit(Response) \cup {response[i] : i \in DOMAIN response} : r.hart = h}
  \cup Bodies(h, Response)
UnderWay(h) == Requests(h) \cup Responses(h)

Commands(h) == adapter[h].requests
Sent(h) == {i \in DOMAIN Commands(h) : Commands(h)[i].sent}

(***************************************************************************)
(* The hart and its window share a port and neither takes the other's      *)
(* response ("normal and vector requests cannot steal responses"): what is *)
(* under way for a hart is either its own one request, and then the window *)
(* is idle, or exactly the commands its window has sent, each once.  So no *)
(* run faults with an unexpected response, even when ids wrap around.      *)
(***************************************************************************)
NoStolenResponse ==
  \A h \in Hart :
    LET ids == {r.transaction : r \in UnderWay(h)} IN
    IF State(h) = "MemoryWait"
      THEN ~Busy(adapter[h]) /\ ids = {core[h].id} /\ Cardinality(UnderWay(h)) = 1
      ELSE /\ ids = {Commands(h)[i].request.transaction : i \in Sent(h)}
           /\ Cardinality(UnderWay(h)) = Cardinality(Sent(h))

(***************************************************************************)
(* Commands complete in the order in which they were given: the results    *)
(* waiting to be popped and the commands still queued have consecutive     *)
(* ids up to the last one given, although responses are matched by id.     *)
(* Together they never exceed the depth: a result always finds room.       *)
(***************************************************************************)
IdsGiven(h) ==
  [i \in DOMAIN adapter[h].results |-> adapter[h].results[i].id]
  \o [i \in DOMAIN Commands(h) |-> Commands(h)[i].request.transaction]

CommandsInOrder ==
  Depth > 1 =>
    \A h \in Hart :
      LET ids == IdsGiven(h) IN
      /\ Len(ids) <= Depth
      /\ \A i \in DOMAIN ids :
           ids[i] = IdSpace \div 2 + adapter[h].next - 1 - (Len(ids) - i)

(***************************************************************************)
(* A fence that retires leaves nothing of its hart behind: no command      *)
(* queued, in the bus, in the memory's queue or on the way back.           *)
(***************************************************************************)
FenceRetires(h) ==
  /\ State(h) = "ExecuteWait" /\ Pending(h).kind = "Fence"
  /\ core'[h].state = "FetchDecode"

FenceDrains ==
  [][\A h \in Hart : FenceRetires(h) => Commands(h) = <<>> /\ UnderWay(h) = {}]_vars

(***************************************************************************)
(* The harts see one memory: the accesses of a hart, its own and those it  *)
(* starts through its window, take effect in program order, and every      *)
(* result is what the memory held then, until it is popped.                *)
(***************************************************************************)
AccessOf(r) == [op |-> r.op, address |-> r.address, size |-> r.size, data |-> r.data]
ResponseValue(h, r) ==
  Number((CHOOSE a \in Responses(h) : a.transaction = r.transaction).data)

\* The requests along each path, oldest first.
Path == {"core", "window"}
Calls(h) ==
  [core |-> IF State(h) = "MemoryWait" THEN <<RequestOf(h)>> ELSE <<>>,
   window |-> [i \in DOMAIN Commands(h) |-> Commands(h)[i].request]]
Kept(h) ==
  [core |-> <<>>,
   window |-> [i \in DOMAIN adapter[h].results |-> adapter[h].results[i].data]]

\* The elements of s at the positions S, in their order.
Picked(s, S) ==
  [k \in 1 .. Cardinality(S) |-> s[CHOOSE i \in S : Cardinality({j \in S : j <= i}) = k]]

\* The requests s of hart h that have a response, by position.
Came(h, s) ==
  LET ids == {a.transaction : a \in Responses(h)} IN {i \in DOMAIN s : s[i].transaction \in ids}

\* The accesses that have not taken effect, and the values of those that have.
Awaited(h, p) ==
  LET s == Calls(h)[p]
      waits == Picked(s, DOMAIN s \ Came(h, s))
  IN [i \in DOMAIN waits |-> AccessOf(waits[i])]
Obtained(h, p) ==
  LET s == Calls(h)[p]
      came == Picked(s, Came(h, s))
  IN Kept(h)[p] \o [i \in DOMAIN came |-> ResponseValue(h, came[i])]

\* Every byte of an access is one of the memory's.
Accesses ==
  {a \in [op : {"Read"}, address : Address, size : AccessSize, data : {<<>>}]
           \cup UNION {[op : {"Write"}, address : Address, size : {n}, data : [1 .. n -> Byte]] :
                         n \in AccessSize} :
     a.address .. a.address + a.size - 1 \subseteq Address}

\* The programs keep to the memory and to the sizes of their accesses: those of the
\* instructions, unless they are for the window, and those their windows are given.
InstructionsWithin ==
  \A n \in DOMAIN Image :
    LET i == Image[n]
        op == IF i.kind \in {"Store", "VStore"} THEN "Write" ELSE "Read"
    IN i.kind \in {"Load", "Store", "VLoad", "VStore"} =>
         \A k \in DOMAIN i.parts :
           LET a == i.parts[k] IN
           \/ Overlaps(a.address, a.size)
           \/ [op |-> op, address |-> a.address, size |-> a.size, data |-> a.data] \in Accesses
CommandsWithin ==
  \A h \in Hart : \A i \in DOMAIN Commands(h) : AccessOf(Commands(h)[i].request) \in Accesses
ProgramsWithin == InstructionsWithin /\ CommandsWithin

Memory == INSTANCE OrderedMemory WITH
  Access <- Accesses,
  Value <- Number,
  mem <- bytes,
  pending <- [h \in Hart |-> [p \in Path |-> Awaited(h, p)]],
  done <- [h \in Hart |-> [p \in Path |-> Obtained(h, p)]]

MemorySpec == Memory!Spec

\* The fields keep their types: in particular the ids of a deep window's commands
\* stay in the upper half of the id space, however many commands are given.
TypeOK ==
  /\ turn \in 0 .. 2 * Cores + 1
  /\ CoreTypeOK
  /\ AdapterTypeOK
  /\ MemoryTypeOK
  /\ Bus!TypeOK
  /\ ProgramsWithin

\* A run that has ended, and unless a hart faulted has left nothing under way: the
\* windows of halted harts are drained before it is reported.
Quiescent ==
  /\ transit = {}
  /\ \A p \in Port, c \in Channel : inbox[p][c] = <<>>
  /\ \A h \in Hart : Commands(h) = <<>>

Drained == Over /\ (AnyFaulted \/ Quiescent)
==============================================================================
