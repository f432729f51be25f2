------------------------------- MODULE Rv64Core -------------------------------
(***************************************************************************)
(* The harts of Rv64ManycoreSystem (class Rv64AtomicCore): in order, one   *)
(* instruction at a time, one request under way at a time.  Instructions   *)
(* are abstracted to how they move the hart: what they compute is left     *)
(* out, except for the one register that holds what was last loaded, so    *)
(* that programs can poll the window and branch on what they read.         *)
(***************************************************************************)
EXTENDS MmioAdapter

CONSTANTS
  Image,       \* the ProgramImage all harts run, a sequence of instructions
  Entries,     \* where the harts enter it: sets of [Hart -> Nat]
  VectorIssue, \* InstructionLatencyConfig::vector_transaction_issue
  ToHost       \* tohost_address_

\* Every instruction has a kind and a latency (instruction_latency), and
\*   "Branch"           offset and taken, the values of reg that take it
\*   "Load", "Store"    parts: one access [address, size, data]
\*   "VLoad", "VStore"  parts: the accesses it is split into, maybe none
\*   "Csr"              register, mode and source; a CSR that is a window register
\*   "Stop"             code: ecall or ebreak
Kinds == {"Compute", "Branch", "Load", "Store", "VLoad", "VStore", "Csr", "Fence", "Stop",
          "Illegal"}

Access == [address : Nat, size : 1 .. 8, data : Seq(Byte)]

ASSUME ImageAssumption ==
  \A n \in DOMAIN Image :
    LET i == Image[n] IN
    /\ i.kind \in Kinds /\ i.latency \in Nat \ {0}
    /\ i.kind \in {"Load", "Store", "VLoad", "VStore"} =>
         /\ i.parts \in Seq(Access)
         /\ \A k \in DOMAIN i.parts :
              /\ i.kind \in {"Store", "VStore"} => Len(i.parts[k].data) = i.parts[k].size
              /\ i.kind \in {"Load", "VLoad"} => i.parts[k].data = <<>>
         /\ i.kind \in {"Load", "Store"} => Len(i.parts) = 1
    /\ i.kind = "Branch" => i.offset \in Int /\ n + i.offset \in Nat
    /\ i.kind = "Stop" => i.code \in Nat
    /\ i.kind = "Csr" =>
         /\ i.register \in {Target, Command, WriteData, ReadData, Status, Size, ResultId, Pop}
         /\ i.mode \in {"Swap", "Set", "Clear"} /\ i.source \in Nat

ASSUME CoreAssumption ==
  /\ Entries \subseteq [Hart -> Nat]
  /\ VectorIssue \in Nat \ {0}
  /\ ToHost \in Nat

VARIABLE core \* per hart, the fields of its Rv64AtomicCore

\* parts: the request under way (memory_request_) and those still to be staged.
\* All harts start at the same address and part by their mhartid; the model
\* starts where each then goes.
CoreInit ==
  \E entry \in Entries :
    core = [h \in Hart |->
       [pc |-> entry[h], state |-> "FetchDecode", left |-> 0, issueLeft |-> 0, parts |-> <<>>,
        id |-> 0, next |-> 1 % IdSpace, reg |-> 0, exit |-> 0]]

CoreTypeOK ==
  \A h \in Hart :
    LET c == core[h] IN
    /\ c.state \in {"FetchDecode", "ExecuteWait", "MemoryIssue", "MemoryWait",
                    "Halted", "Faulted"}
    /\ c.pc \in Nat /\ c.left \in Nat /\ c.issueLeft \in 0 .. VectorIssue - 1
    /\ c.parts \in Seq(Access)
    /\ {c.id, c.next} \subseteq 0 .. IdSpace - 1
    /\ c.reg \in Nat /\ c.exit \in Nat
    /\ c.state \in {"MemoryIssue", "MemoryWait"} => c.parts # <<>>

-------------------------------------------------------------------------------
State(h) == core[h].state
Pending(h) == Image[core[h].pc]

\* commit(), stop() and fault() of a hart's fields c.
Committed(c, pc) == [c EXCEPT !.pc = pc, !.state = "FetchDecode", !.parts = <<>>]
CommittedNext(c) == Committed(c, c.pc + 1)
Stopped(c, code) == [c EXCEPT !.state = "Halted", !.exit = code]
Faulted(c) == [c EXCEPT !.state = "Faulted", !.exit = 125, !.parts = <<>>]

\* The request of parts[1] is staged under a fresh id; n cycles of issue delay.
Staged(c, parts, n) ==
  [c EXCEPT !.state = "MemoryIssue", !.parts = parts, !.id = c.next,
            !.next = (@ + 1) % IdSpace, !.issueLeft = n]

Becomes(h, c) == core' = [core EXCEPT ![h] = c]
Only(h, c) == Becomes(h, c) /\ UNCHANGED <<adapter, busVars>>

Fetch(h) ==
  /\ State(h) = "FetchDecode"
  /\ Only(h, IF core[h].pc \in DOMAIN Image
               THEN [core[h] EXCEPT !.state = "ExecuteWait", !.left = Pending(h).latency]
               ELSE Faulted(core[h]))

\* Mutant: a fence does not wait for the window.
FenceHeld_Never(h) == FALSE

\* A fence waits for the window to drain before its own cycles begin.
FenceHeld(h) == Pending(h).kind = "Fence" /\ Busy(adapter[h])

Hold(h) ==
  /\ State(h) = "ExecuteWait"
  /\ FenceHeld(h)
  /\ UNCHANGED <<core, adapter, busVars>>

Execute(h) ==
  /\ State(h) = "ExecuteWait"
  /\ ~FenceHeld(h)
  /\ core[h].left > 1
  /\ Only(h, [core[h] EXCEPT !.left = @ - 1])

\* The tick that counts the last cycle executes the instruction.
Ready(h, kinds) ==
  /\ State(h) = "ExecuteWait"
  /\ core[h].left = 1
  /\ Pending(h).kind \in kinds
  /\ ~FenceHeld(h)

ExecutePlain(h) ==
  /\ Ready(h, {"Compute", "Fence", "Branch"})
  /\ LET i == Pending(h) IN
     Only(h, IF i.kind = "Branch" /\ core[h].reg \in i.taken
               THEN Committed(core[h], core[h].pc + i.offset) ELSE CommittedNext(core[h]))

ExecuteStop(h) ==
  /\ Ready(h, {"Stop", "Illegal"})
  /\ Only(h, IF Pending(h).kind = "Stop" THEN Stopped(core[h], Pending(h).code)
                                         ELSE Faulted(core[h]))

\* prepare_load, prepare_store, prepare_vector_load and prepare_vector_store.
ExecuteMemory(h) ==
  /\ Ready(h, {"Load", "Store", "VLoad", "VStore"})
  /\ LET i == Pending(h) IN
     Only(h, CASE i.kind \in {"Load", "Store"} -> Staged(core[h], i.parts, core[h].issueLeft)
               [] i.parts = <<>> -> CommittedNext(core[h])
               [] OTHER -> Staged(core[h], i.parts, VectorIssue - 1))

\* CSRs 0x7c0 .. 0x7c7 are registers of the window; POP reads as 0.
CsrRead(h, r) == IF r = Pop THEN 0 ELSE ReadRegister(adapter[h], r)

\* What the CSR instruction i writes over the old value: csrrw, csrrs, csrrc.
RegisterBits == 8 \* 64 in the code: the values of the modelled programs fit
BitsOf(v) == {b \in 0 .. RegisterBits - 1 : (v \div 2 ^ b) % 2 = 1}
OfBits(S) == FoldSet(LAMBDA b, v : v + 2 ^ b, 0, S)
CsrValue(i, old) ==
  CASE i.mode = "Swap" -> i.source
    [] i.mode = "Set" -> OfBits(BitsOf(old) \cup BitsOf(i.source))
    [] i.mode = "Clear" -> OfBits(BitsOf(old) \ BitsOf(i.source))

\* The old value is returned even if the write faults.
ExecuteCsr(h) ==
  /\ Ready(h, {"Csr"})
  /\ LET i == Pending(h)
         old == CsrRead(h, i.register)
         c == [core[h] EXCEPT !.reg = old]
         writes == i.mode = "Swap" \/ i.source # 0
         illegal == writes /\ i.register \in {ReadData, ResultId}
     IN
     /\ Becomes(h, IF illegal THEN Faulted(c) ELSE CommittedNext(c))
     /\ adapter' = IF writes /\ ~illegal
          THEN [adapter EXCEPT ![h] = WriteRegister(@, h, i.register, CsrValue(i, old))]
          ELSE adapter
  /\ UNCHANGED busVars

-------------------------------------------------------------------------------
Vector(h) == Pending(h).kind \in {"VLoad", "VStore"}
Part(h) == core[h].parts[1]
IsWrite(h) == Pending(h).kind \in {"Store", "VStore"}
Issuing(h) == State(h) = "MemoryIssue" /\ core[h].issueLeft = 0
InWindow(h) == Overlaps(Part(h).address, Part(h).size)

IssueDelay(h) ==
  /\ State(h) = "MemoryIssue"
  /\ core[h].issueLeft > 0
  /\ Only(h, [core[h] EXCEPT !.issueLeft = @ - 1])

\* Scalar accesses to the window are served in the hart, vector ones fault.
IssueLocal(h) ==
  /\ Issuing(h) /\ InWindow(h)
  /\ LET reg == Register(Part(h).address, Part(h).size)
         legal == ~Vector(h) /\ reg \in (IF IsWrite(h) THEN Writable ELSE Readable)
     IN
     /\ Becomes(h, IF ~legal THEN Faulted(core[h])
                   ELSE IF IsWrite(h) THEN CommittedNext(core[h])
                   ELSE CommittedNext([core[h] EXCEPT !.reg = ReadRegister(adapter[h], reg)]))
     /\ adapter' = IF legal /\ IsWrite(h)
          THEN [adapter EXCEPT ![h] = WriteRegister(@, h, reg, Number(Part(h).data))]
          ELSE adapter
  /\ UNCHANGED busVars

RequestOf(h) ==
  [op |-> IF IsWrite(h) THEN "Write" ELSE "Read", hart |-> h, transaction |-> core[h].id,
   address |-> Part(h).address, size |-> Part(h).size, data |-> Part(h).data]

\* Mutant: the port is not left to the window while it is busy.
PortFree_Always(h) == TRUE

\* The window has the port until its responses are consumed.
PortFree(h) == ~Busy(adapter[h])

\* The request keeps its id however often the bus refuses it.
IssueBlocked(h) ==
  /\ Issuing(h) /\ ~InWindow(h)
  /\ ~PortFree(h) \/ Bus!MayRefuse(MemoryPort, Request)
  /\ UNCHANGED <<core, adapter, busVars>>

IssueSend(h) ==
  /\ Issuing(h) /\ ~InWindow(h)
  /\ PortFree(h)
  /\ Bus!Send(h, MemoryPort, Request, RequestOf(h))
  /\ Becomes(h, [core[h] EXCEPT !.state = "MemoryWait"])
  /\ UNCHANGED adapter

Wait(h) ==
  /\ State(h) = "MemoryWait"
  /\ ~CanRecv(h, Response)
  /\ UNCHANGED <<core, adapter, busVars>>

\* handle_tohost_write: a scalar store of an odd value to ToHost ends the program.
EndsProgram(h) ==
  Pending(h).kind = "Store" /\ Part(h).address = ToHost /\ Number(Part(h).data) % 2 = 1

ExitCode(v) == IF v \div 2 > 124 THEN 124 ELSE v \div 2

\* The hart's fields once the response r has been checked.
Answered(h, r) ==
  IF Vector(h) /\ Len(core[h].parts) > 1
    THEN Staged(core[h], Tail(core[h].parts), VectorIssue - 1)
  ELSE IF EndsProgram(h)
    THEN Stopped(CommittedNext(core[h]), ExitCode(Number(Part(h).data)))
  ELSE IF Pending(h).kind = "Load"
    THEN CommittedNext([core[h] EXCEPT !.reg = Number(r.data)])
  ELSE CommittedNext(core[h])

Misfit(h, r) ==
  \/ r.hart # h
  \/ r.transaction # core[h].id
  \/ ~IsWrite(h) /\ Len(r.data) # Part(h).size

Receive(h) ==
  /\ State(h) = "MemoryWait"
  /\ CanRecv(h, Response)
  /\ LET r == Received(h, Response) IN
     Becomes(h, IF Misfit(h, r) THEN Faulted(core[h]) ELSE Answered(h, r))
  /\ Bus!Recv(h, Response)
  /\ UNCHANGED adapter

Ended(h) == State(h) \in {"Halted", "Faulted"}

Rest(h) == Ended(h) /\ UNCHANGED <<core, adapter, busVars>>

\* tick() after the window's: what the state asks for.
CoreTick(h) ==
  \/ Fetch(h) \/ Hold(h) \/ Execute(h) \/ ExecutePlain(h) \/ ExecuteStop(h)
  \/ ExecuteMemory(h) \/ ExecuteCsr(h) \/ IssueDelay(h) \/ IssueLocal(h) \/ IssueBlocked(h)
  \/ IssueSend(h) \/ Wait(h) \/ Receive(h) \/ Rest(h)
==============================================================================
