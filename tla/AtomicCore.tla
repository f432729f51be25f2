------------------------------ MODULE AtomicCore ------------------------------
(***************************************************************************)
(* The harts of ManycoreSystem (class AtomicCore): each runs a script of   *)
(* computations, reads and writes, one operation at a time.  A tick lets   *)
(* an operation begin, execute and be issued in one go.  A memory          *)
(* operation waits for its response; a hart takes the response as its own  *)
(* if hart and transaction id agree, and throws otherwise.                 *)
(***************************************************************************)
EXTENDS SystemBus

CONSTANTS
  Op,       \* the operations of the scripts
  Programs, \* the programs the harts may be loaded with: sets of [Hart -> Seq(Op)]
  NoOp      \* current_ without a value

\* The factories of ScriptOp require latencies, sizes and data to be positive.
ASSUME OpAssumption ==
  \A o \in Op :
    /\ o.kind \in {"Compute", "Read", "Write", "Halt"}
    /\ o.kind # "Halt" => o.latency \in Nat \ {0}
    /\ o.kind \in {"Read", "Write"} =>
         /\ o.address \in Address
         /\ o.size \in Nat \ {0}
         /\ o.address .. o.address + o.size - 1 \subseteq Address
         /\ o.data \in [1 .. (IF o.kind = "Write" THEN o.size ELSE 0) -> Byte]

ASSUME ProgramsAssumption == Programs \subseteq [Hart -> Seq(Op)]

VARIABLES
  program,   \* program_: per hart, the operations not yet begun
  current,   \* current_: per hart, the operation under way or NoOp
  state,     \* state_: per hart
  left,      \* cycles_left_: per hart
  nextId,    \* next_transaction_id_: per hart
  waitingId, \* waiting_transaction_id_: per hart
  lastRead   \* last_read_data_: per hart

coreVars == <<program, current, state, left, nextId, waitingId, lastRead>>

CoreInit ==
  /\ program \in Programs
  /\ current = [h \in Hart |-> NoOp]
  /\ state = [h \in Hart |-> "Ready"]
  /\ left = [h \in Hart |-> 0]
  /\ nextId = [h \in Hart |-> 1 % IdSpace]
  /\ waitingId = [h \in Hart |-> 0]
  /\ lastRead = [h \in Hart |-> <<>>]

CoreTypeOK ==
  /\ program \in [Hart -> Seq(Op)]
  /\ current \in [Hart -> Op \cup {NoOp}]
  /\ state \in [Hart -> {"Ready", "Executing", "MemoryIssue", "MemoryWait", "Halted"}]
  /\ left \in [Hart -> Nat]
  /\ nextId \in [Hart -> 0 .. IdSpace - 1]
  /\ waitingId \in [Hart -> 0 .. IdSpace - 1]
  /\ lastRead \in [Hart -> Data]

-------------------------------------------------------------------------------
\* begin_next_op(): the hart is ready for the next operation, if it has one.
AtEnd(h) == state[h] = "Ready" /\ (program[h] # <<>> => Head(program[h]).kind = "Halt")
Begins(h) == state[h] = "Ready" /\ ~AtEnd(h)
Running(h) == Begins(h) \/ state[h] = "Executing"

\* The operation a tick of h works on, what is left of the program, and the
\* cycles left once this tick has counted.
Working(h) == IF Begins(h) THEN Head(program[h]) ELSE current[h]
Rest(h) == IF Begins(h) THEN Tail(program[h]) ELSE program[h]
Left(h) == (IF Begins(h) THEN Working(h).latency ELSE left[h]) - 1

\* The tick finds h with a memory operation to issue.
Issuing(h) ==
  state[h] = "MemoryIssue" \/ (Running(h) /\ Left(h) = 0 /\ Working(h).kind # "Compute")

\* Hart h goes on with operation o in state s, with n cycles left.
Goes(h, o, s, n) ==
  /\ program' = [program EXCEPT ![h] = Rest(h)]
  /\ current' = [current EXCEPT ![h] = o]
  /\ state' = [state EXCEPT ![h] = s]
  /\ left' = [left EXCEPT ![h] = n]

CoreHalt(h) ==
  /\ AtEnd(h)
  /\ program' = [program EXCEPT ![h] = IF @ = <<>> THEN @ ELSE Tail(@)]
  /\ state' = [state EXCEPT ![h] = "Halted"]
  /\ UNCHANGED <<current, left, nextId, waitingId, lastRead, busVars>>

CoreExecute(h) ==
  /\ Running(h)
  /\ Left(h) > 0
  /\ Goes(h, Working(h), "Executing", Left(h))
  /\ UNCHANGED <<nextId, waitingId, lastRead, busVars>>

\* A computation retires in the tick that counts its last cycle.
CoreCompute(h) ==
  /\ Running(h)
  /\ Left(h) = 0
  /\ Working(h).kind = "Compute"
  /\ Goes(h, NoOp, "Ready", 0)
  /\ waitingId' = [waitingId EXCEPT ![h] = 0]
  /\ UNCHANGED <<nextId, lastRead, busVars>>

RequestOf(h, o) ==
  [op |-> o.kind, hart |-> h, transaction |-> nextId[h],
   address |-> o.address, size |-> o.size, data |-> o.data]

\* Mutant: the id waited for is read after the increment.
CoreIssue_NextId(h) ==
  /\ Issuing(h)
  /\ Bus!Send(h, MemoryPort, Request, RequestOf(h, Working(h)))
  /\ nextId' = [nextId EXCEPT ![h] = (@ + 1) % IdSpace]
  /\ waitingId' = nextId'
  /\ Goes(h, Working(h), "MemoryWait", 0)
  /\ UNCHANGED lastRead

\* The bus accepts the request.
CoreIssue(h) ==
  /\ Issuing(h)
  /\ Bus!Send(h, MemoryPort, Request, RequestOf(h, Working(h)))
  /\ nextId' = [nextId EXCEPT ![h] = (@ + 1) % IdSpace]
  /\ waitingId' = [waitingId EXCEPT ![h] = nextId[h]]
  /\ Goes(h, Working(h), "MemoryWait", 0)
  /\ UNCHANGED lastRead

\* The bus refuses it.  When can_send already says so the id is not used up;
\* when it is send that refuses, for lack of a receive slot, it is.
CoreBlocked(h) ==
  /\ Issuing(h)
  /\ Bus!MayRefuse(MemoryPort, Request)
  /\ \E used \in 0 .. 1 : nextId' = [nextId EXCEPT ![h] = (@ + used) % IdSpace]
  /\ Goes(h, Working(h), "MemoryIssue", 0)
  /\ UNCHANGED <<waitingId, lastRead, busVars>>

\* A response is for the operation hart h waits for.
Expected(h, r) == r.hart = h /\ r.transaction = waitingId[h]

\* The response retires the operation; an unexpected one throws.
CoreReceive(h) ==
  /\ state[h] = "MemoryWait"
  /\ CanRecv(h, Response)
  /\ Expected(h, Received(h, Response))
  /\ lastRead' = IF current[h].kind = "Read"
       THEN [lastRead EXCEPT ![h] = Received(h, Response).data] ELSE lastRead
  /\ Bus!Recv(h, Response)
  /\ Goes(h, NoOp, "Ready", 0)
  /\ waitingId' = [waitingId EXCEPT ![h] = 0]
  /\ UNCHANGED nextId

\* Nothing to do but wait, or halted for good.
CoreWait(h) ==
  /\ state[h] = "Halted" \/ (state[h] = "MemoryWait" /\ ~CanRecv(h, Response))
  /\ UNCHANGED <<coreVars, busVars>>

CoreTick(h) ==
  CoreHalt(h) \/ CoreExecute(h) \/ CoreCompute(h) \/ CoreIssue(h) \/ CoreBlocked(h)
  \/ CoreReceive(h) \/ CoreWait(h)
==============================================================================
