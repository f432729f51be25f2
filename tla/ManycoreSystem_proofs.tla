------------------------ MODULE ManycoreSystem_proofs ------------------------
(***************************************************************************)
(* Theorems about ManycoreSystem, for every number of harts, every set of  *)
(* programs, every latency, queue capacity and id space, and every bus     *)
(* that keeps the promise of IBus.                                         *)
(***************************************************************************)
EXTENDS ManycoreSystem, FiniteSetTheorems, SequenceTheorems, TLAPS

-------------------------------------------------------------------------------
(***************************************************************************)
(* Data.                                                                   *)
(***************************************************************************)

\* An access that stays within the memory is no larger than the memory.
LEMMA AccessIsSmall ==
  ASSUME NEW a \in Address, NEW n \in Nat, a .. a + n - 1 \subseteq Address
  PROVE  Cardinality(Address) \in Nat /\ n <= Cardinality(Address)
<1>1. IsFiniteSet(Address) /\ a \in Nat
  BY SystemAssumption
<1>2. Cardinality(Address) \in Nat
  BY <1>1, FS_CardinalityType
<1>3. Cardinality(a .. a + n - 1) = n
  <2>1. a \in Int /\ a + n - 1 \in Int
    BY <1>1
  <2>2. Cardinality(a .. a + n - 1) = IF a > a + n - 1 THEN 0 ELSE (a + n - 1) - a + 1
    BY <2>1, FS_Interval
  <2>3. QED
    BY <1>1, <2>2
<1>4. Cardinality(a .. a + n - 1) <= Cardinality(Address)
  BY <1>1, FS_Subset
<1>5. QED
  BY <1>2, <1>3, <1>4

\* What fits an access is data.
LEMMA BytesAreData ==
  ASSUME NEW n \in Nat, n <= Cardinality(Address), Cardinality(Address) \in Nat,
         NEW d \in [1 .. n -> Byte]
  PROVE  d \in Data
BY DEF Data

\* So is nothing.
LEMMA NothingIsData == <<>> \in Data
<1>1. Cardinality(Address) \in Nat
  BY SystemAssumption, FS_CardinalityType
<1>2. << >> \in [1 .. 0 -> Byte]
  OBVIOUS
<1>3. QED
  BY <1>1, <1>2 DEF Data

\* The request of an operation is well formed.
LEMMA RequestFits ==
  ASSUME CoreTypeOK, NEW h \in Hart, NEW o \in Op, o.kind \in {"Read", "Write"}
  PROVE  Fits(RequestOf(h, o)) /\ RequestOf(h, o).hart = h
<1> DEFINE r == RequestOf(h, o)
<1>1. /\ o.address \in Address /\ o.size \in Nat \ {0}
      /\ o.address .. o.address + o.size - 1 \subseteq Address
      /\ o.data \in [1 .. (IF o.kind = "Write" THEN o.size ELSE 0) -> Byte]
  BY OpAssumption
<1>2. Cardinality(Address) \in Nat /\ o.size <= Cardinality(Address)
  BY <1>1, AccessIsSmall
<1>3. o.size \in 1 .. Cardinality(Address)
  BY <1>1, <1>2
<1>4. o.data \in Data
  BY <1>1, <1>2, BytesAreData
<1>5. nextId[h] \in 0 .. IdSpace - 1
  BY DEF CoreTypeOK
<1>6. QED
  BY <1>1, <1>3, <1>4, <1>5 DEF Fits, RequestOf, MemoryRequest

\* The response to a request is well formed, and for its hart and id.
LEMMA ResponseFits ==
  ASSUME MemoryTypeOK, NEW r, Fits(r)
  PROVE  /\ ResponseTo(r) \in MemoryResponse
         /\ ResponseTo(r).hart = r.hart
         /\ ResponseTo(r).transaction = r.transaction
         /\ Effect(bytes, r) \in [Address -> Byte]
<1>1. /\ r.hart \in Hart /\ r.transaction \in 0 .. IdSpace - 1
      /\ r.address \in Address /\ r.size \in 1 .. Cardinality(Address) /\ r.data \in Data
      /\ r.address .. r.address + r.size - 1 \subseteq Address
  BY DEF Fits, MemoryRequest
<1>2. bytes \in [Address -> Byte] /\ Address \subseteq Nat
  BY SystemAssumption DEF MemoryTypeOK
<1>3. r.address \in Nat /\ r.size \in Nat
  <2>1. Cardinality(Address) \in Nat
    BY SystemAssumption, FS_CardinalityType
  <2>2. r.address \in Address /\ r.size \in 1 .. Cardinality(Address)
    BY <1>1
  <2>3. r.address \in Nat
    BY <2>2, SystemAssumption
  <2>4. r.size \in Nat
    BY <2>1, <2>2
  <2>5. QED
    BY <2>3, <2>4
<1>4. Cardinality(Address) \in Nat /\ r.size <= Cardinality(Address)
  BY <1>1, <1>3, AccessIsSmall
<1>5. Read(bytes, r.address, r.size) \in Data
  <2>1. \A i \in 1 .. r.size : bytes[r.address + i - 1] \in Byte
    <3>1. ASSUME NEW i \in 1 .. r.size PROVE r.address + i - 1 \in r.address .. r.address + r.size - 1
      BY <1>3
    <3>2. QED
      BY <1>1, <1>2, <3>1
  <2>2. Read(bytes, r.address, r.size) \in [1 .. r.size -> Byte]
    BY <2>1 DEF Read
  <2>3. QED
    BY <1>3, <1>4, <2>2, BytesAreData
<1>6. Result(bytes, r) \in Data
  BY <1>5, NothingIsData DEF Result
<1>7. Effect(bytes, r) \in [Address -> Byte]
  <2>1. \A i \in DOMAIN r.data : r.data[i] \in Byte
    <3>1. PICK n \in 0 .. Cardinality(Address) : r.data \in [1 .. n -> Byte]
      BY <1>1 DEF Data
    <3>2. QED
      BY <3>1
  <2>2. Write(bytes, r.address, r.data) \in [Address -> Byte]
    BY <1>2, <2>1 DEF Write, MemoryTypeOK
  <2>3. QED
    BY <1>2, <2>2 DEF Effect
<1>8. QED
  BY <1>1, <1>6, <1>7 DEF ResponseTo, MemoryResponse

-------------------------------------------------------------------------------
(***************************************************************************)
(* The initial states.                                                     *)
(***************************************************************************)
LEMMA InitHolds == Init => NoUnexpectedResponse
<1> SUFFICES ASSUME Init PROVE NoUnexpectedResponse
  OBVIOUS
<1>1. /\ turn = 0 /\ CoreInit /\ MemoryInit
      /\ transit = {} /\ inbox = [p \in Port |-> [c \in Channel |-> <<>>]] /\ accepted = 0
  BY DEF Init, Bus!Init
<1>2. \A h \in Hart : inbox[h][Response] = <<>>
  BY <1>1 DEF Port, Channel
<1>3. inbox[MemoryPort][Request] = <<>>
  BY <1>1 DEF Port, Channel
<1>4. TypeOK
  <2>1. CoreTypeOK
    <3>1. 0 \in 0 .. IdSpace - 1 /\ 1 % IdSpace \in 0 .. IdSpace - 1
      BY SystemAssumption
    <3>2. QED
      BY <1>1, <3>1, NothingIsData, ProgramsAssumption DEF CoreInit, CoreTypeOK
  <2>2. MemoryTypeOK
    BY <1>1, MemoryAssumption, SystemAssumption, EmptySeq DEF MemoryInit, MemoryTypeOK
  <2>3. Bus!TypeOK
    BY <1>1, EmptySeq DEF Bus!TypeOK
  <2>4. QED
    BY <1>1, <2>1, <2>2, <2>3, SystemAssumption DEF TypeOK
<1>5. OperationUnderWay
  BY <1>1 DEF CoreInit, OperationUnderWay
<1>6. /\ DOMAIN inbox[MemoryPort][Request] = {} /\ DOMAIN queue = {}
      /\ DOMAIN active = {} /\ DOMAIN response = {}
  BY <1>1, <1>3 DEF MemoryInit
<1>7. \A h \in Hart : DOMAIN inbox[h][Response] = {} /\ Len(inbox[h][Response]) = 0
  BY <1>2
<1>8. WellAddressed /\ RightId /\ OneThere
  BY <1>1, <1>6, <1>7 DEF WellAddressed, RightId, OneThere
<1>9. OnePlace
  <2>1. {h \in Hart : state[h] = "MemoryWait"} = {}
    BY <1>1 DEF CoreInit
  <2>2. Travelling = {} /\ Returned = {}
    BY <1>1, <1>2 DEF Travelling, Returned
  <2>3. Requesting = {} /\ Queueing = {} /\ InService = {} /\ Answered = {}
    BY <1>6 DEF Requesting, Queueing, InService, Answered
  <2>4. QED
    BY <2>1, <2>2, <2>3 DEF OnePlace
<1>10. QED
  BY <1>4, <1>5, <1>8, <1>9 DEF NoUnexpectedResponse

-------------------------------------------------------------------------------
(***************************************************************************)
(* The turns of the harts.                                                 *)
(***************************************************************************)

\* The invariant, but for whose turn it is.
Placed == WellAddressed /\ OnePlace /\ OneThere /\ RightId
Sound ==
  /\ CoreTypeOK /\ MemoryTypeOK /\ Bus!TypeOK
  /\ OperationUnderWay
  /\ Placed

\* The operation of a hart that runs is one that takes cycles.
LEMMA WorkingOperation ==
  ASSUME CoreTypeOK, OperationUnderWay, NEW h \in Hart
  PROVE  /\ Running(h) => /\ Working(h) \in Op /\ Working(h).kind # "Halt"
                          /\ Left(h) \in Nat /\ Left(h) >= 0
         /\ Rest(h) \in Seq(Op)
         /\ Issuing(h) => Working(h) \in Op /\ Working(h).kind \in {"Read", "Write"}
<1>1. /\ program[h] \in Seq(Op) /\ left[h] \in Nat
      /\ state[h] = "Executing" => current[h] \in Op /\ current[h].kind # "Halt" /\ left[h] > 0
      /\ state[h] = "MemoryIssue" => current[h] \in Op /\ current[h].kind \in {"Read", "Write"}
  BY DEF CoreTypeOK, OperationUnderWay
<1>2. CASE Begins(h)
  <2>1. state[h] = "Ready" /\ program[h] # <<>> /\ Head(program[h]).kind # "Halt"
    BY <1>2 DEF Begins, AtEnd
  <2>2. Head(program[h]) \in Op /\ Tail(program[h]) \in Seq(Op)
    BY <1>1, <2>1
  <2>3. Head(program[h]).latency \in Nat \ {0}
    BY <2>1, <2>2, OpAssumption
  <2>4. Working(h) = Head(program[h]) /\ Rest(h) = Tail(program[h])
        /\ Left(h) = Head(program[h]).latency - 1
    BY <1>2 DEF Working, Rest, Left
  <2>5. Working(h).kind \in {"Compute", "Read", "Write", "Halt"}
    BY <2>2, <2>4, OpAssumption
  <2>6. QED
    BY <2>1, <2>2, <2>3, <2>4, <2>5 DEF Issuing
<1>3. CASE ~Begins(h)
  <2>1. Working(h) = current[h] /\ Rest(h) = program[h] /\ Left(h) = left[h] - 1
    BY <1>3 DEF Working, Rest, Left
  <2>2. current[h] \in Op => current[h].kind \in {"Compute", "Read", "Write", "Halt"}
    BY OpAssumption
  <2>3. QED
    BY <1>1, <1>3, <2>1, <2>2 DEF Running, Issuing
<1>4. QED
  BY <1>2, <1>3

\* What Goes does to hart h, and that it does nothing to another.
LEMMA GoesFacts ==
  ASSUME CoreTypeOK, OperationUnderWay, NEW h \in Hart, NEW o \in Op \cup {NoOp},
         NEW s \in {"Ready", "Executing", "MemoryIssue", "MemoryWait", "Halted"},
         NEW n \in Nat, Goes(h, o, s, n),
         s = "Executing" => o \in Op /\ o.kind # "Halt" /\ n > 0,
         s = "MemoryIssue" => o \in Op /\ o.kind \in {"Read", "Write"}
  PROVE  /\ program' \in [Hart -> Seq(Op)]
         /\ current' \in [Hart -> Op \cup {NoOp}]
         /\ state' \in [Hart -> {"Ready", "Executing", "MemoryIssue", "MemoryWait", "Halted"}]
         /\ left' \in [Hart -> Nat]
         /\ state'[h] = s
         /\ \A g \in Hart : g # h => state'[g] = state[g]
         /\ OperationUnderWay'
<1>1. Rest(h) \in Seq(Op)
  BY WorkingOperation
<1>2. /\ program' = [program EXCEPT ![h] = Rest(h)]
      /\ current' = [current EXCEPT ![h] = o]
      /\ state' = [state EXCEPT ![h] = s]
      /\ left' = [left EXCEPT ![h] = n]
  BY DEF Goes
<1>3. /\ program \in [Hart -> Seq(Op)]
      /\ current \in [Hart -> Op \cup {NoOp}]
      /\ state \in [Hart -> {"Ready", "Executing", "MemoryIssue", "MemoryWait", "Halted"}]
      /\ left \in [Hart -> Nat]
  BY DEF CoreTypeOK
<1>4. /\ program' \in [Hart -> Seq(Op)]
      /\ current' \in [Hart -> Op \cup {NoOp}]
      /\ state' \in [Hart -> {"Ready", "Executing", "MemoryIssue", "MemoryWait", "Halted"}]
      /\ left' \in [Hart -> Nat]
  BY <1>1, <1>2, <1>3
<1>5. /\ state'[h] = s /\ current'[h] = o /\ left'[h] = n
      /\ \A g \in Hart : g # h =>
           state'[g] = state[g] /\ current'[g] = current[g] /\ left'[g] = left[g]
  BY <1>2, <1>3
<1>6. OperationUnderWay'
  BY <1>5 DEF OperationUnderWay
<1>7. QED
  BY <1>4, <1>5, <1>6

\* The harts messages are for.
LEMMA MessageHarts ==
  ASSUME Placed
  PROVE  /\ \A m \in transit : m.body.hart \in Travelling /\ m.body.hart \in Hart
         /\ \A i \in DOMAIN inbox[MemoryPort][Request] :
              /\ inbox[MemoryPort][Request][i].body.hart \in Requesting
              /\ inbox[MemoryPort][Request][i].body.hart \in Hart
         /\ \A i \in DOMAIN queue : queue[i].hart \in Queueing /\ queue[i].hart \in Hart
         /\ \A i \in DOMAIN active :
              active[i].request.hart \in InService /\ active[i].request.hart \in Hart
         /\ \A i \in DOMAIN response : response[i].hart \in Answered /\ response[i].hart \in Hart
<1>1. {h \in Hart : state[h] = "MemoryWait"} =
        Travelling \cup Requesting \cup Queueing \cup InService \cup Answered \cup Returned
  BY DEF Placed, OnePlace
<1>2. /\ \A m \in transit : m.body.hart \in Travelling
      /\ \A i \in DOMAIN inbox[MemoryPort][Request] :
           inbox[MemoryPort][Request][i].body.hart \in Requesting
      /\ \A i \in DOMAIN queue : queue[i].hart \in Queueing
      /\ \A i \in DOMAIN active : active[i].request.hart \in InService
      /\ \A i \in DOMAIN response : response[i].hart \in Answered
  BY DEF Travelling, Requesting, Queueing, InService, Answered
<1>3. QED
  BY <1>1, <1>2

\* A step of a hart that neither starts nor ends a wait, and leaves the bus alone.
LEMMA QuietStep ==
  ASSUME Placed, NEW h \in Hart, UNCHANGED <<memoryVars, busVars>>,
         state[h] # "MemoryWait", state'[h] # "MemoryWait",
         \A g \in Hart : g # h => state'[g] = state[g] /\ waitingId'[g] = waitingId[g]
  PROVE  Placed'
<1>1. /\ queue' = queue /\ active' = active /\ response' = response
      /\ transit' = transit /\ inbox' = inbox
  BY DEF memoryVars, busVars
<1>2. WellAddressed' /\ OneThere'
  BY <1>1 DEF Placed, WellAddressed, OneThere
<1>3. /\ Travelling' = Travelling /\ Requesting' = Requesting /\ Queueing' = Queueing
      /\ InService' = InService /\ Answered' = Answered /\ Returned' = Returned
  BY <1>1 DEF Travelling, Requesting, Queueing, InService, Answered, Returned
<1>4. {g \in Hart : state'[g] = "MemoryWait"} = {g \in Hart : state[g] = "MemoryWait"}
  OBVIOUS
<1>5. OnePlace'
  BY <1>3, <1>4 DEF Placed, OnePlace
<1>6. h \notin Travelling \cup Requesting \cup Queueing \cup InService \cup Answered \cup Returned
  BY DEF Placed, OnePlace
<1>7. RightId'
  <2>1. RightId
    BY DEF Placed
  <2>2. \A m \in transit : m.body.transaction = waitingId'[m.body.hart]
    BY <1>6, <2>1, MessageHarts DEF RightId
  <2>3. \A i \in DOMAIN inbox[MemoryPort][Request] :
          inbox[MemoryPort][Request][i].body.transaction =
            waitingId'[inbox[MemoryPort][Request][i].body.hart]
    BY <1>6, <2>1, MessageHarts DEF RightId
  <2>4. /\ \A i \in DOMAIN queue : queue[i].transaction = waitingId'[queue[i].hart]
        /\ \A i \in DOMAIN active :
             active[i].request.transaction = waitingId'[active[i].request.hart]
        /\ \A i \in DOMAIN response : response[i].transaction = waitingId'[response[i].hart]
    BY <1>6, <2>1, MessageHarts DEF RightId
  <2>5. inbox[h][Response] = <<>>
    BY <1>6 DEF Returned
  <2>6. DOMAIN inbox[h][Response] = {}
    BY <2>5
  <2>7. \A g \in Hart : \A i \in DOMAIN inbox[g][Response] :
          inbox[g][Response][i].body.transaction = waitingId'[g]
    BY <2>1, <2>6 DEF RightId
  <2>8. QED
    BY <1>1, <2>2, <2>3, <2>4, <2>7 DEF RightId
<1>8. QED
  BY <1>2, <1>5, <1>7 DEF Placed

\* A hart that computes, halts, is refused or has nothing to do.
LEMMA QuietTick ==
  ASSUME Sound, NEW h \in Hart, UNCHANGED memoryVars,
         CoreHalt(h) \/ CoreExecute(h) \/ CoreCompute(h) \/ CoreBlocked(h) \/ CoreWait(h)
  PROVE  Sound'
<1>1. CoreTypeOK /\ OperationUnderWay /\ Placed
  BY DEF Sound
<1>2. 0 \in 0 .. IdSpace - 1 /\ IdSpace \in Nat \ {0}
  BY SystemAssumption
<1>3. UNCHANGED busVars
  BY DEF CoreHalt, CoreExecute, CoreCompute, CoreBlocked, CoreWait
<1>4. MemoryTypeOK' /\ Bus!TypeOK'
  BY <1>3 DEF Sound, memoryVars, busVars, MemoryTypeOK, Bus!TypeOK
<1>5. CASE CoreHalt(h)
  <2>1. /\ state' = [state EXCEPT ![h] = "Halted"] /\ state[h] = "Ready"
        /\ program' = [program EXCEPT ![h] = IF @ = <<>> THEN @ ELSE Tail(@)]
        /\ UNCHANGED <<current, left, nextId, waitingId, lastRead>>
    BY <1>5 DEF CoreHalt, AtEnd
  <2>2. program[h] \in Seq(Op)
    BY <1>1 DEF CoreTypeOK
  <2>3. (IF program[h] = <<>> THEN program[h] ELSE Tail(program[h])) \in Seq(Op)
    BY <2>2
  <2>4. CoreTypeOK'
    BY <1>1, <2>1, <2>3 DEF CoreTypeOK
  <2>5. state'[h] = "Halted" /\ \A g \in Hart : g # h => state'[g] = state[g]
    BY <1>1, <2>1 DEF CoreTypeOK
  <2>6. OperationUnderWay'
    BY <1>1, <2>1, <2>5 DEF OperationUnderWay
  <2>7. Placed'
    BY <1>1, <1>3, <2>1, <2>5, QuietStep
  <2>8. QED
    BY <1>4, <2>4, <2>6, <2>7 DEF Sound
<1>6. CASE CoreExecute(h)
  <2>1. /\ Running(h) /\ Left(h) > 0 /\ Goes(h, Working(h), "Executing", Left(h))
        /\ UNCHANGED <<nextId, waitingId, lastRead>>
    BY <1>6 DEF CoreExecute
  <2>2. Working(h) \in Op /\ Working(h).kind # "Halt" /\ Left(h) \in Nat
    BY <1>1, <2>1, WorkingOperation
  <2>3. state[h] # "MemoryWait"
    BY <2>1 DEF Running, Begins
  <2>4. /\ program' \in [Hart -> Seq(Op)] /\ current' \in [Hart -> Op \cup {NoOp}]
        /\ state' \in [Hart -> {"Ready", "Executing", "MemoryIssue", "MemoryWait", "Halted"}]
        /\ left' \in [Hart -> Nat]
        /\ state'[h] = "Executing" /\ \A g \in Hart : g # h => state'[g] = state[g]
        /\ OperationUnderWay'
    BY <1>1, <2>1, <2>2, GoesFacts
  <2>5. CoreTypeOK'
    BY <1>1, <2>1, <2>4 DEF CoreTypeOK
  <2>6. Placed'
    BY <1>1, <1>3, <2>1, <2>3, <2>4, QuietStep
  <2>7. QED
    BY <1>4, <2>4, <2>5, <2>6 DEF Sound
<1>7. CASE CoreCompute(h)
  <2>1. /\ Running(h) /\ Goes(h, NoOp, "Ready", 0)
        /\ waitingId' = [waitingId EXCEPT ![h] = 0]
        /\ UNCHANGED <<nextId, lastRead>>
    BY <1>7 DEF CoreCompute
  <2>2. state[h] # "MemoryWait"
    BY <2>1 DEF Running, Begins
  <2>3. /\ program' \in [Hart -> Seq(Op)] /\ current' \in [Hart -> Op \cup {NoOp}]
        /\ state' \in [Hart -> {"Ready", "Executing", "MemoryIssue", "MemoryWait", "Halted"}]
        /\ left' \in [Hart -> Nat]
        /\ state'[h] = "Ready" /\ \A g \in Hart : g # h => state'[g] = state[g]
        /\ OperationUnderWay'
    BY <1>1, <2>1, GoesFacts
  <2>4. CoreTypeOK'
    BY <1>1, <1>2, <2>1, <2>3 DEF CoreTypeOK
  <2>5. \A g \in Hart : g # h => waitingId'[g] = waitingId[g]
    BY <1>1, <2>1 DEF CoreTypeOK
  <2>6. Placed'
    BY <1>1, <1>3, <2>2, <2>3, <2>5, QuietStep
  <2>7. QED
    BY <1>4, <2>3, <2>4, <2>6 DEF Sound
<1>8. CASE CoreBlocked(h)
  <2>1. /\ Issuing(h) /\ Goes(h, Working(h), "MemoryIssue", 0)
        /\ UNCHANGED <<waitingId, lastRead>>
    BY <1>8 DEF CoreBlocked
  <2>2. PICK used \in 0 .. 1 : nextId' = [nextId EXCEPT ![h] = (@ + used) % IdSpace]
    BY <1>8 DEF CoreBlocked
  <2>3. state[h] # "MemoryWait"
    BY <2>1 DEF Issuing, Running, Begins
  <2>4. Working(h) \in Op /\ Working(h).kind \in {"Read", "Write"}
    BY <1>1, <2>1, WorkingOperation
  <2>5. /\ program' \in [Hart -> Seq(Op)] /\ current' \in [Hart -> Op \cup {NoOp}]
        /\ state' \in [Hart -> {"Ready", "Executing", "MemoryIssue", "MemoryWait", "Halted"}]
        /\ left' \in [Hart -> Nat]
        /\ state'[h] = "MemoryIssue" /\ \A g \in Hart : g # h => state'[g] = state[g]
        /\ OperationUnderWay'
    BY <1>1, <2>1, <2>4, GoesFacts
  <2>6. nextId[h] + used \in Nat /\ (nextId[h] + used) % IdSpace \in 0 .. IdSpace - 1
    BY <1>1, <1>2 DEF CoreTypeOK
  <2>7. CoreTypeOK'
    BY <1>1, <2>1, <2>2, <2>5, <2>6 DEF CoreTypeOK
  <2>8. Placed'
    BY <1>1, <1>3, <2>1, <2>3, <2>5, QuietStep
  <2>9. QED
    BY <1>4, <2>5, <2>7, <2>8 DEF Sound
<1>9. CASE CoreWait(h)
  <2>1. UNCHANGED <<coreVars, memoryVars, busVars>>
    BY <1>9 DEF CoreWait
  <2>2. Placed'
    <3>1. /\ state' = state /\ waitingId' = waitingId /\ transit' = transit /\ inbox' = inbox
          /\ queue' = queue /\ active' = active /\ response' = response
      BY <2>1 DEF coreVars, memoryVars, busVars
    <3>2. /\ Travelling' = Travelling /\ Requesting' = Requesting /\ Queueing' = Queueing
          /\ InService' = InService /\ Answered' = Answered /\ Returned' = Returned
      BY <3>1 DEF Travelling, Requesting, Queueing, InService, Answered, Returned
    <3>3. OnePlace'
      BY <1>1, <3>1, <3>2 DEF Placed, OnePlace
    <3>4. WellAddressed' /\ OneThere' /\ RightId'
      BY <1>1, <3>1 DEF Placed, WellAddressed, OneThere, RightId
    <3>5. QED
      BY <3>3, <3>4 DEF Placed
  <2>3. CoreTypeOK' /\ OperationUnderWay'
    BY <1>1, <2>1 DEF CoreTypeOK, OperationUnderWay, coreVars
  <2>4. QED
    BY <1>4, <2>2, <2>3 DEF Sound
<1>10. QED
  BY <1>5, <1>6, <1>7, <1>8, <1>9

\* A request that the bus accepts: the hart had nothing under way.
LEMMA IssueTick ==
  ASSUME Sound, NEW h \in Hart, UNCHANGED memoryVars, CoreIssue(h)
  PROVE  Sound'
<1> DEFINE r == RequestOf(h, Working(h))
           m == [id |-> accepted + 1, src |-> h, dst |-> MemoryPort, channel |-> Request,
                 body |-> r]
<1>1. CoreTypeOK /\ OperationUnderWay /\ Placed
  BY DEF Sound
<1>2. /\ Issuing(h) /\ Goes(h, Working(h), "MemoryWait", 0)
      /\ nextId' = [nextId EXCEPT ![h] = (@ + 1) % IdSpace]
      /\ waitingId' = [waitingId EXCEPT ![h] = nextId[h]]
      /\ lastRead' = lastRead
      /\ accepted' = accepted + 1 /\ transit' = transit \cup {m} /\ inbox' = inbox
      /\ queue' = queue /\ active' = active /\ response' = response /\ bytes' = bytes
  BY DEF CoreIssue, Bus!Send, memoryVars
<1>3. state[h] # "MemoryWait"
  BY <1>2 DEF Issuing, Running, Begins
<1>4. Working(h) \in Op /\ Working(h).kind \in {"Read", "Write"}
  BY <1>1, <1>2, WorkingOperation
<1>5. Fits(r) /\ r.hart = h /\ r.transaction = nextId[h]
  BY <1>1, <1>4, RequestFits DEF RequestOf
<1>6. /\ program' \in [Hart -> Seq(Op)] /\ current' \in [Hart -> Op \cup {NoOp}]
      /\ state' \in [Hart -> {"Ready", "Executing", "MemoryIssue", "MemoryWait", "Halted"}]
      /\ left' \in [Hart -> Nat]
      /\ state'[h] = "MemoryWait" /\ \A g \in Hart : g # h => state'[g] = state[g]
      /\ OperationUnderWay'
  BY <1>1, <1>2, <1>4, GoesFacts
<1>7. CoreTypeOK'
  <2>1. /\ (nextId[h] + 1) % IdSpace \in 0 .. IdSpace - 1
        /\ nextId[h] \in 0 .. IdSpace - 1
    BY <1>1, SystemAssumption DEF CoreTypeOK
  <2>2. QED
    BY <1>1, <1>2, <1>6, <2>1 DEF CoreTypeOK
<1>8. waitingId'[h] = nextId[h] /\ \A g \in Hart : g # h => waitingId'[g] = waitingId[g]
  BY <1>1, <1>2 DEF CoreTypeOK
<1> HIDE DEF r
<1>9. m.body = r /\ m.channel = Request /\ m.dst = MemoryPort
  OBVIOUS
<1>10. MemoryTypeOK' /\ Bus!TypeOK'
  <2>1. accepted \in Nat /\ transit \in SUBSET Bus!Letter
    BY DEF Sound, Bus!TypeOK
  <2>2. r \in MemoryRequest /\ h \in Port /\ MemoryPort \in Port /\ Request \in Channel
    BY <1>5 DEF Fits, Port, Channel
  <2>3. m \in Bus!Letter
    BY <2>1, <2>2 DEF Bus!Letter
  <2>4. QED
    BY <1>2, <2>1, <2>3 DEF Sound, MemoryTypeOK, Bus!TypeOK
<1> HIDE DEF m
<1>11. WellAddressed'
  BY <1>1, <1>2, <1>5, <1>9 DEF Placed, WellAddressed
<1>12. h \notin Travelling \cup Requesting \cup Queueing \cup InService \cup Answered \cup Returned
  BY <1>1, <1>3 DEF Placed, OnePlace
<1>13. OneThere'
  BY <1>1, <1>2, <1>5, <1>9, <1>12, MessageHarts DEF Placed, OneThere
<1>14. OnePlace'
  <2>1. Travelling' = Travelling \cup {h}
    BY <1>2, <1>5, <1>9 DEF Travelling
  <2>2. /\ Requesting' = Requesting /\ Queueing' = Queueing
        /\ InService' = InService /\ Answered' = Answered /\ Returned' = Returned
    BY <1>2 DEF Requesting, Queueing, InService, Answered, Returned
  <2>3. {g \in Hart : state'[g] = "MemoryWait"} = {g \in Hart : state[g] = "MemoryWait"} \cup {h}
    BY <1>6
  <2>4. QED
    BY <1>1, <1>12, <2>1, <2>2, <2>3 DEF Placed, OnePlace
<1>15. RightId'
  <2>1. RightId
    BY <1>1 DEF Placed
  <2>2. \A k \in transit' : k.body.transaction = waitingId'[k.body.hart]
    BY <1>1, <1>2, <1>5, <1>8, <1>9, <1>12, <2>1, MessageHarts DEF RightId
  <2>3. \A i \in DOMAIN inbox[MemoryPort][Request] :
          inbox[MemoryPort][Request][i].body.transaction =
            waitingId'[inbox[MemoryPort][Request][i].body.hart]
    BY <1>1, <1>8, <1>12, <2>1, MessageHarts DEF RightId
  <2>4. /\ \A i \in DOMAIN queue : queue[i].transaction = waitingId'[queue[i].hart]
        /\ \A i \in DOMAIN active :
             active[i].request.transaction = waitingId'[active[i].request.hart]
        /\ \A i \in DOMAIN response : response[i].transaction = waitingId'[response[i].hart]
    BY <1>1, <1>8, <1>12, <2>1, MessageHarts DEF RightId
  <2>5. inbox[h][Response] = <<>>
    BY <1>12 DEF Returned
  <2>6. DOMAIN inbox[h][Response] = {}
    BY <2>5
  <2>7. \A g \in Hart : \A i \in DOMAIN inbox[g][Response] :
          inbox[g][Response][i].body.transaction = waitingId'[g]
    BY <1>8, <2>1, <2>6 DEF RightId
  <2>8. QED
    BY <1>2, <2>2, <2>3, <2>4, <2>7 DEF RightId
<1>16. QED
  BY <1>6, <1>7, <1>10, <1>11, <1>13, <1>14, <1>15 DEF Sound, Placed

\* The response that ends a wait: it was all there was under way for the hart.
LEMMA ReceiveTick ==
  ASSUME Sound, NEW h \in Hart, UNCHANGED memoryVars, CoreReceive(h)
  PROVE  Sound'
<1> DEFINE q == inbox[h][Response]
<1>1. CoreTypeOK /\ OperationUnderWay /\ Placed
  BY DEF Sound
<1>2. /\ state[h] = "MemoryWait" /\ q # <<>>
      /\ lastRead' = IF current[h].kind = "Read"
           THEN [lastRead EXCEPT ![h] = Head(q).body.data] ELSE lastRead
      /\ Goes(h, NoOp, "Ready", 0)
      /\ waitingId' = [waitingId EXCEPT ![h] = 0] /\ nextId' = nextId
      /\ inbox' = [inbox EXCEPT ![h][Response] = Tail(@)]
      /\ transit' = transit /\ accepted' = accepted
      /\ queue' = queue /\ active' = active /\ response' = response /\ bytes' = bytes
  BY DEF CoreReceive, Bus!Recv, CanRecv, Received, memoryVars
<1>3. /\ inbox \in [Port -> [Channel -> Seq(Bus!Letter)]]
      /\ h \in Port /\ MemoryPort \in Port /\ MemoryPort # h
      /\ Request \in Channel /\ Response \in Channel /\ Request # Response
  BY SystemAssumption DEF Sound, Bus!TypeOK, Port, Hart, MemoryPort, Channel, Request, Response
<1>4. q \in Seq(Bus!Letter) /\ Len(q) <= 1
  BY <1>1, <1>3 DEF Placed, OneThere
<1> HIDE DEF q
<1>5. Tail(q) = <<>> /\ Head(q) = q[1] /\ 1 \in DOMAIN q
  BY <1>2, <1>4
<1>6. q[1].body \in MemoryResponse
  BY <1>1, <1>5 DEF Placed, WellAddressed, q
<1>7. /\ program' \in [Hart -> Seq(Op)] /\ current' \in [Hart -> Op \cup {NoOp}]
      /\ state' \in [Hart -> {"Ready", "Executing", "MemoryIssue", "MemoryWait", "Halted"}]
      /\ left' \in [Hart -> Nat]
      /\ state'[h] = "Ready" /\ \A g \in Hart : g # h => state'[g] = state[g]
      /\ OperationUnderWay'
  BY <1>1, <1>2, GoesFacts
<1>8. CoreTypeOK'
  <2>1. Head(q).body.data \in Data
    BY <1>5, <1>6 DEF MemoryResponse
  <2>2. lastRead' \in [Hart -> Data]
    BY <1>1, <1>2, <2>1 DEF CoreTypeOK
  <2>3. 0 \in 0 .. IdSpace - 1
    BY SystemAssumption
  <2>4. QED
    BY <1>1, <1>2, <1>7, <2>2, <2>3 DEF CoreTypeOK
<1>9. /\ inbox'[h][Response] = <<>>
      /\ \A g \in Port, c \in Channel : g # h \/ c # Response => inbox'[g][c] = inbox[g][c]
      /\ inbox' \in [Port -> [Channel -> Seq(Bus!Letter)]]
  <2>1. <<>> \in Seq(Bus!Letter)
    BY EmptySeq
  <2>2. inbox' = [inbox EXCEPT ![h][Response] = <<>>]
    BY <1>2, <1>5 DEF q
  <2>3. QED
    BY <1>3, <2>1, <2>2
<1>10. MemoryTypeOK' /\ Bus!TypeOK'
  BY <1>2, <1>9 DEF Sound, MemoryTypeOK, Bus!TypeOK
<1>11. inbox'[MemoryPort][Request] = inbox[MemoryPort][Request]
  BY <1>3, <1>9
<1>12. ASSUME NEW g \in Hart
       PROVE  IF g = h THEN inbox'[g][Response] = <<>>
                       ELSE inbox'[g][Response] = inbox[g][Response]
  BY <1>3, <1>9 DEF Port
<1>13. DOMAIN inbox'[h][Response] = {} /\ Len(inbox'[h][Response]) = 0
  BY <1>9
<1>14. WellAddressed'
  BY <1>1, <1>2, <1>11, <1>12, <1>13 DEF Placed, WellAddressed
<1>15. OneThere'
  BY <1>1, <1>2, <1>11, <1>12, <1>13 DEF Placed, OneThere
<1>16. /\ h \in Returned
       /\ h \notin Travelling \cup Requesting \cup Queueing \cup InService \cup Answered
  BY <1>1, <1>2 DEF Placed, OnePlace, Returned, q
<1>17. OnePlace'
  <2>1. Returned' = Returned \ {h}
    BY <1>12 DEF Returned
  <2>2. /\ Travelling' = Travelling /\ Requesting' = Requesting /\ Queueing' = Queueing
        /\ InService' = InService /\ Answered' = Answered
    BY <1>2, <1>11 DEF Travelling, Requesting, Queueing, InService, Answered
  <2>3. {g \in Hart : state'[g] = "MemoryWait"} = {g \in Hart : state[g] = "MemoryWait"} \ {h}
    BY <1>7
  <2>4. QED
    BY <1>1, <1>16, <2>1, <2>2, <2>3 DEF Placed, OnePlace
<1>18. RightId'
  <2>1. RightId
    BY <1>1 DEF Placed
  <2>2. \A g \in Hart : g # h => waitingId'[g] = waitingId[g]
    BY <1>1, <1>2 DEF CoreTypeOK
  <2>3. \A m \in transit : m.body.transaction = waitingId'[m.body.hart]
    BY <1>1, <1>16, <2>1, <2>2, MessageHarts DEF RightId
  <2>4. \A i \in DOMAIN inbox[MemoryPort][Request] :
          inbox[MemoryPort][Request][i].body.transaction =
            waitingId'[inbox[MemoryPort][Request][i].body.hart]
    BY <1>1, <1>16, <2>1, <2>2, MessageHarts DEF RightId
  <2>5. /\ \A i \in DOMAIN queue : queue[i].transaction = waitingId'[queue[i].hart]
        /\ \A i \in DOMAIN active :
             active[i].request.transaction = waitingId'[active[i].request.hart]
        /\ \A i \in DOMAIN response : response[i].transaction = waitingId'[response[i].hart]
    BY <1>1, <1>16, <2>1, <2>2, MessageHarts DEF RightId
  <2>6. \A g \in Hart : \A i \in DOMAIN inbox'[g][Response] :
          inbox'[g][Response][i].body.transaction = waitingId'[g]
    BY <1>12, <1>13, <2>1, <2>2 DEF RightId
  <2>7. \A i \in DOMAIN inbox'[MemoryPort][Request] :
          inbox'[MemoryPort][Request][i].body.transaction =
            waitingId'[inbox'[MemoryPort][Request][i].body.hart]
    BY <1>11, <2>4
  <2>8. /\ \A m \in transit' : m.body.transaction = waitingId'[m.body.hart]
        /\ \A i \in DOMAIN queue' : queue'[i].transaction = waitingId'[queue'[i].hart]
        /\ \A i \in DOMAIN active' :
             active'[i].request.transaction = waitingId'[active'[i].request.hart]
        /\ \A i \in DOMAIN response' : response'[i].transaction = waitingId'[response'[i].hart]
    BY <1>2, <2>3, <2>5
  <2>9. QED
    BY <2>6, <2>7, <2>8 DEF RightId
<1>19. QED
  BY <1>7, <1>8, <1>10, <1>14, <1>15, <1>17, <1>18 DEF Sound, Placed

-------------------------------------------------------------------------------
(***************************************************************************)
(* The turn of the bus.                                                    *)
(***************************************************************************)

\* What the arrival of the messages in S does to an inbox.
LEMMA ArrivalFacts ==
  ASSUME Bus!TypeOK, NEW S \in SUBSET transit, Bus!Arrive(S), NEW d \in Port, NEW c \in Channel
  PROVE  LET old == inbox[d][c]
             new == inbox'[d][c] IN
         /\ new \in Seq(Bus!Letter)
         /\ \/ /\ new = old
               /\ \A m \in S : ~(m.dst = d /\ m.channel = c)
            \/ \E m \in S : /\ m.dst = d /\ m.channel = c
                            /\ \A k \in S : k.dst = d => k = m
                            /\ Len(new) = Len(old) + 1
                            /\ DOMAIN new = DOMAIN old \cup {Len(old) + 1}
                            /\ Len(old) + 1 \notin DOMAIN old
                            /\ new[Len(old) + 1] = m
                            /\ \A i \in DOMAIN old : new[i] = old[i]
<1> DEFINE old == inbox[d][c]
           new == inbox'[d][c]
<1>1. /\ S \subseteq Bus!Letter /\ old \in Seq(Bus!Letter)
      /\ \A m, k \in S : m.dst = k.dst => m = k
      /\ new = Bus!Arrived(S, d, c)
  BY DEF Bus!Arrive, Bus!TypeOK
<1>2. CASE \E m \in S : m.dst = d /\ m.channel = c
  <2> DEFINE m == CHOOSE k \in S : k.dst = d /\ k.channel = c
  <2>1. new = Append(old, m)
    BY <1>1, <1>2 DEF Bus!Arrived
  <2>2. m \in S /\ m.dst = d /\ m.channel = c
    BY <1>2
  <2> HIDE DEF m, old, new
  <2>3. m \in Bus!Letter /\ \A k \in S : k.dst = d => k = m
    BY <1>1, <2>2
  <2>4. /\ new \in Seq(Bus!Letter)
        /\ Len(new) = Len(old) + 1 /\ Len(old) \in Nat
        /\ DOMAIN old = 1 .. Len(old)
        /\ DOMAIN new = 1 .. Len(old) + 1
        /\ new[Len(old) + 1] = m
        /\ \A i \in 1 .. Len(old) : new[i] = old[i]
    BY <1>1, <2>1, <2>3
  <2>5. DOMAIN new = DOMAIN old \cup {Len(old) + 1} /\ Len(old) + 1 \notin DOMAIN old
    BY <2>4
  <2>6. QED
    BY <2>2, <2>3, <2>4, <2>5 DEF old, new
<1>3. CASE ~\E m \in S : m.dst = d /\ m.channel = c
  <2>1. new = old
    BY <1>1, <1>3 DEF Bus!Arrived
  <2>2. QED
    BY <1>1, <1>3, <2>1
<1>4. QED
  BY <1>2, <1>3

\* Messages go from the bus to the inboxes.
LEMMA ArriveHolds ==
  ASSUME Sound, NEW S \in SUBSET transit, Bus!Arrive(S), UNCHANGED <<coreVars, memoryVars>>
  PROVE  Sound'
<1> DEFINE old == inbox[MemoryPort][Request]
           new == inbox'[MemoryPort][Request]
           Asking == {m.body.hart : m \in {k \in S : k.channel = Request}}
           Answering == {m.body.hart : m \in {k \in S : k.channel = Response}}
<1>1. /\ Bus!TypeOK /\ Placed /\ WellAddressed /\ OneThere /\ RightId /\ OnePlace
  BY DEF Sound, Placed
<1>2. /\ transit' = transit \ S /\ accepted' = accepted
      /\ \A m, k \in S : m.dst = k.dst => m = k
      /\ inbox' = [d \in Port |-> [c \in Channel |-> Bus!Arrived(S, d, c)]]
  BY DEF Bus!Arrive
<1>3. /\ state' = state /\ waitingId' = waitingId
      /\ queue' = queue /\ active' = active /\ response' = response
  BY DEF coreVars, memoryVars
<1>4. /\ MemoryPort \in Port /\ Hart \subseteq Port /\ MemoryPort \notin Hart
      /\ Request \in Channel /\ Response \in Channel /\ Request # Response
  BY SystemAssumption DEF Port, Hart, MemoryPort, Channel, Request, Response
<1>5. CoreTypeOK' /\ MemoryTypeOK' /\ OperationUnderWay'
  BY DEF Sound, CoreTypeOK, MemoryTypeOK, OperationUnderWay, coreVars, memoryVars
<1>6. Bus!TypeOK'
  <2> DEFINE h == inbox'
  <2>1. \A d \in Port, c \in Channel : h[d][c] \in Seq(Bus!Letter)
    BY <1>1, ArrivalFacts
  <2>2. h = [d \in Port |-> [c \in Channel |-> h[d][c]]]
    BY <1>2
  <2> HIDE DEF h
  <2>3. h \in [Port -> [Channel -> Seq(Bus!Letter)]]
    BY <2>1, <2>2
  <2>4. QED
    BY <1>1, <1>2, <2>3 DEF Bus!TypeOK, h
<1>7. \A m \in S :
        \/ m.channel = Request /\ m.dst = MemoryPort /\ Fits(m.body)
        \/ m.channel = Response /\ m.dst = m.body.hart /\ m.body \in MemoryResponse
  BY <1>1 DEF WellAddressed
<1>8. \/ new = old /\ \A m \in S : m.channel # Request
      \/ \E m \in S : /\ m.channel = Request /\ \A k \in S : k.channel = Request => k = m
                      /\ DOMAIN new = DOMAIN old \cup {Len(old) + 1}
                      /\ Len(old) + 1 \notin DOMAIN old
                      /\ new[Len(old) + 1] = m
                      /\ \A i \in DOMAIN old : new[i] = old[i]
  BY <1>1, <1>4, <1>7, ArrivalFacts
<1>9. ASSUME NEW g \in Hart
      PROVE  \/ /\ inbox'[g][Response] = inbox[g][Response]
                /\ g \notin Answering
             \/ \E m \in S : /\ m.channel = Response /\ m.body.hart = g
                             /\ g \in Answering
                             /\ m.body \in MemoryResponse
                             /\ Len(inbox'[g][Response]) = Len(inbox[g][Response]) + 1
                             /\ DOMAIN inbox'[g][Response] =
                                  DOMAIN inbox[g][Response] \cup {Len(inbox[g][Response]) + 1}
                             /\ inbox'[g][Response][Len(inbox[g][Response]) + 1] = m
                             /\ \A i \in DOMAIN inbox[g][Response] :
                                  inbox'[g][Response][i] = inbox[g][Response][i]
  <2>1. g \in Port
    BY <1>4
  <2>2. CASE /\ inbox'[g][Response] = inbox[g][Response]
             /\ \A m \in S : ~(m.dst = g /\ m.channel = Response)
    <3>1. g \notin Answering
      BY <1>4, <1>7, <2>2
    <3>2. QED
      BY <2>2, <3>1
  <2>3. CASE \E m \in S : /\ m.dst = g /\ m.channel = Response
                          /\ Len(inbox'[g][Response]) = Len(inbox[g][Response]) + 1
                          /\ DOMAIN inbox'[g][Response] =
                               DOMAIN inbox[g][Response] \cup {Len(inbox[g][Response]) + 1}
                          /\ inbox'[g][Response][Len(inbox[g][Response]) + 1] = m
                          /\ \A i \in DOMAIN inbox[g][Response] :
                               inbox'[g][Response][i] = inbox[g][Response][i]
    BY <1>4, <1>7, <2>3
  <2>4. QED
    BY <1>1, <1>4, <2>1, <2>2, <2>3, ArrivalFacts
<1>10. Asking \cup Answering \subseteq Travelling
  BY DEF Travelling
<1>11. Asking \cap Answering = {}
  BY <1>1, <1>4 DEF OneThere
<1>12. Travelling' = Travelling \ (Asking \cup Answering)
  <2>1. ASSUME NEW x
        PROVE  x \in Travelling' <=> x \in Travelling /\ x \notin Asking \cup Answering
    <3>1. x \in Travelling' <=> \E m \in transit \ S : m.body.hart = x
      BY <1>2 DEF Travelling
    <3>2. x \in Travelling <=> \E m \in transit : m.body.hart = x
      BY DEF Travelling
    <3>3. x \in Asking \cup Answering <=> \E m \in S : m.body.hart = x
      BY <1>7
    <3>4. QED
      BY <1>1, <3>1, <3>2, <3>3 DEF OneThere
  <2>2. QED
    BY <2>1
<1>13. Requesting' = Requesting \cup Asking
  <2>1. CASE new = old /\ \A m \in S : m.channel # Request
    BY <2>1 DEF Requesting
  <2>2. CASE \E m \in S : /\ m.channel = Request /\ \A k \in S : k.channel = Request => k = m
                          /\ DOMAIN new = DOMAIN old \cup {Len(old) + 1}
                          /\ new[Len(old) + 1] = m
                          /\ \A i \in DOMAIN old : new[i] = old[i]
    <3>1. PICK m \in S : /\ m.channel = Request /\ \A k \in S : k.channel = Request => k = m
                         /\ DOMAIN new = DOMAIN old \cup {Len(old) + 1}
                         /\ new[Len(old) + 1] = m
                         /\ \A i \in DOMAIN old : new[i] = old[i]
      BY <2>2
    <3>2. Asking = {m.body.hart}
      BY <3>1
    <3>3. Requesting' = {new[i].body.hart : i \in DOMAIN new}
      BY DEF Requesting
    <3>4. Requesting = {old[i].body.hart : i \in DOMAIN old}
      BY DEF Requesting
    <3> HIDE DEF new, old, Asking
    <3>5. QED
      BY <3>1, <3>2, <3>3, <3>4
  <2>3. QED
    BY <1>8, <2>1, <2>2
<1>14. Returned' = Returned \cup Answering
  <2>1. Answering \subseteq Hart
    BY <1>1, <1>10, MessageHarts DEF Travelling
  <2>2. ASSUME NEW g \in Hart
        PROVE  inbox'[g][Response] # <<>> <=> inbox[g][Response] # <<>> \/ g \in Answering
    <3>1. inbox[g][Response] \in Seq(Bus!Letter) /\ inbox'[g][Response] \in Seq(Bus!Letter)
      BY <1>1, <1>4, <1>6 DEF Bus!TypeOK
    <3>2. /\ inbox[g][Response] = <<>> <=> Len(inbox[g][Response]) = 0
          /\ inbox'[g][Response] = <<>> <=> Len(inbox'[g][Response]) = 0
          /\ Len(inbox[g][Response]) \in Nat
      BY <3>1
    <3> HIDE DEF Answering
    <3>3. QED
      BY <1>9, <3>2
  <2> HIDE DEF Answering
  <2>3. QED
    BY <2>1, <2>2 DEF Returned
<1>15. /\ Queueing' = Queueing /\ InService' = InService /\ Answered' = Answered
  BY <1>3 DEF Queueing, InService, Answered
<1>16. OnePlace'
  <2> HIDE DEF Asking, Answering
  <2>1. QED
    BY <1>1, <1>3, <1>10, <1>11, <1>12, <1>13, <1>14, <1>15 DEF OnePlace
<1>17. \A i \in DOMAIN new :
         \/ i \in DOMAIN old /\ new[i] = old[i]
         \/ new[i] \in S /\ new[i].channel = Request
  <2> HIDE DEF new, old
  <2>1. QED
    BY <1>8
<1>18. \A g \in Hart : \A i \in DOMAIN inbox'[g][Response] :
         \/ i \in DOMAIN inbox[g][Response] /\ inbox'[g][Response][i] = inbox[g][Response][i]
         \/ /\ inbox'[g][Response][i] \in S
            /\ inbox'[g][Response][i].body.hart = g
            /\ inbox'[g][Response][i].body \in MemoryResponse
  BY <1>9
<1>19. WellAddressed'
  <2>1. \A i \in DOMAIN new : Fits(new[i].body)
    BY <1>1, <1>4, <1>7, <1>17 DEF WellAddressed
  <2>2. \A g \in Hart : \A i \in DOMAIN inbox'[g][Response] :
          inbox'[g][Response][i].body \in MemoryResponse /\ inbox'[g][Response][i].body.hart = g
    BY <1>1, <1>18 DEF WellAddressed
  <2>3. \A m \in transit' :
          \/ m.channel = Request /\ m.dst = MemoryPort /\ Fits(m.body)
          \/ m.channel = Response /\ m.dst = m.body.hart /\ m.body \in MemoryResponse
    BY <1>1, <1>2 DEF WellAddressed
  <2>4. (\A i \in DOMAIN queue' : Fits(queue'[i])) /\ (\A i \in DOMAIN active' : Fits(active'[i].request))
    BY <1>1, <1>3 DEF WellAddressed
  <2>5. QED
    BY <2>1, <2>2, <2>3, <2>4 DEF WellAddressed
<1>20. OneThere'
  <2>1. \A m, k \in transit' : m.body.hart = k.body.hart => m = k
    BY <1>1, <1>2 DEF OneThere
  <2>2. \A i, j \in DOMAIN new : new[i].body.hart = new[j].body.hart => i = j
    <3>1. CASE new = old
      BY <1>1, <3>1 DEF OneThere
    <3>2. CASE \E m \in S : /\ m.channel = Request /\ \A k \in S : k.channel = Request => k = m
                            /\ DOMAIN new = DOMAIN old \cup {Len(old) + 1}
                            /\ Len(old) + 1 \notin DOMAIN old
                            /\ new[Len(old) + 1] = m
                            /\ \A i \in DOMAIN old : new[i] = old[i]
      <4>1. PICK m \in S : /\ DOMAIN new = DOMAIN old \cup {Len(old) + 1}
                           /\ new[Len(old) + 1] = m
                           /\ \A i \in DOMAIN old : new[i] = old[i]
        BY <3>2
      <4>2. m.body.hart \in Travelling
        BY DEF Travelling
      <4>3. \A i \in DOMAIN old : old[i].body.hart # m.body.hart
        BY <1>1, <4>2, MessageHarts DEF OnePlace
      <4>4. \A i, j \in DOMAIN old : old[i].body.hart = old[j].body.hart => i = j
        BY <1>1 DEF OneThere
      <4> HIDE DEF new, old
      <4>5. QED
        BY <4>1, <4>3, <4>4
    <3>3. QED
      BY <1>8, <3>1, <3>2
  <2>3. \A i, j \in DOMAIN queue' : queue'[i].hart = queue'[j].hart => i = j
    BY <1>1, <1>3 DEF OneThere
  <2>4. ASSUME NEW g \in Hart PROVE Len(inbox'[g][Response]) <= 1
    <3>1. inbox[g][Response] \in Seq(Bus!Letter) /\ Len(inbox[g][Response]) <= 1
      BY <1>1, <1>4 DEF Bus!TypeOK, OneThere
    <3>2. CASE g \in Answering
      <4>1. g \in Travelling
        BY <1>10, <3>2
      <4>2. inbox[g][Response] = <<>>
        BY <1>1, <4>1 DEF OnePlace, Returned
      <4>3. Len(inbox[g][Response]) = 0
        BY <4>2
      <4> HIDE DEF Answering
      <4>4. QED
        BY <1>9, <3>2, <4>3
    <3>3. CASE g \notin Answering
      <4> HIDE DEF Answering
      <4>1. inbox'[g][Response] = inbox[g][Response]
        BY <1>9, <3>3
      <4>2. QED
        BY <3>1, <4>1
    <3>4. QED
      BY <3>2, <3>3
  <2>5. QED
    BY <2>1, <2>2, <2>3, <2>4 DEF OneThere
<1>21. RightId'
  <2>1. \A m \in transit : m.body.transaction = waitingId[m.body.hart]
    BY <1>1 DEF RightId
  <2>2. \A m \in transit' : m.body.transaction = waitingId'[m.body.hart]
    BY <1>2, <1>3, <2>1
  <2>3. \A i \in DOMAIN new : new[i].body.transaction = waitingId'[new[i].body.hart]
    <3>1. \A i \in DOMAIN old : old[i].body.transaction = waitingId[old[i].body.hart]
      BY <1>1 DEF RightId
    <3> HIDE DEF old, new
    <3>2. QED
      BY <1>3, <1>17, <2>1, <3>1
  <2>4. \A g \in Hart : \A i \in DOMAIN inbox'[g][Response] :
          inbox'[g][Response][i].body.transaction = waitingId'[g]
    BY <1>1, <1>3, <1>18, <2>1 DEF RightId
  <2>5. /\ \A i \in DOMAIN queue' : queue'[i].transaction = waitingId'[queue'[i].hart]
        /\ \A i \in DOMAIN active' :
             active'[i].request.transaction = waitingId'[active'[i].request.hart]
        /\ \A i \in DOMAIN response' : response'[i].transaction = waitingId'[response'[i].hart]
    BY <1>1, <1>3 DEF RightId
  <2>6. QED
    BY <2>2, <2>3, <2>4, <2>5 DEF RightId
<1>22. QED
  BY <1>5, <1>6, <1>16, <1>19, <1>20, <1>21 DEF Sound, Placed

\* A turn of the bus, with or without arrivals, keeps the invariant.
LEMMA BusHolds ==
  ASSUME Sound, BusTick, UNCHANGED <<coreVars, memoryVars>>
  PROVE  Sound'
<1>1. CASE Bus!Deliver
  BY <1>1, ArriveHolds DEF Bus!Deliver
<1>2. CASE UNCHANGED busVars
  <2>1. /\ state' = state /\ waitingId' = waitingId /\ transit' = transit /\ inbox' = inbox
        /\ queue' = queue /\ active' = active /\ response' = response
    BY <1>2 DEF coreVars, memoryVars, busVars
  <2>2. /\ Travelling' = Travelling /\ Requesting' = Requesting /\ Queueing' = Queueing
        /\ InService' = InService /\ Answered' = Answered /\ Returned' = Returned
    BY <2>1 DEF Travelling, Requesting, Queueing, InService, Answered, Returned
  <2>3. OnePlace'
    BY <2>1, <2>2 DEF Sound, Placed, OnePlace
  <2>4. WellAddressed' /\ OneThere' /\ RightId'
    BY <2>1 DEF Sound, Placed, WellAddressed, OneThere, RightId
  <2>5. CoreTypeOK' /\ MemoryTypeOK' /\ OperationUnderWay'
    BY DEF Sound, CoreTypeOK, MemoryTypeOK, OperationUnderWay, coreVars, memoryVars
  <2>6. Bus!TypeOK'
    BY <1>2 DEF Sound, Bus!TypeOK, busVars
  <2>7. QED
    BY <2>3, <2>4, <2>5, <2>6 DEF Sound, Placed
<1>3. QED
  BY <1>1, <1>2 DEF BusTick

-------------------------------------------------------------------------------
(***************************************************************************)
(* The turn of the memory controller: what it takes from its inbox, what   *)
(* it does with what it has, and what it sends.                            *)
(***************************************************************************)

\* Sequences without their first element, and with one more.
LEMMA TailElements ==
  ASSUME NEW T, NEW q \in Seq(T), q # <<>>
  PROVE  /\ Tail(q) \in Seq(T) /\ Len(Tail(q)) = Len(q) - 1 /\ Len(q) \in Nat
         /\ 1 \in DOMAIN q /\ Head(q) = q[1] /\ Head(q) \in T
         /\ \A i \in DOMAIN Tail(q) :
              i \in Nat \ {0} /\ i + 1 \in DOMAIN q /\ Tail(q)[i] = q[i + 1]
         /\ \A i \in DOMAIN q :
              i # 1 => i \in Nat /\ i - 1 \in DOMAIN Tail(q) /\ Tail(q)[i - 1] = q[i]
<1> DEFINE t == Tail(q)
           n == Len(q)
<1>1. /\ t \in Seq(T) /\ Len(t) = n - 1 /\ n \in Nat \ {0}
      /\ DOMAIN q = 1 .. n /\ DOMAIN t = 1 .. n - 1
      /\ \A i \in 1 .. n - 1 : t[i] = q[i + 1]
      /\ Head(q) = q[1] /\ Head(q) \in T
  OBVIOUS
<1> HIDE DEF t, n
<1>2. /\ 1 \in DOMAIN q
      /\ \A i \in DOMAIN t : i \in Nat \ {0} /\ i + 1 \in DOMAIN q /\ t[i] = q[i + 1]
      /\ \A i \in DOMAIN q : i # 1 => i \in Nat /\ i - 1 \in DOMAIN t /\ t[i - 1] = q[i]
  BY <1>1
<1>3. QED
  BY <1>1, <1>2 DEF t, n

\* The elements of a sequence with one more are those of before and that one.
LEMMA AppendElements ==
  ASSUME NEW T, NEW q \in Seq(T), NEW x \in T
  PROVE  /\ Append(q, x) \in Seq(T) /\ Len(Append(q, x)) = Len(q) + 1 /\ Len(q) \in Nat
         /\ DOMAIN Append(q, x) = DOMAIN q \cup {Len(q) + 1}
         /\ Len(q) + 1 \notin DOMAIN q
         /\ Append(q, x)[Len(q) + 1] = x
         /\ \A i \in DOMAIN q : Append(q, x)[i] = q[i]
<1> DEFINE t == Append(q, x)
           n == Len(q)
<1>1. /\ t \in Seq(T) /\ Len(t) = n + 1 /\ n \in Nat
      /\ DOMAIN q = 1 .. n /\ DOMAIN t = 1 .. n + 1
      /\ \A i \in 1 .. n : t[i] = q[i]
      /\ t[n + 1] = x
  OBVIOUS
<1> HIDE DEF t, n
<1>2. DOMAIN t = DOMAIN q \cup {n + 1} /\ n + 1 \notin DOMAIN q
  BY <1>1
<1>3. QED
  BY <1>1, <1>2 DEF t, n

\* What the queue would hold without start_request(), and the harts of its requests.
TakenHarts == {Taken[i].hart : i \in DOMAIN Taken}

\* Taking a request from the inbox changes neither of the two together.
LEMMA TakeFacts ==
  ASSUME Sound, NEW sent \in BOOLEAN, Exchange(sent)
  PROVE  /\ Taken \in Seq(MemoryRequest) /\ Len(Taken) <= QueueCapacity
         /\ \A i \in DOMAIN Taken :
              Fits(Taken[i]) /\ Taken[i].transaction = waitingId[Taken[i].hart]
         /\ \A i, j \in DOMAIN Taken : Taken[i].hart = Taken[j].hart => i = j
         /\ inbox' \in [Port -> [Channel -> Seq(Bus!Letter)]]
         /\ \A g \in Hart : inbox'[g][Response] = inbox[g][Response]
         /\ LET new == inbox'[MemoryPort][Request] IN
            /\ \A i \in DOMAIN new :
                 Fits(new[i].body) /\ new[i].body.transaction = waitingId[new[i].body.hart]
            /\ \A i, j \in DOMAIN new : new[i].body.hart = new[j].body.hart => i = j
         /\ Requesting' \cup TakenHarts = Requesting \cup Queueing
         /\ Requesting' \cap TakenHarts = {}
<1> DEFINE old == inbox[MemoryPort][Request]
           new == inbox'[MemoryPort][Request]
<1>1. /\ queue \in Seq(MemoryRequest) /\ Len(queue) <= QueueCapacity
      /\ inbox \in [Port -> [Channel -> Seq(Bus!Letter)]]
      /\ \A i \in DOMAIN queue : Fits(queue[i]) /\ queue[i].transaction = waitingId[queue[i].hart]
      /\ \A i, j \in DOMAIN queue : queue[i].hart = queue[j].hart => i = j
      /\ \A i \in DOMAIN old :
           Fits(old[i].body) /\ old[i].body.transaction = waitingId[old[i].body.hart]
      /\ \A i, j \in DOMAIN old : old[i].body.hart = old[j].body.hart => i = j
      /\ Requesting \cap Queueing = {}
  BY DEF Sound, Placed, MemoryTypeOK, Bus!TypeOK, WellAddressed, RightId, OneThere, OnePlace
<1>2. /\ MemoryPort \in Port /\ Hart \subseteq Port /\ MemoryPort \notin Hart
      /\ Request \in Channel /\ Response \in Channel /\ Request # Response
  BY SystemAssumption DEF Port, Hart, MemoryPort, Channel, Request, Response
<1>3. old \in Seq(Bus!Letter)
  BY <1>1, <1>2
<1>4. /\ Requesting = {old[i].body.hart : i \in DOMAIN old}
      /\ Requesting' = {new[i].body.hart : i \in DOMAIN new}
      /\ Queueing = {queue[i].hart : i \in DOMAIN queue}
  BY DEF Requesting, Queueing
<1>5. CASE ~MayTake
  <2>1. inbox' = inbox /\ Taken = queue
    BY <1>5 DEF Exchange, Taken
  <2>2. TakenHarts = Queueing /\ Requesting' = Requesting
    BY <2>1 DEF TakenHarts, Queueing, Requesting
  <2>3. QED
    BY <1>1, <2>1, <2>2
<1>6. CASE MayTake
  <2> DEFINE r == Head(old).body
             t == Append(queue, r)
  <2>1. /\ Len(queue) < QueueCapacity /\ old # <<>>
        /\ inbox' = [inbox EXCEPT ![MemoryPort][Request] = Tail(@)]
        /\ Taken = t
    BY <1>6 DEF Exchange, Taken, MayTake, CanRecv, Received
  <2>2. /\ new = Tail(old)
        /\ \A g \in Hart : inbox'[g][Response] = inbox[g][Response]
        /\ inbox' \in [Port -> [Channel -> Seq(Bus!Letter)]]
    <3>1. Tail(old) \in Seq(Bus!Letter)
      BY <1>3, <2>1
    <3>2. inbox' = [inbox EXCEPT ![MemoryPort] =
                      [inbox[MemoryPort] EXCEPT ![Request] = Tail(old)]]
      BY <2>1
    <3>3. /\ inbox \in [Port -> [Channel -> Seq(Bus!Letter)]]
          /\ [inbox[MemoryPort] EXCEPT ![Request] = Tail(old)] \in [Channel -> Seq(Bus!Letter)]
      BY <1>1, <1>2, <3>1
    <3> HIDE DEF old
    <3>4. /\ inbox' \in [Port -> [Channel -> Seq(Bus!Letter)]]
          /\ \A g \in Hart : inbox'[g] = inbox[g]
          /\ new = Tail(old)
      BY <1>2, <3>2, <3>3
    <3>5. QED
      BY <3>4
  <2>3. /\ 1 \in DOMAIN old /\ r = old[1].body
        /\ \A i \in DOMAIN new : i \in Nat \ {0} /\ i + 1 \in DOMAIN old /\ new[i] = old[i + 1]
        /\ \A i \in DOMAIN old : i # 1 => i - 1 \in DOMAIN new /\ new[i - 1] = old[i]
    BY <1>3, <2>1, <2>2, TailElements
  <2>4. Fits(r) /\ r \in MemoryRequest /\ r.transaction = waitingId[r.hart] /\ r.hart \in Requesting
    BY <1>1, <1>4, <2>3 DEF Fits
  <2> HIDE DEF new, old, r
  <2>5. /\ t \in Seq(MemoryRequest) /\ Len(t) = Len(queue) + 1 /\ Len(queue) \in Nat
        /\ DOMAIN t = DOMAIN queue \cup {Len(queue) + 1}
        /\ Len(queue) + 1 \notin DOMAIN queue
        /\ t[Len(queue) + 1] = r
        /\ \A i \in DOMAIN queue : t[i] = queue[i]
    BY <1>1, <2>4, AppendElements
  <2> HIDE DEF t
  <2>6. /\ \A i \in DOMAIN t : Fits(t[i]) /\ t[i].transaction = waitingId[t[i].hart]
        /\ Len(t) <= QueueCapacity
    BY <1>1, <2>1, <2>4, <2>5, MemoryAssumption
  <2>7. \A i \in DOMAIN queue : queue[i].hart # r.hart
    <3>1. \A i \in DOMAIN queue : queue[i].hart \in Queueing
      BY DEF Queueing
    <3>2. r.hart \notin Queueing
      BY <1>1, <2>4
    <3>3. QED
      BY <3>1, <3>2
  <2>8. \A i, j \in DOMAIN t : t[i].hart = t[j].hart => i = j
    BY <1>1, <2>5, <2>7
  <2>9. /\ \A i \in DOMAIN new :
             /\ Fits(new[i].body) /\ new[i].body.transaction = waitingId[new[i].body.hart]
             /\ new[i].body.hart # r.hart
        /\ \A i, j \in DOMAIN new : new[i].body.hart = new[j].body.hart => i = j
    <3>1. ASSUME NEW i \in DOMAIN new
          PROVE  /\ Fits(new[i].body) /\ new[i].body.transaction = waitingId[new[i].body.hart]
                 /\ new[i].body.hart # r.hart
      <4>1. i \in Nat \ {0} /\ i + 1 \in DOMAIN old /\ i + 1 # 1 /\ new[i] = old[i + 1]
        BY <2>3
      <4>2. QED
        BY <1>1, <2>3, <4>1 DEF r, old
    <3>2. ASSUME NEW i \in DOMAIN new, NEW j \in DOMAIN new, new[i].body.hart = new[j].body.hart
          PROVE  i = j
      <4>1. /\ i \in Nat /\ i + 1 \in DOMAIN old /\ new[i] = old[i + 1]
            /\ j \in Nat /\ j + 1 \in DOMAIN old /\ new[j] = old[j + 1]
        BY <2>3
      <4>2. i + 1 = j + 1
        BY <1>1, <3>2, <4>1 DEF old
      <4>3. QED
        BY <4>1, <4>2
    <3>3. QED
      BY <3>1, <3>2
  <2>10. TakenHarts = Queueing \cup {r.hart}
    <3>1. TakenHarts = {t[i].hart : i \in DOMAIN t}
      BY <2>1 DEF TakenHarts, t
    <3>2. QED
      BY <1>4, <2>5, <3>1
  <2>11. Requesting' = Requesting \ {r.hart}
    <3>1. ASSUME NEW x
          PROVE  x \in Requesting' <=> x \in Requesting /\ x # r.hart
      BY <1>4, <2>3, <2>9 DEF r, old
    <3>2. QED
      BY <3>1
  <2>12. Requesting' \cup TakenHarts = Requesting \cup Queueing /\ Requesting' \cap TakenHarts = {}
    BY <1>1, <2>4, <2>10, <2>11
  <2>13. QED
    BY <2>1, <2>2, <2>5, <2>6, <2>8, <2>9, <2>12 DEF t, new
<1>7. QED
  BY <1>5, <1>6

\* Serving moves requests from the queue to service and makes responses of them.
LEMMA ServeFacts ==
  ASSUME Sound, NEW sent \in BOOLEAN, Exchange(sent), Serve(sent)
  PROVE  /\ MemoryTypeOK'
         /\ \A i \in DOMAIN queue' :
              Fits(queue'[i]) /\ queue'[i].transaction = waitingId[queue'[i].hart]
         /\ \A i, j \in DOMAIN queue' : queue'[i].hart = queue'[j].hart => i = j
         /\ \A i \in DOMAIN active' :
              /\ Fits(active'[i].request)
              /\ active'[i].request.transaction = waitingId[active'[i].request.hart]
         /\ \A i \in DOMAIN response' : response'[i].transaction = waitingId[response'[i].hart]
         /\ Queueing' \cup InService' \cup Answered' =
              TakenHarts \cup InService \cup (IF sent THEN {} ELSE Answered)
         /\ Queueing' \cap (InService' \cup Answered') = {} /\ InService' \cap Answered' = {}
<1> DEFINE unsent == Unsent(sent)
           advancing == active # <<>> /\ unsent = <<>>
           done == advancing /\ active[1].left = 1
           starting == unsent = <<>> /\ ~done /\ active = <<>> /\ Taken # <<>>
           Still == IF sent THEN {} ELSE Answered
<1>1. /\ MemoryTypeOK
      /\ \A i \in DOMAIN active :
           /\ Fits(active[i].request)
           /\ active[i].request.transaction = waitingId[active[i].request.hart]
      /\ \A i \in DOMAIN response : response[i].transaction = waitingId[response[i].hart]
  BY DEF Sound, Placed, WellAddressed, RightId
<1>2. /\ Taken \in Seq(MemoryRequest) /\ Len(Taken) <= QueueCapacity
      /\ \A i \in DOMAIN Taken :
           Fits(Taken[i]) /\ Taken[i].transaction = waitingId[Taken[i].hart]
      /\ \A i, j \in DOMAIN Taken : Taken[i].hart = Taken[j].hart => i = j
  BY TakeFacts
<1>3. TakenHarts \cap (InService \cup Answered) = {} /\ InService \cap Answered = {}
  <2>1. TakenHarts \subseteq Requesting \cup Queueing
    BY TakeFacts
  <2>2. QED
    BY <2>1 DEF Sound, Placed, OnePlace
<1>4. Still \subseteq Answered
  OBVIOUS
<1>5. /\ response' = IF done THEN <<ResponseTo(active[1].request)>> ELSE unsent
      /\ bytes' = IF done THEN Effect(bytes, active[1].request) ELSE bytes
      /\ active' = CASE done -> <<>>
                     [] advancing /\ ~done -> <<[active[1] EXCEPT !.left = @ - 1]>>
                     [] starting -> <<[request |-> Head(Taken), left |-> ServiceLatency]>>
                     [] OTHER -> active
      /\ queue' = IF starting THEN Tail(Taken) ELSE Taken
  BY DEF Serve
<1>6. /\ active \in Seq([request : MemoryRequest, left : 1 .. ServiceLatency])
      /\ response \in Seq(MemoryResponse)
      /\ Len(active) \in Nat /\ Len(response) \in Nat /\ Len(active) + Len(response) <= 1
      /\ bytes \in [Address -> Byte]
  <2>1. /\ active \in Seq([request : MemoryRequest, left : 1 .. ServiceLatency])
        /\ response \in Seq(MemoryResponse)
        /\ Len(active) + Len(response) <= 1
        /\ bytes \in [Address -> Byte]
    BY <1>1 DEF MemoryTypeOK
  <2>2. Len(active) \in Nat /\ Len(response) \in Nat
    BY <2>1, LenProperties
  <2>3. QED
    BY <2>1, <2>2
<1>7. /\ active = <<>> \/ (DOMAIN active = {1} /\ response = <<>> /\ Len(active) = 1)
      /\ active # <<>> =>
           active[1] \in [request : MemoryRequest, left : 1 .. ServiceLatency]
  <2> DEFINE n == Len(active)
             k == Len(response)
             R == [request : MemoryRequest, left : 1 .. ServiceLatency]
  <2>1. /\ active \in Seq(R) /\ n \in Nat /\ DOMAIN active = 1 .. n
        /\ n = 0 => active = <<>>
        /\ \A i \in 1 .. n : active[i] \in R
    BY <1>6, LenProperties, ElementOfSeq, EmptySeq
  <2>2. k \in Nat /\ (k = 0 => response = <<>>) /\ n + k <= 1
    BY <1>6, EmptySeq
  <2> HIDE DEF n, k, R
  <2>3. (n = 0) \/ (n = 1 /\ k = 0)
    BY <2>1, <2>2
  <2>4. CASE n = 0
    BY <2>1, <2>4
  <2>5. CASE n = 1 /\ k = 0
    <3>1. DOMAIN active = {1} /\ active[1] \in R
      BY <2>1, <2>5
    <3>2. QED
      BY <2>2, <2>5, <3>1 DEF n, R
  <2>6. QED
    BY <2>3, <2>4, <2>5
<1>8. /\ unsent \in Seq(MemoryResponse) /\ Len(unsent) <= 1
      /\ Still = {unsent[i].hart : i \in DOMAIN unsent}
      /\ \A i \in DOMAIN unsent : unsent[i].transaction = waitingId[unsent[i].hart]
      /\ active # <<>> => unsent = <<>>
  <2>1. CASE sent
    <3>1. unsent = <<>>
      BY <2>1 DEF Unsent
    <3>2. DOMAIN unsent = {} /\ Len(unsent) = 0 /\ unsent \in Seq(MemoryResponse)
      BY <3>1, EmptySeq
    <3>3. Still = {}
      BY <2>1
    <3> HIDE DEF unsent, Still
    <3>4. {unsent[i].hart : i \in DOMAIN unsent} = {}
      BY <3>2
    <3>5. QED
      BY <3>1, <3>2, <3>3, <3>4
  <2>2. CASE ~sent
    <3>1. unsent = response
      BY <2>2 DEF Unsent
    <3>2. QED
      BY <1>1, <1>6, <1>7, <2>2, <3>1 DEF Answered
  <2>3. QED
    BY <2>1, <2>2
<1>9. /\ TakenHarts = {Taken[i].hart : i \in DOMAIN Taken}
      /\ Queueing' = {queue'[i].hart : i \in DOMAIN queue'}
      /\ InService' = {active'[i].request.hart : i \in DOMAIN active'}
      /\ InService = {active[i].request.hart : i \in DOMAIN active}
      /\ Answered' = {response'[i].hart : i \in DOMAIN response'}
  BY DEF TakenHarts, Queueing, InService, Answered
<1> HIDE DEF unsent, Still
<1>10. CASE done
  <2> DEFINE r == active[1].request
             a == ResponseTo(r)
  <2>1. /\ response' = <<a>> /\ bytes' = Effect(bytes, r) /\ active' = <<>> /\ queue' = Taken
        /\ unsent = <<>> /\ active # <<>>
    BY <1>5, <1>10
  <2>2. DOMAIN active = {1} /\ Fits(r) /\ r.transaction = waitingId[r.hart]
    BY <1>1, <1>7, <2>1
  <2>3. /\ a \in MemoryResponse /\ a.hart = r.hart /\ a.transaction = r.transaction
        /\ bytes' \in [Address -> Byte]
    BY <1>1, <2>1, <2>2, ResponseFits
  <2> HIDE DEF a
  <2>4. DOMAIN response' = {1} /\ response'[1] = a /\ response' \in Seq(MemoryResponse)
        /\ Len(response') = 1
    BY <2>1, <2>3
  <2>5. /\ DOMAIN active' = {} /\ Len(active') = 0
        /\ active' \in Seq([request : MemoryRequest, left : 1 .. ServiceLatency])
    BY <2>1, EmptySeq
  <2>6. MemoryTypeOK'
    BY <1>2, <2>1, <2>3, <2>4, <2>5 DEF MemoryTypeOK
  <2>7. Still = {}
    <3>1. DOMAIN unsent = {}
      BY <2>1
    <3>2. QED
      BY <1>8, <3>1
  <2> HIDE DEF r
  <2>8. /\ Queueing' = TakenHarts /\ InService' = {}
        /\ InService = {r.hart} /\ Answered' = {r.hart}
    BY <1>9, <2>1, <2>2, <2>3, <2>4, <2>5 DEF r
  <2>9. QED
    BY <1>2, <1>3, <2>1, <2>2, <2>3, <2>4, <2>5, <2>6, <2>7, <2>8 DEF Still
<1>11. CASE advancing /\ ~done
  <2> DEFINE x == [active[1] EXCEPT !.left = @ - 1]
  <2>1. response' = unsent /\ bytes' = bytes /\ active' = <<x>> /\ queue' = Taken /\ active # <<>>
        /\ unsent = <<>>
    BY <1>5, <1>11
  <2>2. /\ x.request = active[1].request
        /\ x \in [request : MemoryRequest, left : 1 .. ServiceLatency]
    <3>1. active[1] \in [request : MemoryRequest, left : 1 .. ServiceLatency] /\ active[1].left # 1
      BY <1>7, <1>11, <2>1
    <3>2. active[1].left - 1 \in 1 .. ServiceLatency
      BY <3>1, MemoryAssumption
    <3>3. QED
      BY <3>1, <3>2
  <2> HIDE DEF x
  <2>3. /\ DOMAIN active' = {1} /\ active'[1] = x /\ Len(active') = 1
        /\ active' \in Seq([request : MemoryRequest, left : 1 .. ServiceLatency])
    BY <2>1, <2>2
  <2>4. Len(response') = 0 /\ DOMAIN response' = {} /\ response' \in Seq(MemoryResponse)
    BY <2>1, EmptySeq
  <2>5. MemoryTypeOK'
    BY <1>2, <1>6, <2>1, <2>3, <2>4 DEF MemoryTypeOK
  <2>6. DOMAIN active = {1}
    BY <1>7, <2>1
  <2>7. /\ Queueing' = TakenHarts /\ InService' = InService /\ Answered' = Still /\ Still = {}
    BY <1>8, <1>9, <2>1, <2>2, <2>3, <2>4, <2>6
  <2>8. QED
    BY <1>1, <1>2, <1>3, <2>1, <2>2, <2>3, <2>4, <2>5, <2>6, <2>7 DEF Still
<1>12. CASE starting
  <2> DEFINE r == Head(Taken)
             x == [request |-> r, left |-> ServiceLatency]
             t == Tail(Taken)
  <2>1. /\ response' = unsent /\ bytes' = bytes /\ active' = <<x>> /\ queue' = t
        /\ active = <<>> /\ unsent = <<>> /\ Taken # <<>>
    BY <1>5, <1>12
  <2>2. /\ t \in Seq(MemoryRequest) /\ Len(t) = Len(Taken) - 1 /\ Len(Taken) \in Nat
        /\ 1 \in DOMAIN Taken /\ r = Taken[1] /\ r \in MemoryRequest
        /\ \A i \in DOMAIN t : i \in Nat \ {0} /\ i + 1 \in DOMAIN Taken /\ t[i] = Taken[i + 1]
        /\ \A i \in DOMAIN Taken : i # 1 => i \in Nat /\ i - 1 \in DOMAIN t /\ t[i - 1] = Taken[i]
    BY <1>2, <2>1, TailElements
  <2>3. Fits(r) /\ r.transaction = waitingId[r.hart] /\ r.hart \in TakenHarts
    BY <1>2, <1>9, <2>2
  <2> HIDE DEF r, t
  <2>4. x.request = r /\ x \in [request : MemoryRequest, left : 1 .. ServiceLatency]
    BY <2>2, MemoryAssumption
  <2> HIDE DEF x
  <2>5. /\ DOMAIN active' = {1} /\ active'[1] = x /\ Len(active') = 1
        /\ active' \in Seq([request : MemoryRequest, left : 1 .. ServiceLatency])
    BY <2>1, <2>4
  <2>6. Len(response') = 0 /\ DOMAIN response' = {} /\ response' \in Seq(MemoryResponse)
    BY <2>1, EmptySeq
  <2>7. Len(t) <= QueueCapacity
    BY <1>2, <2>2, MemoryAssumption
  <2>8. MemoryTypeOK'
    BY <1>6, <2>1, <2>2, <2>5, <2>6, <2>7 DEF MemoryTypeOK
  <2>9. ASSUME NEW i \in DOMAIN t
        PROVE  /\ Fits(t[i]) /\ t[i].transaction = waitingId[t[i].hart]
               /\ t[i].hart # r.hart /\ t[i].hart \in TakenHarts
    <3>1. i \in Nat \ {0} /\ i + 1 \in DOMAIN Taken /\ t[i] = Taken[i + 1]
      BY <2>2
    <3>2. i + 1 # 1
      BY <3>1
    <3>3. Taken[i + 1].hart # Taken[1].hart
      BY <1>2, <2>2, <3>1, <3>2
    <3>4. t[i].hart \in TakenHarts
      BY <1>9, <3>1
    <3>5. QED
      BY <1>2, <2>2, <3>1, <3>3, <3>4
  <2>10. ASSUME NEW i \in DOMAIN t, NEW j \in DOMAIN t, t[i].hart = t[j].hart
         PROVE  i = j
    <3>1. /\ i \in Nat /\ i + 1 \in DOMAIN Taken /\ t[i] = Taken[i + 1]
          /\ j \in Nat /\ j + 1 \in DOMAIN Taken /\ t[j] = Taken[j + 1]
      BY <2>2
    <3>2. i + 1 = j + 1
      BY <1>2, <2>10, <3>1
    <3>3. QED
      BY <3>1, <3>2
  <2>11. Queueing' = TakenHarts \ {r.hart}
    <3>1. Queueing' = {t[i].hart : i \in DOMAIN t}
      BY <1>9, <2>1
    <3>2. ASSUME NEW y
          PROVE  y \in Queueing' <=> y \in TakenHarts /\ y # r.hart
      <4>1. ASSUME y \in TakenHarts, y # r.hart PROVE y \in Queueing'
        <5>1. PICK i \in DOMAIN Taken : Taken[i].hart = y
          BY <1>9, <4>1
        <5>2. i # 1
          BY <2>2, <4>1, <5>1
        <5>3. i - 1 \in DOMAIN t /\ t[i - 1] = Taken[i]
          BY <2>2, <5>2
        <5>4. QED
          BY <3>1, <5>1, <5>3
      <4>2. QED
        BY <2>9, <3>1, <4>1
    <3>3. QED
      BY <3>2
  <2>12. InService' = {r.hart} /\ Answered' = {} /\ InService = {} /\ Still = {}
    <3>1. DOMAIN active = {} /\ DOMAIN unsent = {}
      BY <2>1
    <3>2. QED
      BY <1>8, <1>9, <2>4, <2>5, <2>6, <3>1
  <2>13. /\ \A i \in DOMAIN queue' :
              Fits(queue'[i]) /\ queue'[i].transaction = waitingId[queue'[i].hart]
         /\ \A i, j \in DOMAIN queue' : queue'[i].hart = queue'[j].hart => i = j
    BY <2>1, <2>9, <2>10
  <2>14. Queueing' \cup InService' \cup Answered' = TakenHarts \cup InService \cup Still
    BY <2>3, <2>11, <2>12
  <2>15. QED
    BY <1>3, <2>3, <2>4, <2>5, <2>6, <2>8, <2>11, <2>12, <2>13, <2>14 DEF Still
<1>13. CASE ~advancing /\ ~starting
  <2>1. response' = unsent /\ bytes' = bytes /\ active' = active /\ queue' = Taken
    BY <1>5, <1>13
  <2>2. Len(active') + Len(response') <= 1
    <3>1. active = <<>> => Len(active) = 0
      OBVIOUS
    <3>2. active # <<>> => Len(unsent) = 0
      BY <1>8
    <3>3. Len(unsent) \in Nat
      BY <1>8
    <3>4. QED
      BY <1>6, <1>7, <1>8, <2>1, <3>1, <3>2, <3>3
  <2>3. MemoryTypeOK'
    BY <1>2, <1>6, <1>8, <2>1, <2>2 DEF MemoryTypeOK
  <2>4. Queueing' = TakenHarts /\ InService' = InService /\ Answered' = Still
    BY <1>8, <1>9, <2>1
  <2>5. QED
    BY <1>1, <1>2, <1>8, <1>3, <1>4, <2>1, <2>3, <2>4 DEF Still
<1>14. QED
  BY <1>10, <1>11, <1>12, <1>13

\* A response that the bus accepts is in transit to its hart.
LEMMA SendFacts ==
  ASSUME Sound, NEW sent \in BOOLEAN, Exchange(sent), sent => response # <<>>
  PROVE  /\ transit' \in SUBSET Bus!Letter /\ accepted' \in Nat
         /\ \A m \in transit' :
              /\ \/ m.channel = Request /\ m.dst = MemoryPort /\ Fits(m.body)
                 \/ m.channel = Response /\ m.dst = m.body.hart /\ m.body \in MemoryResponse
              /\ m.body.transaction = waitingId[m.body.hart]
         /\ \A m, k \in transit' : m.body.hart = k.body.hart => m = k
         /\ Travelling' = Travelling \cup (IF sent THEN Answered ELSE {})
<1>1. /\ transit \in SUBSET Bus!Letter /\ accepted \in Nat
      /\ response \in Seq(MemoryResponse) /\ Len(active) + Len(response) <= 1
      /\ active \in Seq([request : MemoryRequest, left : 1 .. ServiceLatency])
      /\ \A m \in transit :
           /\ \/ m.channel = Request /\ m.dst = MemoryPort /\ Fits(m.body)
              \/ m.channel = Response /\ m.dst = m.body.hart /\ m.body \in MemoryResponse
           /\ m.body.transaction = waitingId[m.body.hart]
      /\ \A m, k \in transit : m.body.hart = k.body.hart => m = k
      /\ \A i \in DOMAIN response : response[i].transaction = waitingId[response[i].hart]
      /\ Travelling \cap Answered = {}
  BY DEF Sound, Placed, MemoryTypeOK, Bus!TypeOK, WellAddressed, RightId, OneThere, OnePlace
<1>2. CASE ~sent
  <2>1. transit' = transit /\ accepted' = accepted
    BY <1>2 DEF Exchange
  <2>2. Travelling' = Travelling
    BY <2>1 DEF Travelling
  <2>3. QED
    BY <1>1, <1>2, <2>1, <2>2
<1>3. CASE sent
  <2> DEFINE r == response[1]
             m == [id |-> accepted + 1, src |-> MemoryPort, dst |-> r.hart,
                   channel |-> Response, body |-> r]
  <2>1. accepted' = accepted + 1 /\ transit' = transit \cup {m}
    BY <1>3 DEF Exchange
  <2>2. DOMAIN response = {1} /\ r \in MemoryResponse
    <3>1. Len(active) \in Nat
      BY <1>1, LenProperties
    <3>2. Len(response) \in Nat \ {0} /\ DOMAIN response = 1 .. Len(response)
      BY <1>1, <1>3, EmptySeq, LenProperties
    <3>3. Len(response) = 1
      BY <1>1, <3>1, <3>2
    <3>4. DOMAIN response = {1}
      BY <3>2, <3>3
    <3>5. response \in Seq(MemoryResponse) /\ 1 \in 1 .. Len(response)
      BY <1>1, <3>3
    <3>6. response[1] \in MemoryResponse
      BY <3>5, ElementOfSeq
    <3>7. QED
      BY <3>4, <3>6
  <2>3. r.hart \in Hart /\ r.hart \in Port /\ r.transaction = waitingId[r.hart]
    BY <1>1, <2>2 DEF MemoryResponse, Port
  <2>4. Answered = {r.hart}
    BY <2>2 DEF Answered
  <2> HIDE DEF r
  <2>5. m \in Bus!Letter /\ m.body = r /\ m.channel = Response /\ m.dst = r.hart
    BY <1>1, <2>2, <2>3 DEF Bus!Letter, Port, Channel
  <2> HIDE DEF m
  <2>6. \A k \in transit : k.body.hart # r.hart
    BY <1>1, <2>4 DEF Travelling
  <2>7. Travelling' = Travelling \cup {r.hart}
    BY <2>1, <2>5 DEF Travelling
  <2>8. /\ transit' \in SUBSET Bus!Letter /\ accepted' \in Nat
    BY <1>1, <2>1, <2>5
  <2>9. /\ \A k \in transit' :
             /\ \/ k.channel = Request /\ k.dst = MemoryPort /\ Fits(k.body)
                \/ k.channel = Response /\ k.dst = k.body.hart /\ k.body \in MemoryResponse
             /\ k.body.transaction = waitingId[k.body.hart]
    BY <1>1, <2>1, <2>2, <2>3, <2>5
  <2>10. \A k, n \in transit' : k.body.hart = n.body.hart => k = n
    BY <1>1, <2>1, <2>5, <2>6
  <2>11. QED
    BY <1>3, <2>4, <2>7, <2>8, <2>9, <2>10
<1>4. QED
  BY <1>2, <1>3

\* A turn of the memory controller (take, serve, answer) keeps the invariant.
LEMMA MemoryHolds ==
  ASSUME Sound, MemoryTick, UNCHANGED coreVars
  PROVE  Sound'
<1>1. PICK sent \in BOOLEAN : (sent => response # <<>>) /\ Serve(sent) /\ Exchange(sent)
  BY DEF MemoryTick
<1> DEFINE new == inbox'[MemoryPort][Request]
<1>2. /\ inbox' \in [Port -> [Channel -> Seq(Bus!Letter)]]
      /\ \A g \in Hart : inbox'[g][Response] = inbox[g][Response]
      /\ \A i \in DOMAIN new :
           Fits(new[i].body) /\ new[i].body.transaction = waitingId[new[i].body.hart]
      /\ \A i, j \in DOMAIN new : new[i].body.hart = new[j].body.hart => i = j
      /\ Requesting' \cup TakenHarts = Requesting \cup Queueing
      /\ Requesting' \cap TakenHarts = {}
  BY <1>1, TakeFacts
<1>3. /\ MemoryTypeOK'
      /\ \A i \in DOMAIN queue' :
           Fits(queue'[i]) /\ queue'[i].transaction = waitingId[queue'[i].hart]
      /\ \A i, j \in DOMAIN queue' : queue'[i].hart = queue'[j].hart => i = j
      /\ \A i \in DOMAIN active' :
           /\ Fits(active'[i].request)
           /\ active'[i].request.transaction = waitingId[active'[i].request.hart]
      /\ \A i \in DOMAIN response' : response'[i].transaction = waitingId[response'[i].hart]
      /\ Queueing' \cup InService' \cup Answered' =
           TakenHarts \cup InService \cup (IF sent THEN {} ELSE Answered)
      /\ Queueing' \cap (InService' \cup Answered') = {} /\ InService' \cap Answered' = {}
  BY <1>1, ServeFacts
<1>4. /\ transit' \in SUBSET Bus!Letter /\ accepted' \in Nat
      /\ \A m \in transit' :
           /\ \/ m.channel = Request /\ m.dst = MemoryPort /\ Fits(m.body)
              \/ m.channel = Response /\ m.dst = m.body.hart /\ m.body \in MemoryResponse
           /\ m.body.transaction = waitingId[m.body.hart]
      /\ \A m, k \in transit' : m.body.hart = k.body.hart => m = k
      /\ Travelling' = Travelling \cup (IF sent THEN Answered ELSE {})
  BY <1>1, SendFacts
<1>5. state' = state /\ waitingId' = waitingId
  BY DEF coreVars
<1>6. CoreTypeOK' /\ OperationUnderWay'
  BY DEF Sound, CoreTypeOK, OperationUnderWay, coreVars
<1>7. Bus!TypeOK'
  BY <1>2, <1>4 DEF Bus!TypeOK
<1>8. Returned' = Returned
  BY <1>2 DEF Returned
<1>9. OnePlace'
  BY <1>2, <1>3, <1>4, <1>5, <1>8 DEF Sound, Placed, OnePlace
<1>10. \A g \in Hart :
         /\ Len(inbox'[g][Response]) <= 1
         /\ \A i \in DOMAIN inbox'[g][Response] :
              /\ inbox'[g][Response][i].body \in MemoryResponse
              /\ inbox'[g][Response][i].body.hart = g
              /\ inbox'[g][Response][i].body.transaction = waitingId[g]
  BY <1>2 DEF Sound, Placed, WellAddressed, OneThere, RightId
<1>11. WellAddressed'
  BY <1>2, <1>3, <1>4, <1>10 DEF WellAddressed
<1>12. OneThere'
  BY <1>2, <1>3, <1>4, <1>10 DEF OneThere
<1>13. RightId'
  BY <1>2, <1>3, <1>4, <1>5, <1>10 DEF RightId
<1>14. QED
  BY <1>3, <1>6, <1>7, <1>9, <1>11, <1>12, <1>13 DEF Sound, Placed

-------------------------------------------------------------------------------
\* Every turn keeps the invariant.
LEMMA NextHolds == NoUnexpectedResponse /\ [Next]_vars => NoUnexpectedResponse'
<1> SUFFICES ASSUME NoUnexpectedResponse, [Next]_vars PROVE NoUnexpectedResponse'
  OBVIOUS
<1>1. Sound /\ turn \in 0 .. Cores + 1
  BY DEF NoUnexpectedResponse, TypeOK, Sound, Placed
<1>2. Cores \in Nat \ {0}
  BY SystemAssumption
<1>3. Sound' /\ turn' \in 0 .. Cores + 1 => NoUnexpectedResponse'
  BY DEF NoUnexpectedResponse, TypeOK, Sound, Placed
<1>4. CASE MemoryTurn
  <2>1. MemoryTick /\ turn' = 1 /\ UNCHANGED coreVars
    BY <1>4 DEF MemoryTurn
  <2>2. QED
    BY <1>1, <1>2, <1>3, <2>1, MemoryHolds
<1>5. CASE \E h \in Hart : CoreTurn(h)
  <2>1. PICK h \in Hart : CoreTurn(h)
    BY <1>5
  <2>2. turn = h + 1 /\ CoreTick(h) /\ turn' = turn + 1 /\ UNCHANGED memoryVars
    BY <2>1 DEF CoreTurn
  <2>3. Sound'
    BY <1>1, <2>2, QuietTick, IssueTick, ReceiveTick DEF CoreTick
  <2>4. turn' \in 0 .. Cores + 1
    BY <1>2, <2>2 DEF Hart
  <2>5. QED
    BY <1>3, <2>3, <2>4
<1>6. CASE BusTurn
  <2>1. BusTick /\ turn' = 0 /\ UNCHANGED <<coreVars, memoryVars>>
    BY <1>6 DEF BusTurn
  <2>2. QED
    BY <1>1, <1>2, <1>3, <2>1, BusHolds
<1>7. CASE Stopped \/ UNCHANGED vars
  <2>1. turn' = turn /\ UNCHANGED <<coreVars, memoryVars, busVars>>
    BY <1>7 DEF Stopped, vars
  <2>2. Sound'
    BY <1>1, <2>1, BusHolds DEF BusTick
  <2>3. QED
    BY <1>1, <1>3, <2>1, <2>2
<1>8. QED
  BY <1>4, <1>5, <1>6, <1>7 DEF Next

(***************************************************************************)
(* No hart of the scripted system ever meets a response it does not wait   *)
(* for: with every bus that keeps the promise of IBus, for every number of *)
(* harts and every programs, each hart has at most one message under way,  *)
(* in one place, with the id it waits for, and none when it does not wait. *)
(***************************************************************************)
THEOREM NoneUnexpected == Spec => []NoUnexpectedResponse
<1>1. Init => NoUnexpectedResponse
  BY InitHolds
<1>2. NoUnexpectedResponse /\ [Next]_vars => NoUnexpectedResponse'
  BY NextHolds
<1>3. QED
  BY <1>1, <1>2, PTL DEF Spec

-------------------------------------------------------------------------------
(***************************************************************************)
(* The scripted system implements AtomicMemory: the accesses of the harts  *)
(* take effect one at a time, each as a whole, between its issue and its   *)
(* retirement.  A hart that waits has called; it is done when the memory   *)
(* has made its response.  The one step that performs an access is the     *)
(* cycle of the controller that ends a service; all else that a message    *)
(* goes through is invisible to the harts.                                 *)
(***************************************************************************)

(***************************************************************************)
(* What AtomicMemory sees of a state.                                      *)
(***************************************************************************)
AccessOfRequest(r) == [op |-> r.op, address |-> r.address, size |-> r.size, data |-> r.data]

CallOf(h) ==
  IF state[h] # "MemoryWait" THEN [phase |-> "Quiet"]
  ELSE IF Responses(h) = {} THEN [phase |-> "Called", access |-> AccessOf(current[h])]
  ELSE [phase |-> "Done", access |-> AccessOf(current[h]),
        result |-> (CHOOSE r \in Responses(h) : TRUE).data]

Calls == [h \in Hart |-> CallOf(h)]

\* The places a response for hart h can be in.
LEMMA ResponseMember ==
  ASSUME NEW h \in Hart, NEW x
  PROVE  /\ x \in Responses(h) <=>
              \/ \E m \in transit : m.channel = Response /\ m.body = x /\ x.hart = h
              \/ \E i \in DOMAIN response : response[i] = x /\ x.hart = h
              \/ \E i \in DOMAIN inbox[h][Response] : inbox[h][Response][i].body = x
         /\ x \in Responses(h)' <=>
              \/ \E m \in transit' : m.channel = Response /\ m.body = x /\ x.hart = h
              \/ \E i \in DOMAIN response' : response'[i] = x /\ x.hart = h
              \/ \E i \in DOMAIN inbox'[h][Response] : inbox'[h][Response][i].body = x
BY DEF Responses, InTransit, Bodies

\* The places a request that has not been carried out can be in.
LEMMA AskedMember ==
  ASSUME NEW x
  PROVE  /\ x \in Asked <=>
              \/ \E m \in transit : m.channel = Request /\ m.body = x
              \/ \E i \in DOMAIN inbox[MemoryPort][Request] :
                   inbox[MemoryPort][Request][i].body = x
              \/ \E i \in DOMAIN queue : queue[i] = x
              \/ \E i \in DOMAIN active : active[i].request = x
         /\ x \in Asked' <=>
              \/ \E m \in transit' : m.channel = Request /\ m.body = x
              \/ \E i \in DOMAIN inbox'[MemoryPort][Request] :
                   inbox'[MemoryPort][Request][i].body = x
              \/ \E i \in DOMAIN queue' : queue'[i] = x
              \/ \E i \in DOMAIN active' : active'[i].request = x
BY DEF Asked, InTransit, Bodies

\* A response is for a hart that waits, and all there is for it.
LEMMA ResponseOnly ==
  ASSUME Sound, NEW h \in Hart, NEW x \in Responses(h)
  PROVE  Responses(h) = {x} /\ x.hart = h /\ state[h] = "MemoryWait"
<1>1. /\ WellAddressed /\ OnePlace /\ OneThere
      /\ response \in Seq(MemoryResponse) /\ Len(response) <= 1
      /\ inbox[h][Response] \in Seq(Bus!Letter) /\ Len(inbox[h][Response]) <= 1
  <2>1. /\ WellAddressed /\ OnePlace /\ OneThere
        /\ response \in Seq(MemoryResponse) /\ Len(active) + Len(response) <= 1
        /\ active \in Seq([request : MemoryRequest, left : 1 .. ServiceLatency])
        /\ inbox \in [Port -> [Channel -> Seq(Bus!Letter)]]
    BY DEF Sound, Placed, MemoryTypeOK, Bus!TypeOK
  <2>2. Len(active) \in Nat /\ Len(response) \in Nat
    BY <2>1, LenProperties
  <2>3. h \in Port /\ Response \in Channel
    BY DEF Port, Channel
  <2>4. Len(inbox[h][Response]) <= 1
    BY <2>1 DEF OneThere
  <2>5. QED
    BY <2>1, <2>2, <2>3, <2>4
<1>2. /\ \A i, j \in DOMAIN response : i = j
      /\ \A i, j \in DOMAIN inbox[h][Response] : i = j
  <2>1. ASSUME NEW T, NEW q \in Seq(T), Len(q) <= 1 PROVE \A i, j \in DOMAIN q : i = j
    <3>1. DOMAIN q = 1 .. Len(q) /\ Len(q) \in Nat
      BY LenProperties
    <3>2. QED
      BY <2>1, <3>1
  <2>2. QED
    BY <1>1, <2>1
<1>3. ASSUME NEW y \in Responses(h)
      PROVE  /\ y.hart = h
             /\ h \in Travelling \/ h \in Answered \/ h \in Returned
             /\ h \in Travelling <=> \E m \in transit : m.channel = Response /\ m.body = y
             /\ h \in Answered <=> \E i \in DOMAIN response : response[i] = y
             /\ h \in Returned <=>
                  \E i \in DOMAIN inbox[h][Response] : inbox[h][Response][i].body = y
  <2>1. CASE \E m \in transit : m.channel = Response /\ m.body = y /\ y.hart = h
    <3>1. h \in Travelling
      BY <2>1 DEF Travelling
    <3>2. h \notin Answered /\ h \notin Returned
      BY <1>1, <3>1 DEF OnePlace
    <3>3. (\A i \in DOMAIN response : response[i] # y) /\ DOMAIN inbox[h][Response] = {}
      BY <2>1, <3>2 DEF Answered, Returned
    <3>4. QED
      BY <2>1, <3>1, <3>2, <3>3
  <2>2. CASE \E i \in DOMAIN response : response[i] = y /\ y.hart = h
    <3>1. h \in Answered
      BY <2>2 DEF Answered
    <3>2. h \notin Travelling /\ h \notin Returned
      BY <1>1, <3>1 DEF OnePlace
    <3>3. (\A m \in transit : m.body # y) /\ DOMAIN inbox[h][Response] = {}
      BY <2>2, <3>2 DEF Travelling, Returned
    <3>4. QED
      BY <2>2, <3>1, <3>2, <3>3
  <2>3. CASE \E i \in DOMAIN inbox[h][Response] : inbox[h][Response][i].body = y
    <3>1. h \in Returned /\ y.hart = h
      BY <1>1, <2>3 DEF Returned, WellAddressed
    <3>2. h \notin Travelling /\ h \notin Answered
      BY <1>1, <3>1 DEF OnePlace
    <3>3. (\A m \in transit : m.body # y) /\ (\A i \in DOMAIN response : response[i] # y)
      BY <3>1, <3>2 DEF Travelling, Answered
    <3>4. QED
      BY <2>3, <3>1, <3>2, <3>3
  <2>4. QED
    BY <2>1, <2>2, <2>3, ResponseMember
<1>4. ASSUME NEW y \in Responses(h) PROVE y = x
  <2>1. CASE h \in Travelling
    <3>1. PICK m \in transit : m.body = x
      BY <1>3, <2>1
    <3>2. PICK k \in transit : k.body = y
      BY <1>3, <2>1
    <3>3. m.body.hart = k.body.hart
      BY <1>3, <3>1, <3>2
    <3>4. QED
      BY <1>1, <3>1, <3>2, <3>3 DEF OneThere
  <2>2. CASE h \in Answered
    BY <1>2, <1>3, <2>2
  <2>3. CASE h \in Returned
    BY <1>2, <1>3, <2>3
  <2>4. QED
    BY <1>3, <2>1, <2>2, <2>3
<1>5. state[h] = "MemoryWait"
  BY <1>1, <1>3 DEF OnePlace
<1>6. QED
  BY <1>3, <1>4, <1>5

\* A request is a hart's that waits, and there is no response for that hart yet.
LEMMA AskedWaits ==
  ASSUME Sound, NEW r \in Asked
  PROVE  Fits(r) /\ r.hart \in Hart /\ state[r.hart] = "MemoryWait" /\ Responses(r.hart) = {}
<1> DEFINE h == r.hart
<1>1. WellAddressed /\ OnePlace /\ OneThere /\ Request # Response
  BY DEF Sound, Placed, Request, Response
<1>2. /\ Fits(r)
      /\ \/ h \in Travelling /\ \E m \in transit : m.channel = Request /\ m.body = r
         \/ h \in Requesting \/ h \in Queueing \/ h \in InService
  <2>1. CASE \E m \in transit : m.channel = Request /\ m.body = r
    BY <1>1, <2>1 DEF Travelling, WellAddressed
  <2>2. CASE \E i \in DOMAIN inbox[MemoryPort][Request] : inbox[MemoryPort][Request][i].body = r
    BY <1>1, <2>2 DEF Requesting, WellAddressed
  <2>3. CASE \E i \in DOMAIN queue : queue[i] = r
    BY <1>1, <2>3 DEF Queueing, WellAddressed
  <2>4. CASE \E i \in DOMAIN active : active[i].request = r
    BY <1>1, <2>4 DEF InService, WellAddressed
  <2>5. QED
    BY <2>1, <2>2, <2>3, <2>4, AskedMember
<1>3. h \in Hart /\ state[h] = "MemoryWait"
  BY <1>1, <1>2 DEF OnePlace
<1>4. ASSUME NEW x \in Responses(h) PROVE FALSE
  <2>1. x.hart = h
    BY <1>3, ResponseOnly
  <2>2. CASE \E m \in transit : m.channel = Response /\ m.body = x
    <3>1. h \in Travelling
      BY <2>1, <2>2 DEF Travelling
    <3>2. \E m \in transit : m.channel = Request /\ m.body = r
      BY <1>1, <1>2, <3>1 DEF OnePlace
    <3>3. QED
      BY <1>1, <2>1, <2>2, <3>2 DEF OneThere
  <2>3. CASE \E i \in DOMAIN response : response[i] = x
    <3>1. h \in Answered
      BY <2>1, <2>3 DEF Answered
    <3>2. QED
      BY <1>1, <1>2, <3>1 DEF OnePlace
  <2>4. CASE \E i \in DOMAIN inbox[h][Response] : inbox[h][Response][i].body = x
    <3>1. h \in Returned
      BY <1>3, <2>4 DEF Returned
    <3>2. QED
      BY <1>1, <1>2, <3>1 DEF OnePlace
  <2>5. QED
    BY <1>3, <2>2, <2>3, <2>4, ResponseMember
<1>5. QED
  BY <1>2, <1>3, <1>4

-------------------------------------------------------------------------------
(***************************************************************************)
(* The initial states, and the turns of the harts.                         *)
(***************************************************************************)
LEMMA MemoryInitially == Init => Memory!Init /\ RequestsCurrent
<1> SUFFICES ASSUME Init PROVE Memory!Init /\ RequestsCurrent
  OBVIOUS
<1>1. /\ state = [h \in Hart |-> "Ready"] /\ lastRead = [h \in Hart |-> <<>>]
      /\ bytes = [a \in Address |-> 0]
      /\ queue = <<>> /\ active = <<>>
      /\ transit = {} /\ inbox = [p \in Port |-> [c \in Channel |-> <<>>]]
  BY DEF Init, CoreInit, MemoryInit, Bus!Init
<1>2. Memory!Init
  BY <1>1 DEF Memory!Init, Memory!Quiet
<1>3. DOMAIN inbox[MemoryPort][Request] = {} /\ DOMAIN queue = {} /\ DOMAIN active = {}
  BY <1>1 DEF Port, Channel
<1>4. \A r \in Asked : FALSE
  BY <1>1, <1>3, AskedMember
<1>5. QED
  BY <1>1, <1>2, <1>4 DEF RequestsCurrent

\* A step that changes the operation of no hart that waits, and asks for nothing new.
LEMMA CurrentKept ==
  ASSUME Sound, RequestsCurrent, Asked' \subseteq Asked,
         \A g \in Hart : state'[g] = "MemoryWait" =>
           state[g] = "MemoryWait" /\ current'[g] = current[g],
         \A r \in Asked' : state'[r.hart] = "MemoryWait"
  PROVE  RequestsCurrent'
<1>1. \A r \in Asked' : current'[r.hart] = current[r.hart] /\ r \in Asked
  BY AskedWaits
<1>2. QED
  BY <1>1 DEF RequestsCurrent, AccessOf

\* A step in which every hart's call stays what it is.
LEMMA CallsKept ==
  ASSUME \A g \in Hart :
           \/ state[g] # "MemoryWait" /\ state'[g] # "MemoryWait"
           \/ /\ state'[g] = state[g] /\ current'[g] = current[g]
              /\ Responses(g)' = Responses(g)
  PROVE  Calls' = Calls
<1>1. ASSUME NEW g \in Hart PROVE CallOf(g)' = CallOf(g)
  BY DEF CallOf, AccessOf
<1>2. QED
  BY <1>1 DEF Calls

\* A hart that computes, halts, is refused or has nothing to do: no call is concerned.
LEMMA QuietRefines ==
  ASSUME Sound, RequestsCurrent, NEW h \in Hart, UNCHANGED memoryVars,
         CoreHalt(h) \/ CoreExecute(h) \/ CoreCompute(h) \/ CoreBlocked(h) \/ CoreWait(h)
  PROVE  RequestsCurrent' /\ UNCHANGED Memory!vars
<1>1. /\ transit' = transit /\ inbox' = inbox /\ queue' = queue /\ active' = active
      /\ response' = response /\ bytes' = bytes /\ lastRead' = lastRead
  BY DEF CoreHalt, CoreExecute, CoreCompute, CoreBlocked, CoreWait, memoryVars, busVars, coreVars
<1>2. \A g \in Hart : Responses(g)' = Responses(g)
  BY <1>1 DEF Responses, InTransit, Bodies
<1>3. Asked' = Asked
  BY <1>1 DEF Asked, InTransit, Bodies
<1>4. /\ \A g \in Hart : g # h => state'[g] = state[g] /\ current'[g] = current[g]
      /\ \/ state[h] # "MemoryWait" /\ state'[h] # "MemoryWait"
         \/ state'[h] = state[h] /\ current'[h] = current[h]
  <2>1. state \in [Hart -> {"Ready", "Executing", "MemoryIssue", "MemoryWait", "Halted"}]
        /\ current \in [Hart -> Op \cup {NoOp}]
    BY DEF Sound, CoreTypeOK
  <2>2. CASE CoreWait(h)
    BY <2>2 DEF CoreWait, coreVars
  <2>3. CASE CoreHalt(h)
    BY <2>1, <2>3 DEF CoreHalt, AtEnd
  <2>4. CASE CoreExecute(h) \/ CoreCompute(h) \/ CoreBlocked(h)
    <3>1. state[h] # "MemoryWait"
      BY <2>4 DEF CoreExecute, CoreCompute, CoreBlocked, Issuing, Running, Begins
    <3>2. \E o, s, n : Goes(h, o, s, n) /\ s # "MemoryWait"
      <4>1. CASE CoreExecute(h)
        BY <4>1 DEF CoreExecute
      <4>2. CASE CoreCompute(h)
        BY <4>2 DEF CoreCompute
      <4>3. CASE CoreBlocked(h)
        BY <4>3 DEF CoreBlocked
      <4>4. QED
        BY <2>4, <4>1, <4>2, <4>3
    <3>3. QED
      BY <2>1, <3>1, <3>2 DEF Goes
  <2>5. QED
    BY <2>2, <2>3, <2>4
<1>5. RequestsCurrent'
  <2>1. \A r \in Asked' : state'[r.hart] = "MemoryWait"
    BY <1>3, <1>4, AskedWaits
  <2>2. QED
    BY <1>3, <1>4, <2>1, CurrentKept
<1>6. Calls' = Calls
  BY <1>2, <1>4, CallsKept
<1>7. QED
  BY <1>1, <1>5, <1>6 DEF Memory!vars, Calls, CallOf

\* A request that the bus accepts is a call.
LEMMA IssueRefines ==
  ASSUME Sound, RequestsCurrent, NEW h \in Hart, UNCHANGED memoryVars, CoreIssue(h)
  PROVE  RequestsCurrent' /\ Memory!Call(h)
<1> DEFINE o == Working(h)
           r == RequestOf(h, o)
           m == [id |-> accepted', src |-> h, dst |-> MemoryPort, channel |-> Request, body |-> r]
<1>1. /\ Issuing(h) /\ Goes(h, o, "MemoryWait", 0) /\ lastRead' = lastRead
      /\ accepted' = accepted + 1 /\ inbox' = inbox
      /\ transit' = transit \cup {m} /\ m.channel = Request /\ m.body = r
      /\ queue' = queue /\ active' = active /\ response' = response /\ bytes' = bytes
  BY DEF CoreIssue, Bus!Send, memoryVars
<1>2. o \in Op /\ o.kind \in {"Read", "Write"}
  BY <1>1, WorkingOperation DEF Sound
<1>3. /\ state[h] # "MemoryWait"
      /\ state'[h] = "MemoryWait" /\ current'[h] = o
      /\ \A g \in Hart : g # h => state'[g] = state[g] /\ current'[g] = current[g]
  BY <1>1 DEF Sound, CoreTypeOK, Goes, Issuing, Running, Begins
<1>4. r.hart = h /\ AccessOf(o) = AccessOfRequest(r)
  BY DEF AccessOf, AccessOfRequest, RequestOf
<1> HIDE DEF o, r, m
<1>5. ASSUME NEW x PROVE x \in Asked' <=> x \in Asked \/ x = r
  BY <1>1, AskedMember
<1>6. ASSUME NEW g \in Hart, NEW x PROVE x \in Responses(g)' <=> x \in Responses(g)
  BY <1>1, ResponseMember DEF Request, Response
<1>7. RequestsCurrent'
  <2>1. \A x \in Asked : current'[x.hart] = current[x.hart]
    BY <1>3, AskedWaits
  <2>2. QED
    BY <1>2, <1>3, <1>4, <1>5, <2>1 DEF RequestsCurrent, AccessOf, AccessOfRequest
<1>8. Calls[h] = [phase |-> "Quiet"]
  BY <1>3 DEF Calls, CallOf
<1>9. Calls' = [Calls EXCEPT ![h] = [phase |-> "Called", access |-> AccessOf(o)]]
  <2>1. ASSUME NEW g \in Hart, g # h PROVE CallOf(g)' = CallOf(g)
    <3>1. Responses(g)' = Responses(g)
      BY <1>6
    <3>2. QED
      BY <1>3, <2>1, <3>1 DEF CallOf, AccessOf
  <2>2. Responses(h)' = {}
    BY <1>3, <1>6, ResponseOnly
  <2>3. CallOf(h)' = [phase |-> "Called", access |-> AccessOf(o)]
    BY <1>3, <2>2 DEF CallOf, AccessOf
  <2>4. QED
    BY <2>1, <2>3 DEF Calls
<1>10. AccessOf(o) \in {AccessOf(x) : x \in {y \in Op : y.kind \in {"Read", "Write"}}}
  BY <1>2
<1>11. QED
  BY <1>1, <1>7, <1>8, <1>9, <1>10
    DEF Memory!Call, Memory!Quiet, Memory!Called, Calls, CallOf

\* The response that a hart receives is the result of its access, which returns.
LEMMA ReceiveRefines ==
  ASSUME Sound, RequestsCurrent, NEW h \in Hart, UNCHANGED memoryVars, CoreReceive(h)
  PROVE  RequestsCurrent' /\ Memory!Return(h)
<1> DEFINE q == inbox[h][Response]
           x == Head(q).body
<1>1. /\ state[h] = "MemoryWait" /\ q # <<>>
      /\ lastRead' = IF current[h].kind = "Read" THEN [lastRead EXCEPT ![h] = x.data] ELSE lastRead
      /\ Goes(h, NoOp, "Ready", 0)
      /\ inbox' = [inbox EXCEPT ![h][Response] = Tail(@)] /\ transit' = transit
      /\ queue' = queue /\ active' = active /\ response' = response /\ bytes' = bytes
  BY DEF CoreReceive, Bus!Recv, CanRecv, Received, memoryVars
<1>2. /\ inbox \in [Port -> [Channel -> Seq(Bus!Letter)]]
      /\ h \in Port /\ MemoryPort \in Port /\ MemoryPort # h
      /\ Request \in Channel /\ Response \in Channel /\ Request # Response
  BY SystemAssumption DEF Sound, Bus!TypeOK, Port, Hart, MemoryPort, Channel, Request, Response
<1>3. /\ state'[h] = "Ready"
      /\ \A g \in Hart : g # h => state'[g] = state[g] /\ current'[g] = current[g]
  BY <1>1 DEF Sound, CoreTypeOK, Goes
<1>4. Responses(h) = {x}
  <2>1. q \in Seq(Bus!Letter)
    BY <1>2
  <2> HIDE DEF q
  <2>2. 1 \in DOMAIN q /\ Head(q) = q[1]
    BY <1>1, <2>1, TailElements
  <2>3. x \in Responses(h)
    BY <2>2, ResponseMember DEF q
  <2>4. QED
    BY <2>3, ResponseOnly
<1>5. /\ inbox'[MemoryPort][Request] = inbox[MemoryPort][Request]
      /\ \A g \in Hart : g # h => inbox'[g][Response] = inbox[g][Response]
  BY <1>1, <1>2 DEF Port
<1> HIDE DEF q, x
<1>6. ASSUME NEW y PROVE y \in Asked' <=> y \in Asked
  BY <1>1, <1>5, AskedMember
<1>7. \A r \in Asked : r.hart # h
  BY <1>4, AskedWaits
<1>8. RequestsCurrent'
  <2>1. \A r \in Asked' : state'[r.hart] = "MemoryWait"
    BY <1>3, <1>6, <1>7, AskedWaits
  <2>2. Asked' \subseteq Asked
    BY <1>6
  <2>3. QED
    BY <1>3, <2>1, <2>2, CurrentKept
<1>9. Calls[h] = [phase |-> "Done", access |-> AccessOf(current[h]), result |-> x.data]
  BY <1>1, <1>4 DEF Calls, CallOf
<1>10. Calls' = [Calls EXCEPT ![h] = [phase |-> "Quiet"]]
  <2>1. ASSUME NEW g \in Hart, g # h PROVE CallOf(g)' = CallOf(g)
    <3>1. ASSUME NEW y PROVE y \in Responses(g)' <=> y \in Responses(g)
      BY <1>1, <1>5, <2>1, ResponseMember
    <3>2. QED
      BY <1>3, <2>1, <3>1 DEF CallOf, AccessOf
  <2>2. CallOf(h)' = [phase |-> "Quiet"]
    BY <1>3 DEF CallOf
  <2>3. QED
    BY <2>1, <2>2 DEF Calls
<1>11. /\ Calls[h].phase = "Done" /\ Calls[h].result = x.data
       /\ Calls[h].access.op = current[h].kind
  BY <1>9 DEF AccessOf
<1>12. QED
  BY <1>1, <1>8, <1>10, <1>11 DEF Memory!Return, Memory!Quiet, Calls, CallOf

-------------------------------------------------------------------------------
(***************************************************************************)
(* The turns of the bus and of the memory.                                 *)
(***************************************************************************)

\* A message that arrives is a request or a response as before.
LEMMA BusRefines ==
  ASSUME Sound, RequestsCurrent, BusTick, UNCHANGED <<coreVars, memoryVars>>
  PROVE  RequestsCurrent' /\ UNCHANGED Memory!vars
<1>1. /\ state' = state /\ current' = current /\ lastRead' = lastRead
      /\ queue' = queue /\ active' = active /\ response' = response /\ bytes' = bytes
  BY DEF coreVars, memoryVars
<1>2. Asked' \subseteq Asked /\ \A g \in Hart : Responses(g)' = Responses(g)
  <2>1. CASE Bus!Deliver
    <3>1. PICK S \in SUBSET transit : Bus!Arrive(S)
      BY <2>1 DEF Bus!Deliver
    <3>2. transit' = transit \ S
      BY <3>1 DEF Bus!Arrive
    <3>3. /\ Bus!TypeOK /\ WellAddressed
          /\ MemoryPort \in Port /\ Hart \subseteq Port /\ MemoryPort \notin Hart
          /\ Request \in Channel /\ Response \in Channel /\ Request # Response
      BY SystemAssumption
        DEF Sound, Placed, Port, Hart, MemoryPort, Channel, Request, Response
    <3>4. ASSUME NEW d \in Port, NEW c \in Channel
          PROVE  /\ \A i \in DOMAIN inbox'[d][c] :
                      \/ \E m \in S : m.dst = d /\ m.channel = c /\ inbox'[d][c][i] = m
                      \/ i \in DOMAIN inbox[d][c] /\ inbox'[d][c][i] = inbox[d][c][i]
                 /\ \A i \in DOMAIN inbox[d][c] :
                      i \in DOMAIN inbox'[d][c] /\ inbox'[d][c][i] = inbox[d][c][i]
                 /\ \A m \in S : m.dst = d /\ m.channel = c =>
                      \E i \in DOMAIN inbox'[d][c] : inbox'[d][c][i] = m
      BY <3>1, <3>3, ArrivalFacts
    <3>5. ASSUME NEW x \in Asked' PROVE x \in Asked
      <4>1. CASE \E m \in transit' : m.channel = Request /\ m.body = x
        BY <3>2, <4>1, AskedMember
      <4>2. CASE \E i \in DOMAIN inbox'[MemoryPort][Request] :
                   inbox'[MemoryPort][Request][i].body = x
        BY <3>3, <3>4, <4>2, AskedMember
      <4>3. CASE (\E i \in DOMAIN queue' : queue'[i] = x) \/ \E i \in DOMAIN active' : active'[i].request = x
        BY <1>1, <4>3, AskedMember
      <4>4. QED
        BY <4>1, <4>2, <4>3, AskedMember
    <3>6. ASSUME NEW g \in Hart, NEW x \in Responses(g)' PROVE x \in Responses(g)
      <4>1. CASE \E m \in transit' : m.channel = Response /\ m.body = x /\ x.hart = g
        BY <3>2, <4>1, ResponseMember
      <4>2. CASE \E i \in DOMAIN response' : response'[i] = x /\ x.hart = g
        BY <1>1, <4>2, ResponseMember
      <4>3. CASE \E i \in DOMAIN inbox'[g][Response] : inbox'[g][Response][i].body = x
        <5>1. \A m \in S : m.dst = g /\ m.channel = Response => m.body.hart = g
          BY <3>3 DEF WellAddressed
        <5>2. QED
          BY <3>3, <3>4, <4>3, <5>1, ResponseMember
      <4>4. QED
        BY <4>1, <4>2, <4>3, ResponseMember
    <3>7. ASSUME NEW g \in Hart, NEW x \in Responses(g) PROVE x \in Responses(g)'
      <4>1. CASE \E m \in transit : m.channel = Response /\ m.body = x /\ x.hart = g
        <5>1. PICK m \in transit : m.channel = Response /\ m.body = x /\ x.hart = g
          BY <4>1
        <5>2. m.dst = g
          BY <3>3, <5>1 DEF WellAddressed
        <5>3. m \in transit' \/ \E i \in DOMAIN inbox'[g][Response] : inbox'[g][Response][i] = m
          BY <3>2, <3>3, <3>4, <5>1, <5>2
        <5>4. QED
          BY <5>1, <5>3, ResponseMember
      <4>2. CASE \E i \in DOMAIN response : response[i] = x /\ x.hart = g
        BY <1>1, <4>2, ResponseMember
      <4>3. CASE \E i \in DOMAIN inbox[g][Response] : inbox[g][Response][i].body = x
        BY <3>3, <3>4, <4>3, ResponseMember
      <4>4. QED
        BY <4>1, <4>2, <4>3, ResponseMember
    <3>8. QED
      BY <3>5, <3>6, <3>7
  <2>2. CASE UNCHANGED busVars
    BY <1>1, <2>2 DEF busVars, Asked, Responses, InTransit, Bodies
  <2>3. QED
    BY <2>1, <2>2 DEF BusTick
<1>3. RequestsCurrent'
  BY <1>1, <1>2, AskedWaits, CurrentKept
<1>4. Calls' = Calls
  BY <1>1, <1>2, CallsKept
<1>5. QED
  BY <1>1, <1>3, <1>4 DEF Memory!vars, Calls, CallOf

\* What the queue would hold has been asked for, and the inbox gives only requests away.
LEMMA TakenAsked ==
  ASSUME Sound, NEW sent \in BOOLEAN, Exchange(sent)
  PROVE  /\ Taken \in Seq(MemoryRequest)
         /\ \A i \in DOMAIN Taken : Taken[i] \in Asked
         /\ \A i \in DOMAIN inbox'[MemoryPort][Request] :
              \E j \in DOMAIN inbox[MemoryPort][Request] :
                inbox'[MemoryPort][Request][i] = inbox[MemoryPort][Request][j]
         /\ \A g \in Hart : inbox'[g][Response] = inbox[g][Response]
<1> DEFINE old == inbox[MemoryPort][Request]
           new == inbox'[MemoryPort][Request]
<1>1. /\ queue \in Seq(MemoryRequest)
      /\ inbox \in [Port -> [Channel -> Seq(Bus!Letter)]]
      /\ MemoryPort \in Port /\ Request \in Channel
  BY DEF Sound, MemoryTypeOK, Bus!TypeOK, Port, Channel
<1>2. /\ Taken \in Seq(MemoryRequest)
      /\ \A g \in Hart : inbox'[g][Response] = inbox[g][Response]
  BY TakeFacts
<1>3. old \in Seq(Bus!Letter)
  BY <1>1
<1>4. CASE MayTake
  <2>1. /\ old # <<>> /\ Taken = Append(queue, Head(old).body)
        /\ inbox' = [inbox EXCEPT ![MemoryPort][Request] = Tail(@)]
    BY <1>4 DEF MayTake, Taken, CanRecv, Received, Exchange
  <2>2. new = Tail(old)
    BY <1>1, <2>1
  <2> HIDE DEF old, new
  <2>3. /\ 1 \in DOMAIN old /\ Head(old) = old[1]
        /\ \A i \in DOMAIN new : i + 1 \in DOMAIN old /\ new[i] = old[i + 1]
    BY <1>3, <2>1, <2>2, TailElements
  <2>4. Head(old).body \in Asked
    BY <2>3, AskedMember DEF old
  <2>5. /\ Head(old).body \in MemoryRequest
    BY <2>4, AskedWaits DEF Fits
  <2>6. /\ DOMAIN Taken = DOMAIN queue \cup {Len(queue) + 1}
        /\ Taken[Len(queue) + 1] = Head(old).body
        /\ \A i \in DOMAIN queue : Taken[i] = queue[i]
    BY <1>1, <2>1, <2>5, AppendElements
  <2>7. \A i \in DOMAIN Taken : Taken[i] \in Asked
    BY <2>4, <2>6, AskedMember
  <2>8. QED
    BY <1>2, <2>3, <2>7 DEF old, new
<1>5. CASE ~MayTake
  BY <1>2, <1>5, AskedMember DEF Taken, Exchange
<1>6. QED
  BY <1>4, <1>5

\* The service ends: its response is the first to exist.
Finishing(sent) == active # <<>> /\ Unsent(sent) = <<>> /\ active[1].left = 1

\* A turn of the memory asks for nothing new.
LEMMA MemoryAsks ==
  ASSUME Sound, NEW sent \in BOOLEAN, Exchange(sent), Serve(sent)
  PROVE  Asked' \subseteq Asked
<1>1. /\ \A i \in DOMAIN Taken : Taken[i] \in Asked
      /\ Taken \in Seq(MemoryRequest)
      /\ \A i \in DOMAIN inbox'[MemoryPort][Request] :
           \E j \in DOMAIN inbox[MemoryPort][Request] :
             inbox'[MemoryPort][Request][i] = inbox[MemoryPort][Request][j]
  BY TakenAsked
<1>2. active \in Seq([request : MemoryRequest, left : 1 .. ServiceLatency])
  BY DEF Sound, MemoryTypeOK
<1>3. \A m \in transit' : m.channel = Request => m \in transit
  BY DEF Exchange, Request, Response
<1>4. ASSUME Taken # <<>>
      PROVE  /\ Head(Taken) \in Asked
             /\ \A i \in DOMAIN Tail(Taken) : Tail(Taken)[i] \in Asked
  <2>1. /\ 1 \in DOMAIN Taken /\ Head(Taken) = Taken[1]
        /\ \A i \in DOMAIN Tail(Taken) : i + 1 \in DOMAIN Taken /\ Tail(Taken)[i] = Taken[i + 1]
    BY <1>1, <1>4, TailElements
  <2>2. QED
    BY <1>1, <2>1
<1>5. \A i \in DOMAIN queue' : queue'[i] \in Asked
  <2>1. queue' = Taken \/ (Taken # <<>> /\ queue' = Tail(Taken))
    BY DEF Serve
  <2>2. QED
    BY <1>1, <1>4, <2>1
<1>6. \A i \in DOMAIN active' : active'[i].request \in Asked
  <2>1. CASE active' = <<>>
    BY <2>1
  <2>2. CASE active' = active
    BY <2>2, AskedMember
  <2>3. CASE active # <<>> /\ active' = <<[active[1] EXCEPT !.left = @ - 1]>>
    <3>1. 1 \in DOMAIN active
      BY <1>2, <2>3
    <3>2. active[1] \in [request : MemoryRequest, left : 1 .. ServiceLatency]
      <4> DEFINE T == [request : MemoryRequest, left : 1 .. ServiceLatency]
      <4>1. active \in Seq(T) /\ active # <<>>
        BY <1>2, <2>3
      <4> HIDE DEF T
      <4>2. active[1] \in T
        BY <4>1, TailElements
      <4>3. QED
        BY <4>2 DEF T
    <3>3. DOMAIN active' = {1} /\ active'[1].request = active[1].request
      BY <2>3, <3>2
    <3>4. QED
      BY <3>1, <3>3, AskedMember
  <2>4. CASE Taken # <<>> /\ active' = <<[request |-> Head(Taken), left |-> ServiceLatency]>>
    <3>1. DOMAIN active' = {1} /\ active'[1].request = Head(Taken)
      BY <2>4
    <3>2. QED
      BY <1>4, <2>4, <3>1
  <2>5. QED
    BY <2>1, <2>2, <2>3, <2>4 DEF Serve
<1>7. ASSUME NEW x \in Asked' PROVE x \in Asked
  <2>1. CASE \E m \in transit' : m.channel = Request /\ m.body = x
    BY <1>3, <2>1, AskedMember
  <2>2. CASE \E i \in DOMAIN inbox'[MemoryPort][Request] :
               inbox'[MemoryPort][Request][i].body = x
    BY <1>1, <2>2, AskedMember
  <2>3. CASE (\E i \in DOMAIN queue' : queue'[i] = x) \/ \E i \in DOMAIN active' : active'[i].request = x
    BY <1>5, <1>6, <2>3
  <2>4. QED
    BY <2>1, <2>2, <2>3, AskedMember
<1>8. QED
  BY <1>7

\* A write puts the bytes where AtomicMemory puts them, and a read finds what it finds.
LEMMA SameEffect ==
  ASSUME NEW r, Fits(r), r.op = "Write" => r.data \in [1 .. r.size -> Byte]
  PROVE  /\ Effect(bytes, r) = Memory!Effect(bytes, AccessOfRequest(r))
         /\ Result(bytes, r) = Memory!Result(bytes, AccessOfRequest(r))
<1> DEFINE a == AccessOfRequest(r)
<1>1. a.op = r.op /\ a.address = r.address /\ a.size = r.size /\ a.data = r.data
  BY DEF AccessOfRequest
<1> HIDE DEF a
<1>2. r.address \in Nat /\ r.size \in Nat /\ Address \subseteq Nat
  <2>1. Address \subseteq Nat /\ Cardinality(Address) \in Nat
    BY SystemAssumption, FS_CardinalityType
  <2>2. r.address \in Address /\ r.size \in 1 .. Cardinality(Address)
    BY DEF Fits, MemoryRequest
  <2>3. ASSUME NEW n \in Nat, NEW k \in 1 .. n PROVE k \in Nat
    OBVIOUS
  <2>4. r.size \in Nat
    BY <2>1, <2>2, <2>3
  <2>5. r.address \in Nat
    BY <2>1, <2>2
  <2>6. QED
    BY <2>1, <2>4, <2>5
<1>3. Result(bytes, r) = Memory!Result(bytes, a)
  BY <1>1 DEF Result, Memory!Result, Read
<1>4. CASE r.op = "Write"
  <2>1. DOMAIN r.data = 1 .. r.size
    BY <1>4
  <2>2. \A x \in Address :
          x - r.address + 1 \in 1 .. r.size <=> x \in r.address .. r.address + r.size - 1
    BY <1>2
  <2>3. Effect(bytes, r) = [x \in Address |->
          IF x - r.address + 1 \in 1 .. r.size THEN r.data[x - r.address + 1] ELSE bytes[x]]
    BY <1>4, <2>1 DEF Effect, Write
  <2>4. Memory!Effect(bytes, a) = [x \in Address |->
          IF x \in r.address .. r.address + r.size - 1
            THEN r.data[x - r.address + 1] ELSE bytes[x]]
    BY <1>1, <1>4 DEF Memory!Effect, Memory!Span
  <2>5. QED
    BY <1>3, <2>2, <2>3, <2>4 DEF a
<1>5. CASE r.op # "Write"
  BY <1>1, <1>3, <1>5 DEF Effect, Memory!Effect, a
<1>6. QED
  BY <1>4, <1>5

\* Sending the response is invisible: it goes on existing, in the bus.
LEMMA MemoryQuiet ==
  ASSUME Sound, RequestsCurrent, UNCHANGED coreVars,
         NEW sent \in BOOLEAN, sent => response # <<>>, Exchange(sent), Serve(sent),
         ~Finishing(sent)
  PROVE  UNCHANGED Memory!vars
<1>1. /\ state' = state /\ current' = current /\ lastRead' = lastRead
  BY DEF coreVars
<1>2. response' = Unsent(sent) /\ bytes' = bytes
  BY DEF Serve, Finishing
<1>3. \A g \in Hart : inbox'[g][Response] = inbox[g][Response]
  BY TakenAsked
<1>4. \/ response' = response /\ transit' = transit
      \/ \E m : /\ DOMAIN response = {1} /\ response' = <<>>
               /\ transit' = transit \cup {m} /\ m.channel = Response /\ m.body = response[1]
  <2>1. CASE ~sent
    BY <1>2, <2>1 DEF Unsent, Exchange
  <2>2. CASE sent
    <3>1. response \in Seq(MemoryResponse) /\ Len(response) <= 1 /\ response # <<>>
      <4>1. /\ response \in Seq(MemoryResponse) /\ Len(active) + Len(response) <= 1
            /\ active \in Seq([request : MemoryRequest, left : 1 .. ServiceLatency])
        BY DEF Sound, MemoryTypeOK
      <4>2. Len(active) \in Nat /\ Len(response) \in Nat
        BY <4>1, LenProperties
      <4>3. QED
        BY <2>2, <4>1, <4>2
    <3>2. DOMAIN response = {1}
      <4>1. DOMAIN response = 1 .. Len(response) /\ Len(response) \in Nat
        BY <3>1, LenProperties
      <4>2. 1 \in DOMAIN response
        BY <3>1, TailElements
      <4>3. QED
        BY <3>1, <4>1, <4>2
    <3> DEFINE m == [id |-> accepted', src |-> MemoryPort, dst |-> response[1].hart,
                     channel |-> Response, body |-> response[1]]
    <3>3. response' = <<>>
      BY <1>2, <2>2 DEF Unsent
    <3>4. transit' = transit \cup {m}
      BY <2>2 DEF Exchange
    <3>5. m.channel = Response /\ m.body = response[1]
      OBVIOUS
    <3> HIDE DEF m
    <3>6. QED
      BY <3>2, <3>3, <3>4, <3>5
  <2>3. QED
    BY <2>1, <2>2
<1>5. ASSUME NEW g \in Hart, NEW x PROVE x \in Responses(g)' <=> x \in Responses(g)
  <2>1. CASE response' = response /\ transit' = transit
    BY <1>3, <2>1, ResponseMember
  <2>2. CASE ~(response' = response /\ transit' = transit)
    <3>1. PICK m : /\ DOMAIN response = {1} /\ response' = <<>>
                   /\ transit' = transit \cup {m} /\ m.channel = Response /\ m.body = response[1]
      BY <1>4, <2>2
    <3>2. (\E k \in transit' : k.channel = Response /\ k.body = x /\ x.hart = g)
          <=> \/ \E k \in transit : k.channel = Response /\ k.body = x /\ x.hart = g
              \/ \E i \in DOMAIN response : response[i] = x /\ x.hart = g
      BY <3>1
    <3>3. DOMAIN response' = {}
      BY <3>1
    <3>4. QED
      BY <1>3, <3>2, <3>3, ResponseMember
  <2>3. QED
    BY <2>1, <2>2
<1>6. Calls' = Calls
  <2>1. \A g \in Hart : Responses(g)' = Responses(g)
    BY <1>5
  <2>2. QED
    BY <1>1, <2>1, CallsKept
<1>7. QED
  BY <1>1, <1>2, <1>6 DEF Memory!vars, Calls, CallOf

\* The cycle that ends a service performs the access of the hart that is served.
LEMMA MemoryPerforms ==
  ASSUME Sound, RequestsCurrent, UNCHANGED coreVars,
         NEW sent \in BOOLEAN, sent => response # <<>>, Exchange(sent), Serve(sent),
         Finishing(sent)
  PROVE  \E h \in Hart : Memory!Perform(h)
<1> DEFINE r == active[1].request
           x == ResponseTo(r)
<1>1. /\ state' = state /\ current' = current /\ lastRead' = lastRead
  BY DEF coreVars
<1>2. response = <<>> /\ 1 \in DOMAIN active
  <2>1. /\ response \in Seq(MemoryResponse) /\ Len(active) + Len(response) <= 1
        /\ active \in Seq([request : MemoryRequest, left : 1 .. ServiceLatency])
        /\ active # <<>>
    BY DEF Sound, MemoryTypeOK, Finishing
  <2>2. Len(active) \in Nat /\ Len(response) \in Nat
    BY <2>1, LenProperties
  <2> DEFINE T == [request : MemoryRequest, left : 1 .. ServiceLatency]
  <2>3. active \in Seq(T)
    BY <2>1
  <2> HIDE DEF T
  <2>4. 1 \in DOMAIN active /\ DOMAIN active = 1 .. Len(active)
    BY <2>1, <2>3, TailElements, LenProperties
  <2>5. Len(response) = 0
    BY <2>1, <2>2, <2>4
  <2>6. QED
    BY <2>1, <2>4, <2>5, EmptySeq
<1>3. transit' = transit /\ \A g \in Hart : inbox'[g][Response] = inbox[g][Response]
  BY <1>2, TakenAsked DEF Exchange
<1>4. response' = <<x>> /\ bytes' = Effect(bytes, r)
  BY DEF Serve, Finishing
<1>5. r \in Asked
  BY <1>2, AskedMember
<1>6. PICK h \in Hart :
        r.hart = h /\ Fits(r) /\ state[h] = "MemoryWait" /\ Responses(h) = {}
  BY <1>5, AskedWaits
<1>7. /\ current[h] \in Op /\ current[h].kind \in {"Read", "Write"}
      /\ AccessOf(current[h]) = AccessOfRequest(r)
  BY <1>5, <1>6 DEF RequestsCurrent, AccessOfRequest
<1>8. r.op = "Write" => r.data \in [1 .. r.size -> Byte]
  <2>1. current[h].data \in [1 .. (IF current[h].kind = "Write" THEN current[h].size ELSE 0) -> Byte]
    BY <1>7, OpAssumption
  <2>2. r.op = current[h].kind /\ r.size = current[h].size /\ r.data = current[h].data
    BY <1>7 DEF AccessOf, AccessOfRequest
  <2>3. QED
    BY <2>1, <2>2
<1>9. /\ Effect(bytes, r) = Memory!Effect(bytes, AccessOf(current[h]))
      /\ Result(bytes, r) = Memory!Result(bytes, AccessOf(current[h]))
  BY <1>6, <1>7, <1>8, SameEffect
<1>10. x.hart = h /\ x.data = Result(bytes, r)
  BY <1>6 DEF ResponseTo
<1> HIDE DEF r, x
<1>11. DOMAIN response = {} /\ DOMAIN response' = {1} /\ response'[1] = x
  BY <1>2, <1>4
<1>12. ASSUME NEW g \in Hart, NEW y
       PROVE  y \in Responses(g)' <=> y \in Responses(g) \/ (y = x /\ g = h)
  BY <1>3, <1>10, <1>11, ResponseMember
<1>13. Responses(h)' = {x} /\ \A g \in Hart : g # h => Responses(g)' = Responses(g)
  BY <1>6, <1>12
<1>14. Calls[h] = [phase |-> "Called", access |-> AccessOf(current[h])]
  BY <1>6 DEF Calls, CallOf
<1>15. Calls' = [Calls EXCEPT ![h] =
         [phase |-> "Done", access |-> AccessOf(current[h]),
          result |-> Memory!Result(bytes, AccessOf(current[h]))]]
  <2>1. ASSUME NEW g \in Hart, g # h PROVE CallOf(g)' = CallOf(g)
    BY <1>1, <1>13, <2>1 DEF CallOf, AccessOf
  <2>2. CallOf(h)' = [phase |-> "Done", access |-> AccessOf(current[h]),
                      result |-> Memory!Result(bytes, AccessOf(current[h]))]
    BY <1>1, <1>6, <1>9, <1>10, <1>13 DEF CallOf, AccessOf
  <2>3. QED
    BY <2>1, <2>2 DEF Calls
<1>16. /\ Calls[h].phase = "Called" /\ Calls[h].access = AccessOf(current[h])
  BY <1>14
<1>17. Memory!Perform(h)
  BY <1>1, <1>4, <1>9, <1>15, <1>16 DEF Memory!Perform, Memory!Done, Calls, CallOf
<1>18. QED
  BY <1>6, <1>17

\* So a turn of the memory is a step of AtomicMemory or nothing.
LEMMA MemoryRefines ==
  ASSUME Sound, RequestsCurrent, MemoryTick, UNCHANGED coreVars
  PROVE  /\ RequestsCurrent'
         /\ UNCHANGED Memory!vars \/ \E h \in Hart : Memory!Perform(h)
<1>1. PICK sent \in BOOLEAN : (sent => response # <<>>) /\ Serve(sent) /\ Exchange(sent)
  BY DEF MemoryTick
<1>2. Asked' \subseteq Asked
  BY <1>1, MemoryAsks
<1>3. RequestsCurrent'
  <2>1. state' = state /\ current' = current
    BY DEF coreVars
  <2>2. \A r \in Asked' : state'[r.hart] = "MemoryWait"
    BY <1>2, <2>1, AskedWaits
  <2>3. QED
    BY <1>2, <2>1, <2>2, CurrentKept
<1>4. QED
  BY <1>1, <1>3, MemoryQuiet, MemoryPerforms

-------------------------------------------------------------------------------
(***************************************************************************)
(* Every turn is a step of AtomicMemory or invisible to it.                *)
(***************************************************************************)
LEMMA StepRefines ==
  ASSUME NoUnexpectedResponse, RequestsCurrent, [Next]_vars
  PROVE  RequestsCurrent' /\ [Memory!Next]_(Memory!vars)
<1>1. Sound
  BY DEF NoUnexpectedResponse, TypeOK, Sound, Placed
<1>2. CASE MemoryTurn
  <2>1. MemoryTick /\ UNCHANGED coreVars
    BY <1>2 DEF MemoryTurn
  <2>2. QED
    BY <1>1, <2>1, MemoryRefines DEF Memory!Next
<1>3. CASE \E h \in Hart : CoreTurn(h)
  <2>1. PICK h \in Hart : CoreTurn(h)
    BY <1>3
  <2>2. CoreTick(h) /\ UNCHANGED memoryVars
    BY <2>1 DEF CoreTurn
  <2>3. RequestsCurrent' /\ (UNCHANGED Memory!vars \/ Memory!Call(h) \/ Memory!Return(h))
    BY <1>1, <2>2, QuietRefines, IssueRefines, ReceiveRefines DEF CoreTick
  <2>4. QED
    BY <2>3 DEF Memory!Next
<1>4. CASE BusTurn
  <2>1. BusTick /\ UNCHANGED <<coreVars, memoryVars>>
    BY <1>4 DEF BusTurn
  <2>2. QED
    BY <1>1, <2>1, BusRefines
<1>5. CASE Stopped \/ UNCHANGED vars
  <2>1. UNCHANGED <<coreVars, memoryVars, busVars>>
    BY <1>5 DEF Stopped, vars
  <2>2. QED
    BY <1>1, <2>1, BusRefines DEF BusTick
<1>6. QED
  BY <1>2, <1>3, <1>4, <1>5 DEF Next

(***************************************************************************)
(* The scripted system is an atomic memory for its harts: whatever the     *)
(* number of harts, their programs, the bus and the refusals of the bus,   *)
(* each read and write takes effect on all its bytes at one moment between *)
(* its issue and its retirement, and a read returns what was there then.   *)
(***************************************************************************)
THEOREM MemoryImplemented == Spec => MemorySpec
<1>1. Init => Memory!Init /\ RequestsCurrent
  BY MemoryInitially
<1>2. NoUnexpectedResponse /\ RequestsCurrent /\ [Next]_vars
        => RequestsCurrent' /\ [Memory!Next]_(Memory!vars)
  BY StepRefines
<1>3. QED
  BY <1>1, <1>2, NoneUnexpected, PTL DEF Spec, MemorySpec, Memory!Spec
===============================================================================
