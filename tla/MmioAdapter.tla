------------------------------ MODULE MmioAdapter ------------------------------
(***************************************************************************)
(* The register window of each hart (class MmioBusAdapter).  Through it a  *)
(* program starts accesses to the shared memory that go on while the hart  *)
(* computes: up to Depth commands are queued, sent one per cycle on the    *)
(* hart's own bus port, and matched with the responses by transaction id.  *)
(* With Depth = 1 a busy window refuses every write, and a completion is   *)
(* seen in STATUS and RDATA; with more, completions queue up in results    *)
(* until the program pops them, and both queues share the capacity.        *)
(***************************************************************************)
EXTENDS SystemBus, SequencesExt

CONSTANTS
  Radix,        \* the values of a byte, 256 in the code
  WindowBase,   \* MmioBusAdapter::base
  AddressLimit, \* the number of addresses, 2^64 in the code
  Depth         \* depth_

ASSUME AdapterAssumption ==
  /\ Radix \in Nat \ {0, 1} /\ Byte = 0 .. Radix - 1
  /\ WindowBase \in Nat /\ WindowBase % 8 = 0
  /\ AddressLimit \in Nat /\ \A a \in Address : a < WindowBase
  /\ Depth \in Nat \ {0}
  /\ IdSpace % 2 = 0

VARIABLE adapter \* per hart, the fields of its MmioBusAdapter

\* Registers, by their offset in the window.
Target == 0
WriteData == 8
Size == 16
Command == 24
Status == 32
ReadData == 40
QueueDepth == 48
Outstanding == 56
ResultId == 64
Pop == 72
ResultStatus == 80

WindowSpan == 256
NoRegister == -1

Overlaps(a, n) == a < WindowBase + WindowSpan /\ a + n > WindowBase

\* offset(): the register a 64-bit aligned access is for.
Register(a, n) ==
  IF a \in WindowBase .. WindowBase + WindowSpan - 1 /\ n = 8 /\ a % 8 = 0
    THEN a - WindowBase ELSE NoRegister

\* Little endian, as the adapter and the hart build and read messages.
BytesOf(v, n) == [i \in 1 .. n |-> (v \div Radix ^ (i - 1)) % Radix]
Number(d) == FoldRight(LAMBDA b, v : b + Radix * v, d, 0)

AdapterInit ==
  adapter = [h \in Hart |->
    [target |-> 0, wdata |-> 0, size |-> 8, rdata |-> 0, flags |-> {},
     requests |-> <<>>, results |-> <<>>, next |-> 0]]

AdapterTypeOK ==
  \A h \in Hart :
    LET a == adapter[h] IN
    /\ {a.target, a.wdata, a.size, a.rdata} \subseteq Nat
    /\ a.flags \subseteq {"done", "error"}
    /\ \A i \in DOMAIN a.requests :
         a.requests[i].request \in MemoryRequest /\ a.requests[i].sent \in BOOLEAN
    /\ \A i \in DOMAIN a.results : a.results[i].id \in 0 .. IdSpace - 1
    /\ a.next \in 0 .. IdSpace \div 2 - 1

-------------------------------------------------------------------------------
Busy(a) == a.requests # <<>>

Bit(flag, n) == IF flag THEN n ELSE 0
FirstResult(a, v) == IF a.results = <<>> THEN 0 ELSE v

Readable == {Target, WriteData, Size, Command, Status, ReadData, QueueDepth, Outstanding,
             ResultId, ResultStatus}

\* read() of a readable register.
ReadRegister(a, reg) ==
  CASE reg = Target -> a.target
    [] reg = WriteData -> a.wdata
    [] reg = Size -> a.size
    [] reg = Command -> 0
    [] reg = Status -> Bit(Busy(a), 1) + Bit("done" \in a.flags, 2) + Bit("error" \in a.flags, 4)
    [] reg = ReadData -> IF a.results = <<>> THEN a.rdata ELSE a.results[1].data
    [] reg = QueueDepth -> Depth
    [] reg = Outstanding -> Len(a.requests)
    [] reg = ResultId -> FirstResult(a, a.results[1].id)
    [] reg = ResultStatus -> FirstResult(a, IF a.results[1].failed THEN 4 ELSE 2)

Rejected(a) == [a EXCEPT !.flags = @ \cup {"error"}]

\* A command, or an access of the same shape, is one the adapter can pass on.
ValidCommand(a, v) ==
  /\ v \in {1, 2}
  /\ a.size \in {1, 2, 4, 8}
  /\ a.target + a.size <= AddressLimit
  /\ ~Overlaps(a.target, a.size)

\* Mutant: results that have not been popped do not count.
Full_Unpopped(a) == Len(a.requests) >= Depth

Full(a) == Len(a.requests) + (IF Depth > 1 THEN Len(a.results) ELSE 0) >= Depth

\* Mutant: the count of the ids runs out of its half.
Exhausted_Late(a) == Depth > 1 /\ a.next = IdSpace \div 2

\* Ids of the upper half, each used once; with Depth = 1 the id is always 0.
Exhausted(a) == Depth > 1 /\ a.next = IdSpace \div 2 - 1

CommandRequest(a, h, v) ==
  [op |-> IF v = 1 THEN "Read" ELSE "Write", hart |-> h,
   transaction |-> IF Depth = 1 THEN 0 ELSE IdSpace \div 2 + a.next,
   address |-> a.target, size |-> a.size,
   data |-> IF v = 1 THEN <<>> ELSE BytesOf(a.wdata, a.size)]

\* A write of v to COMMAND by hart h.
Commanded(a, h, v) ==
  LET cleared == [a EXCEPT !.flags = IF Depth = 1 THEN {} ELSE @, !.rdata = 0] IN
  IF Full(a) THEN Rejected(a)
  ELSE IF ~ValidCommand(a, v) \/ Exhausted(a) THEN Rejected(cleared)
  ELSE [cleared EXCEPT
          !.next = IF Depth = 1 THEN @ ELSE @ + 1,
          !.requests = Append(@, [request |-> CommandRequest(a, h, v), sent |-> FALSE])]

Cleared(flags, v) ==
  flags \ ((IF (v \div 2) % 2 = 1 THEN {"done"} ELSE {})
           \cup (IF (v \div 4) % 2 = 1 THEN {"error"} ELSE {}))

\* Mutant: DONE stays when the last result is popped.
Popped_KeepsDone(a, v) ==
  IF v # 1 \/ a.results = <<>> THEN Rejected(a) ELSE [a EXCEPT !.results = Tail(@)]

Popped(a, v) ==
  IF v # 1 \/ a.results = <<>> THEN Rejected(a)
  ELSE [a EXCEPT !.results = Tail(@),
                 !.flags = IF Len(a.results) = 1 THEN @ \ {"done"} ELSE @]

Writable == {Target, WriteData, Size, Command, Status, ReadData, Pop}

\* write() of v to a register that does not throw.
WriteRegister(a, h, reg, v) ==
  CASE reg = Pop -> Popped(a, v)
    [] reg # Pop /\ Busy(a) /\ Depth = 1 -> Rejected(a)
    [] OTHER ->
         CASE reg = Target -> [a EXCEPT !.target = v]
           [] reg = WriteData -> [a EXCEPT !.wdata = v]
           [] reg = Size -> [a EXCEPT !.size = v]
           [] reg = Status -> [a EXCEPT !.flags = Cleared(@, v)]
           [] reg = ReadData -> Rejected(a)
           [] reg = Command -> Commanded(a, h, v)

-------------------------------------------------------------------------------
Unsents(a) == {i \in DOMAIN a.requests : ~a.requests[i].sent}

\* Mutant: the newest command is sent first.
NextUnsent_Newest(a) == CHOOSE i \in Unsents(a) : \A j \in Unsents(a) : j <= i

NextUnsent(a) == CHOOSE i \in Unsents(a) : \A j \in Unsents(a) : i <= j

Sending(a) == [a EXCEPT !.requests[NextUnsent(a)].sent = TRUE]

\* The commands a response may answer: those under way with its id.
Awaiting(a, r) ==
  {i \in DOMAIN a.requests : a.requests[i].sent /\ a.requests[i].request.transaction = r.transaction}

Unexpected(a, h, r) == r.hart # h \/ Awaiting(a, r) = {}

\* The window after the response r has completed a command.
Completed(a, r) ==
  LET i == CHOOSE k \in Awaiting(a, r) : \A j \in Awaiting(a, r) : k <= j
      q == a.requests[i].request
      failed == Len(r.data) # (IF q.op = "Read" THEN q.size ELSE 0)
      data == IF failed THEN 0 ELSE Number(r.data)
  IN [a EXCEPT !.rdata = data,
               !.results = IF Depth > 1
                 THEN Append(@, [id |-> r.transaction, data |-> data, failed |-> failed]) ELSE @,
               !.requests = RemoveAt(@, i),
               !.flags = {"done"} \cup (@ \cap {"error"}) \cup (IF failed THEN {"error"} ELSE {})]

\* Mutant: a command counts as sent although the bus refused it.
AdapterAfter_Assumed(h, sent) ==
  IF Unsents(adapter[h]) # {} THEN Sending(adapter[h]) ELSE adapter[h]

\* tick(): one command may be sent, then one response taken, if any is awaited.
\* A response nobody awaits makes the tick throw: see AdapterThrows.
AdapterAfter(h, sent) == IF sent THEN Sending(adapter[h]) ELSE adapter[h]
AdapterTakes(h) == Busy(adapter[h]) /\ CanRecv(h, Response)
AdapterThrows(h, sent) ==
  AdapterTakes(h) /\ Unexpected(AdapterAfter(h, sent), h, Received(h, Response))

AdapterTick(h, sent) ==
  LET a == AdapterAfter(h, sent) IN
  /\ sent => Unsents(adapter[h]) # {}
  /\ ~sent /\ Unsents(adapter[h]) # {} => Bus!MayRefuse(MemoryPort, Request)
  /\ adapter' = [adapter EXCEPT ![h] =
       IF AdapterTakes(h) /\ ~AdapterThrows(h, sent)
         THEN Completed(a, Received(h, Response)) ELSE a]
  /\ accepted' = IF sent THEN accepted + 1 ELSE accepted
  /\ transit' = IF sent
       THEN transit \cup {[id |-> accepted', src |-> h, dst |-> MemoryPort, channel |-> Request,
              body |-> adapter[h].requests[NextUnsent(adapter[h])].request]}
       ELSE transit
  /\ inbox' = IF AdapterTakes(h) THEN [inbox EXCEPT ![h][Response] = Tail(@)] ELSE inbox
==============================================================================
