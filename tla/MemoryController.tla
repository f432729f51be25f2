--------------------------- MODULE MemoryController ---------------------------
(***************************************************************************)
(* The memory controller (class MemoryController) and its SharedMemory:    *)
(* requests are taken from the bus into a queue and served one at a time,  *)
(* each for ServiceLatency cycles; the response occupies the controller    *)
(* until the bus accepts it.                                               *)
(***************************************************************************)
EXTENDS SystemBus

CONSTANTS
  ServiceLatency, \* MemoryControllerConfig::service_latency
  QueueCapacity   \* MemoryControllerConfig::request_queue_capacity

ASSUME MemoryAssumption ==
  /\ ServiceLatency \in Nat \ {0}
  /\ QueueCapacity \in Nat \ {0}

VARIABLES
  queue,    \* queue_: the requests waiting, oldest first
  active,   \* active_: the request in service with its cycles_left, length 0 or 1
  response, \* response_: the response to be sent, a sequence of length 0 or 1
  bytes     \* SharedMemory::bytes_, 0 where nothing has been written

memoryVars == <<queue, active, response, bytes>>

MemoryInit ==
  /\ queue = <<>>
  /\ active = <<>>
  /\ response = <<>>
  /\ bytes = [a \in Address |-> 0]

MemoryTypeOK ==
  /\ queue \in Seq(MemoryRequest) /\ Len(queue) <= QueueCapacity
  /\ active \in Seq([request : MemoryRequest, left : 1 .. ServiceLatency])
  /\ response \in Seq(MemoryResponse)
  /\ Len(active) + Len(response) <= 1
  /\ bytes \in [Address -> Byte]

-------------------------------------------------------------------------------
\* Mutant: the last byte of a write is lost.
Write_Short(mem, a, data) ==
  [x \in Address |-> IF x - a + 1 \in 1 .. Len(data) - 1 THEN data[x - a + 1] ELSE mem[x]]

\* SharedMemory::read and write.
Read(mem, a, size) == [i \in 1 .. size |-> mem[a + i - 1]]
Write(mem, a, data) ==
  [x \in Address |-> IF x - a + 1 \in DOMAIN data THEN data[x - a + 1] ELSE mem[x]]

\* The effect of a request on the memory, and the data of its response.
Effect(mem, r) == IF r.op = "Write" THEN Write(mem, r.address, r.data) ELSE mem
Result(mem, r) == IF r.op = "Read" THEN Read(mem, r.address, r.size) ELSE <<>>

ResponseTo(r) ==
  [hart |-> r.hart, transaction |-> r.transaction, data |-> Result(bytes, r)]

\* Mutant: a refused response is dropped.
Unsent_Dropped(sent) == <<>>

\* The response left after send_response().
Unsent(sent) == IF sent THEN <<>> ELSE response

\* receive_request(): one request is taken if there is room for it.
MayTake == Len(queue) < QueueCapacity /\ CanRecv(MemoryPort, Request)
Taken == IF MayTake THEN Append(queue, Received(MemoryPort, Request)) ELSE queue

\* A cycle, in the order of the code; sent: the bus accepts the response now.
\* Since start_request comes last a request is not served in the cycle that
\* takes it from the queue, and not while a response is waiting.
Serve(sent) ==
  LET unsent == Unsent(sent)
      advancing == active # <<>> /\ unsent = <<>>
      done == advancing /\ active[1].left = 1
      starting == unsent = <<>> /\ ~done /\ active = <<>> /\ Taken # <<>>
  IN
  /\ response' = IF done THEN <<ResponseTo(active[1].request)>> ELSE unsent
  /\ bytes' = IF done THEN Effect(bytes, active[1].request) ELSE bytes
  /\ active' = CASE done -> <<>>
                 [] advancing /\ ~done -> <<[active[1] EXCEPT !.left = @ - 1]>>
                 [] starting -> <<[request |-> Head(Taken), left |-> ServiceLatency]>>
                 [] OTHER -> active
  /\ queue' = IF starting THEN Tail(Taken) ELSE Taken

\* What the cycle does to the bus: a response goes in, a request comes out.
Exchange(sent) ==
  /\ accepted' = IF sent THEN accepted + 1 ELSE accepted
  /\ transit' = IF sent
       THEN transit \cup {[id |-> accepted', src |-> MemoryPort, dst |-> response[1].hart,
                           channel |-> Response, body |-> response[1]]}
       ELSE transit
  /\ inbox' = IF MayTake THEN [inbox EXCEPT ![MemoryPort][Request] = Tail(@)] ELSE inbox

MemoryTick ==
  \E sent \in BOOLEAN :
    /\ sent => response # <<>>
    /\ ~sent /\ response # <<>> => Bus!MayRefuse(response[1].hart, Response)
    /\ Serve(sent)
    /\ Exchange(sent)

Idle == queue = <<>> /\ active = <<>> /\ response = <<>>
==============================================================================
