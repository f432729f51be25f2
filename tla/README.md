# Verification of simbus-noc

TLA+ models of the simulator's interconnects, of the systems built on them and of
the instruction set library the harts execute with, checked with TLC, and theorems
about them checked with TLAPS.

Run one model with `tlc -config <file>.cfg <MC module>` and the proofs with
`tlapm <module>.tla` for `SharedBus_proofs`, `ManycoreSystem_proofs`, `NoC_proofs`,
`RouteTable_proofs`, `RouteWalk_proofs`, `Rv64System_proofs`, `Fold_proofs` and
`Library_proofs`, in this directory.

## 1. The system

simbus-noc simulates harts that reach one shared memory over a bus, cycle by
cycle, in one thread. There is no concurrency in the host program; what is hard
is the concurrency it simulates: messages queue, are cut into packets, overtake,
wait for buffers and slots, and come back to components that have gone on.

| Component | State | Operations | Talks to |
|---|---|---|---|
| bus contract (`BusInterfaceV2`, `IBus`) | - | `can_send`, `send`, `can_recv`, `recv`, `apply_next_tick` | called by harts, adapters, the controller and the system loop |
| shared bus (`interconnect.cpp`) | queues, the active transfer, inboxes, receive slots, scan pointer | the five calls; arbitration in the tick | callers above |
| packet network (`noc/src/symmulcha.cpp`) | send, receive and reassembly buffers, router pipelines, edge registers, congestion flags, receive slots, scan pointers | the five calls; node, edge and congestion steps in the tick | routing tables, callers above |
| routing tables (`noc/src/routetable.cpp`) | the table | insert, delete, three generators, validation | packet network |
| memory controller (`memory_controller.cpp`) | request queue, request in service, unsent response, memory | one tick: send, receive, advance, start | bus (port `core_count`) |
| scripted core (`atomic_core.cpp`) | script, current operation, state, ids | one tick: receive, or begin, execute and issue | bus (its own port) |
| scripted system (`manycore_system.cpp`) | the components and the tick count | `tick`, `finished`, `run` | all of the above |
| RV64 core (`rv64_atomic_core.cpp`) | registers, pending instruction, pending request, vector descriptors, adapter | one tick: adapter, then fetch, execute, issue or wait | bus, program image, instruction set library |
| MMIO adapter (`mmio_bus_adapter.cpp`) | registers, command queue, results | register read and write, one tick | bus (the hart's port) |
| RV64 system (`rv64_manycore_system.cpp`) | as the scripted system, over either bus | `tick`, `finished`, `faulted`, `run` | all of the above |
| instruction set library (`rv64-archsem/riscv64`) | none; every function takes registers and returns registers | decode, decode compressed, execute by class of instruction, split a vector access | RV64 core, SoftFloat |
| SoftFloat (`rv64-archsem/softfloat`) | rounding mode and flags, set and read around each call | arithmetic, conversions, comparisons, estimates of three formats | instruction set library |
| memory protocol, shared memory, latencies, program image | pure or nearly so | encode and decode, read and write, lookup | cores, controller |

The hard behaviours, component by component, are the `hazards` of
`PROJECT.json`, each at its line. In short:

* **buses** - receive slots span the whole life of a message and are returned by
  another component; fairness of the scan while responses go first; packets of
  several messages interleaved at a node; registers and buffers shared by flows;
  bounded buffers on rings; flags with hysteresis.
* **routing** - loops built by edits; off-by-ones at ties and odd sizes.
* **cores and controller** - refused sends are retried with new ids; responses
  come back much later; the controller serves nothing while a response is unsent.
* **systems** - the run ends without asking the bus.
* **library** - hundreds of decoder rows and vector kernels written by hand, each of which
  can be wrong alone; compressed and full instructions decoded by unrelated code; vector
  operations resumed in the middle; memory accesses cut at lines and joined again;
  roundings, carries, saturation, signed zeros and NaNs.

What makes each component correct: a bus loses, doubles and reorders nothing
within a flow, refuses only with reason and keeps delivering; a table leads
everywhere without a loop, by a shortest way; the harts see an atomic memory; a
run ends, and quiescent; decoding loses nothing and agrees with itself; arithmetic is the exact
arithmetic rounded once; a vector instruction does to each element what the scalar one does to a
register, wherever it is resumed; the pieces of an access move exactly its bytes.

## 2. Modules

```
RoundRobin --- SharedBus --- SharedBus_proofs
     \             |  implements
      \            v
       \         IBus  <---- SystemBus <-+-- AtomicCore, MemoryController <---- ManycoreSystem --- ManycoreSystem_proofs
        \          ^  implements         |                                        | implements
RouteTable --- NoC-+-- NoC_proofs
     |    \                              |                                 AtomicMemory --+
     |     \                             |                                                 MemoryAccess
     |     RouteTable_proofs            |                                OrderedMemory --+
     |             |                    |                                        | implements
RouteWalk --- RouteWalk_proofs          +-- MmioAdapter <-- Rv64Core <---- Rv64System --- Rv64System_proofs
                                                            MemoryController <-+

Words -+- Instructions -- Decode -- VectorDecode ---------------------------------------+
       +- IntegerOps -------------------------------------------------------------------+
       +- SoftFloat -+- HalfFloat ------------------------------------------------------+- Library -- LibraryLaws -- Library_proofs
       |             +- FloatExec --+                                                   |
       |                            +- VectorFloat -- VectorExec -- VectorMemory --+    |
       +- VectorInteger ------------+                                              |    |
       +- MemoryProtocol ----------------------------------------------------------|----+
                                                                      CoreExecute -+----+
```

* **IBus** is the abstract bus: a set of messages in transit, an inbox per port
  and channel. `Send`, `Recv` and `Deliver` are its actions, `MayRefuse` says when
  a caller may be refused. Who goes first and how long it takes are open.
* **SharedBus** is the class `SharedBus`, one action per call and the tick split
  into its four cases (`Grant`, `Transfer`, `Deliver`, `Idle`). A message carries its
  age up to the starvation threshold instead of its time of entry, so the tick count
  is not needed. The auxiliary variable `overtaken` counts the requests granted to
  others while a port's front request waits; nothing reads it but the property.
* **NoC** is the class `SymmetricMultiChannelBus`. `Tick` is the whole
  `apply_next_tick`: intake of every node (`Candidate`, `CanAccept`), local delivery and
  reassembly (`Completes`, `RecvAfter`), pipelines (`Admit`, `Released`, `Keep`), edges
  (`Fill`, `Moved`) and congestion (`CongestedAfter`). The code walks the nodes one
  after the other; the model takes their steps at once, which is the same because a
  node only empties its incoming edges' outputs and only fills its outgoing edges'
  inputs, and no other node touches either.
* **RouteTable** holds the generators and the validation as operators; **RouteWalk**
  generates a table or edits one entry by entry, gives it to a network that validates it,
  and follows it hop by hop.
* **SystemBus** fixes how the systems use the bus (ports, channels, messages);
  **MemoryController** and **AtomicCore** are the two kinds of client, and
  **ManycoreSystem** composes them: `turn` runs through the controller, the harts in
  order, and the bus, as `ManycoreSystem::tick` does. The composition uses IBus, not one
  of its implementations, so its results hold over either.
* **MmioAdapter** is the register window of a hart: reads and writes of its registers
  (`ReadRegister`, `WriteRegister`), the two queues that share its capacity, and `AdapterTick`,
  which sends at most one command and takes at most one response.
* **Rv64Core** is one RV64 hart, one action per state of its pipeline and kind of
  instruction. An instruction is a record of its kind, its latency and the accesses it makes;
  all harts run one `Image`, entered at `Entries` (in the code they part by their mhartid).
  What instructions compute is left out except for `reg`, the value last loaded or read from
  a CSR, on which branches and nothing else depend. Illegal instructions, decode errors and
  unsupported ones are one kind, `Illegal`; loads are the zero-extending ones.
* **Rv64System** composes them with MemoryController. A core's tick is two consecutive
  steps, `WindowTurn` (the adapter's tick, whose exception faults the hart) and `CoreTurn`.
* **AtomicMemory** is the memory the scripted harts should see: call, perform, return.
  **OrderedMemory** is the one the RV64 harts should see: a hart has several paths, the core's
  and the window's, with several accesses under way on a path, and still its accesses take
  effect one by one in the order of their calls. Both share **MemoryAccess**, what one access
  does to the bytes.
* **RoundRobin** has the scan both buses use.
* **Words** has machine words and their arithmetic. **Instructions**,
  **Decode** and **VectorDecode** are `decode_rvc` and `decode`: names, fields and the tables of
  `decode.cpp` and `decodev.cpp` as data, one row per instruction.
* **IntegerOps** is `rvi64.cpp` and `rva64.cpp` at any register width. **SoftFloat** is the
  arithmetic of `softfloat/` for a format given by its widths, **HalfFloat** what the files of
  `float16_t` do differently (sums in 32 bits, quotients and roots from tables),
  **FloatExec** the comparisons, conversions, extremes and estimates of the library and the
  scalar instructions of `rvf64.cpp`.
* **VectorInteger** and **VectorFloat** are the kernels of
  `vint.hpp`, `vfxp.hpp`, `vmsk.hpp`, `vperm.hpp`, `vrd.hpp` and `vfp.hpp`. The templates for
  two vectors and for a vector and a scalar are one operator, and so are those that differ in an
  operation. **VectorExec** is `exec_opv`: the sizes it demands, the types each instruction casts its
  registers to, flags and `vxsat`. **VectorMemory** is `memparse.cpp`.
* **CoreExecute** is what the RV64 core does with a decoded instruction: registers, CSRs, vector
  context, jumps, loads, stores and vector accesses with their answers, and the latency. It
  completes **Rv64Core**, where instructions are abstract; the two are not composed.
* **MemoryProtocol** encodes and decodes the messages, with each check that throws.
* **Library** is one call of any of these: `Init` chooses the call, and one action per entry point
  returns its result. **LibraryLaws** states the properties and what decoding is measured by: an
  assembler, the expansion of compressed instructions and the comment tables of `decode.cpp`, all rows.
* **Fold_proofs** has the lemmas on folds (numbers read byte by byte) that `Rv64System_proofs` and
  `Library_proofs` share.

State and actions carry the names of the code where TLA+ allows; the table from
definitions to lines is the `map` of `PROJECT.json`.

Abstractions, everywhere: payload bytes of bus messages, statistics and text output
are left out; configuration is CONSTANTS with the constructor's checks as ASSUME;
an operation that the code rejects by throwing is not enabled. A message is
identified by its rank among the accepted ones: in the network that is the 32-bit
`xmtid` until it wraps. `MaxMessages` bounds the messages of a behaviour and nothing else.

The library is modelled as it is built here: `scripts/prepare_archsem.sh` patches a copy in which
expanded masks are integers and the mask of unmasked instructions is filled with ones (in the source its
initializer sets the first element alone, which is a mutant here), and `platform.h` selects the variants of SoftFloat (64-bit
arithmetic, round-to-odd, tininess after rounding, table-based division of `float16_t`).
Signed overflow in the vector kernels is undefined in C++ and wraps in this build. A register
group is a function from byte numbers, so that views of different widths overlap as in memory.

## 3. What the runs show

| Run | Configuration | Shows |
|---|---|---|
| `bus_round_robin` | two clients, a memory, queues of 2, 2 slots, 5 messages | `CreditConservation`, `BoundedOvertaking`, `RefusalsExplained`, the inductive invariant `IInv`, and `BusSpec` (implements IBus) |
| `bus_fixed_priority` | two ports, every flow including to oneself, 4 messages | `BusFairSpec`: implements IBus, and delivery never stops although requests and responses share queues |
| `routes` | rings of 1 to 7, tori of 1 to 5 by 1 to 4, so with odd, even and degenerate sides; all edits of a ring of three, with a stranger | `ValidIsLoopFree`: the validation is exactly loop-freedom; `GeneratedRoutes`: accepted, shortest, x before y |
| `noc_line` | a line, two ports on one node, messages of 1 and 3 packets, watermarks 2 and 0 | `PacketsConserved`, `MessagesWhole`, `CongestionClears` |
| `noc_clients` | a double ring of 4, system traffic, pipelines of latency 2, buffers of 1, packets wider than the link | `RefusalsExplained` (with the conservation of slots), `BuffersBounded`, `BusFairSpec`, `ReassemblyFinishes` |
| `noc_gridlock` | a 3 x 3 torus, three crossing flows of 7 packets, buffers of 1 | `ReassemblyFinishes` is **violated**: see below |
| `manycore` | three harts, request queue of 1, ids modulo 2 | `NoUnexpectedResponse` (one message per hart under way, in one place, with the id it waits for), `MemorySpec` (implements AtomicMemory), `Termination`, with nothing under way at the end |
| `rv64_single` | two harts, windows of depth 1, ids modulo 2, one polling program, one mixing vector accesses and commands, six programs that fault | `NoStolenResponse`, `FenceDrains`, `MemorySpec` (implements OrderedMemory), `ProgramsSucceed`: every run ends, drained, and the programs find what they expect |
| `rv64_queue` | two harts, windows of depth 2, ids modulo 8 (four in the half of the commands, the last never given) | `CommandsInOrder` (with the capacity), `TypeOK` (ids of commands keep to their half), `MemorySpec`, `ProgramsSucceed` |
| `library` | about 459 000 calls, see below | fourteen laws of `LibraryLaws` |
| `library_msub` | `fmsub` on the small format | `MsubNegatesAddend` is **violated** |
| `library_jumps` | `jalr` with every kind of registers | `JumpsFollowRegister` is **violated** |

What `library` checks, and against what:

| Property | Measured against |
|---|---|
| `NothingLost`, `CompressedExpands` | an assembler; the 32-bit instruction a compressed one abbreviates; the comment tables of `decode.cpp`, bit by bit, and the words of which they are wrong |
| `IntegerLaws` | exact integers: quotient and remainder, both halves of products, words against registers, branches against `slt`, CSR fields, immediates |
| `RoundedExactly` | rational arithmetic rounded once, with the IEEE flags, in six rounding modes |
| `HalvesAgree` | for `float16_t` at its real width: sums and products as fused operations, quotients and roots without tables |
| `OrderConsistent` | one order for `flt`, `fle`, `feq`, `fmin` and `fmax` |
| `ResumedAgrees` | the same instruction interrupted before any element and resumed with `vstart` |
| `CarryChain` | sums and differences of twice the width |
| `FixedPointExact` | exact results rounded once by `vxrm`, cut, with `vxsat` |
| `StaysWithinRequest` | the same call with every byte beyond `request_reg_bytes` cleared, and beyond the mask if that is long enough |
| `VectorFollowsScalar` | the scalar instruction of the same name, for every active element, and every element of an unmasked instruction |
| `AccessesCover`, `UnitStrideMoves` | the set of bytes an instruction names; the registers and the memory after all answers |
| `MessagesReadBack` | decoding of what was encoded, of every prefix and of damaged messages |

**Bounds.** Slots, queues and buffers are of size one or two because the hazards
are at the limit; the number of messages is such that every limit is reached and
exceeded by one (two queued, one on the bus and two in an inbox on the shared bus;
a full pipeline with one more behind it in the network). Three ports are needed for
overtaking by more than one other port. Messages of three packets from two ports of one
node give every way of interleaving two reassemblies. Ids modulo 2 give the smallest
space in which the id of a retried request can equal an old one, and the one in which the
hart's ids reach the half that the windows use. The RV64 programs follow
`mmio_bus_smoke.S` and `csr_bus_smoke.S`: they check what they read and stop with code 1 if
it is wrong, which `ProgramsSucceed` excludes; they fill the window, run out of command ids, halt
or end through ToHost with a command under way. A byte has `Radix` = 2 values and an access to
shared memory one byte; a window register is a number and accesses to the window have their 8
bytes. In `library` a byte
has 3 bits, so that elements of 1, 2, 4 and 8 bytes have 3, 6, 12 and 24 and TLC can go through
nearly all pairs of the small ones; floating-point formats of 6, 12 and 24 bits stand for the real
ones, since `SoftFloat` takes its widths as parameters, and `HalvesAgree` is at the real
width of `float16_t` because the tables exist there only. Registers of the integer instructions have 8
bits. Every 16-bit word, and every pattern of the function bits of every opcode, is decoded; every
vector word that decodes is executed at several widths, lengths, starts and masks, among them masks of one byte where two are
needed, and the longest that is accepted and the shortest that is refused. Products that exceed
32 bits, which TLC cannot hold, are left out by name (`Products`, `WideProducts` in MCLibrary).
Every property of a
passing run is refuted by a mutant of a mapped definition under the same bounds.

**Findings.** (1) `symmulcha.cpp:355` explains that local packets are always admitted "so a
partial message can always finish reassembly". That is true of the last hop only: on
the way there, routers of a ring whose buffers are all full wait for each other for
ever (`symmulcha.cpp:366`). `noc_gridlock` shows it on a torus. The project's manual
does not claim freedom from deadlock for every topology; the comment reads as if it
did. A double ring of four does not have the problem with the systems' traffic
(`noc_clients`); larger rings and other traffic on rings are not checked.

(2) `exec_msub` (`rvf64.cpp:137`) gives SoftFloat the flag `softfloat_mulAdd_subC`. Where the product
is zero, or the addend infinite, the fused multiply-add returns its addend as it came
(`s_mulAddF32.c:99`, `:212`), so `fmsub(0, x, c)` is `c` instead of `-c`. The definition kept in the
comment above it negates the addend first and does not have the problem (`library_msub`).

(3) `jalr` with `rd = x1` and another base is decoded as a call (`decode.cpp:812`), and the core
executes every call as `pc + imm` (`rv64_atomic_core.cpp:601`): the base register is ignored. Other indirect
jumps and returns write `rd` before they read `rs1` (`:607`), so `jalr x5, 0(x5)` jumps to its own
return address (`library_jumps`).

**Divergences.** The models follow the code also where the repository's text says something
else, and the properties leave these cases out by name:

* `c.mv` is decoded as `addi rd, x0, imm` with the *number* of rs2 as the immediate (`decode.cpp:515`;
  the table at `:413` has a register). `c.addi4spn` refuses `rd' = x8` instead of an immediate of zero
  (`:65` against `:39`), and `c.addiw`, `c.li`, `c.slli`, `c.lwsp` and `c.ldsp` refuse `x0` as their
  destination, which their rows allow.
* The tables (`decode.cpp:162-170`) select the compressed arithmetic by 00 (`c.srli`), 01 (`c.srai`), 10
  (`c.andi`) and 11 (registers). `decode_rvc` takes 0 for both shifts, told apart by bit 12, 1 for
  `c.andi`, 2 for the registers, and refuses 3 (`:294-343`). So 0x8409, documented as `c.srai x8, 2`, is
  decoded as `andi x8, x8, 2`, and a documented `c.sub` is refused. `Contradicted` in LibraryLaws has
  these words and those of the item before, and `CompressedExpands` that these and no others part from
  their rows.
* `c.jalr x1` is a call (`decode.cpp:540`), and the core executes calls relative to `pc`; in full,
  `jalr x1, 0(x1)` is an indirect jump (`:814-819`), which it executes through the register
  (`rv64_atomic_core.cpp:601-612`). The two do not mean the same, and `CompressedExpands` leaves
  `c.jalr x1` out by name (`CallsThroughLink`). Only `ret` and `indirect_jump` are taken for one, as the
  core does.
* `exec_opv` multiplies the size of the mask by 8 as it does those of the registers (`rvv64.cpp:594`), but
  the mask is a vector of bytes (`riscv64.hpp:275`) and they are vectors of words of 8 bytes: a mask of an
  eighth of the bytes is accepted, and `expand_mask` reads what lies behind it, `beyond` in the calls.
  `StaysWithinRequest` holds of such calls with those bytes counted as part of the mask. The core always
  passes a whole register.
* `vfmv.v.f` and `vfmerge` are exchanged (`decodev.cpp:693` against `:289`); the averaging additions
  have the view of one element (`:458` against `riscv64.hpp:104`), so the core passes too few bytes.
* A vector store that starts at `vstart` writes from `base + 0`; a 32-bit vector whose base is not a
  multiple of four crosses the line; strided accesses take the base register as their stride
  (`rv64-manycore-sim/README.md:163-170`). `vmv.x.s` keeps the upper bytes of rd.
* The vector rounding mode is taken from `fcsr` first; `vfnmacc` and its kind round before they negate, NaNs
  included;
  `vfmv.s.f` writes also with `vl = 0`; `vid.v` reads the expanded mask at the wrong index.
* Atomic operations on words do not cut their operands (`rva64.cpp:43`).
* `encode_request` writes a read that carries data, and `encode_response` data of 2^16 bytes or
  more with a cut size; `decode_request` and `decode_response` refuse both.
* Both watermarks may be zero (`symmulcha.cpp:40-46`). A node that was congested is then cleared and
  raised again in the same cycle for ever, since `b <= 0` and `b >= 0` alternate in the two updates of a
  cycle (`:531`, `:569`), and an empty network refuses sends, where `noc_config.h:13` says the node
  recovers at or below the low watermark. `RefusalsAreExplained` assumes a high watermark above zero;
  `High <- 0` and `Low <- 0` in `NoC_line.cfg` show it.
* `parse_store_vector` leaves `first_element_idx` uninitialized: the constant `garbage` of the calls.

**Fairness.** `FairSpec` of both buses is weak fairness of the tick and of nothing
else: the system loop calls `apply_next_tick` once per cycle, while a caller may never
send or receive. Properties that need receives to happen are not claimed. In the system
all components are ticked by one loop: weak fairness of `Next`. `SF(BusTurn /\ Deliver)` is
the bus's own promise, `BusFairSpec`: in transit for ever means delivered; it is strong
because the bus has its turn only once per tick. The network keeps that promise in the
configurations above, not in every one (see the finding), so `Termination` is conditional on
it.

## 4. What is proved

`SharedBus_proofs`, for every number of ports, every queue depth, slot limit, cycle
count and threshold, both policies and every set of flows; the only assumption is
`ConfigAssumption`, which is what the constructor checks.

* `Invariant`: `Spec => []IInv`
* `TypeCorrect`: unsigned counters never go below zero
* `CreditsConserved`: slots taken = messages on their way or in the inbox, and at most the limit
* `OvertakingBounded`: `overtaken[p] + Distance(next, p) <= N - 1`
* `RefusalsJustified`: a refusal means traffic

`CreditConservation` alone is not inductive: that the count of a set of ids goes down by
exactly one when a message is received needs that no id is at two places (`OneCopy`) and
that an inbox holds only its own port's messages (`ArrivedAtDestination`); that it goes up by
one at a send needs that all ids are those of accepted messages (`IdsAccepted`).
`BoundedOvertaking` needs that a port without a waiting request has not been overtaken
(`OvertakenIsWaiting`); the proof of a grant then shows that the winner is at no greater
distance than any contender, so that every overtaken port comes nearer by at least one.
The invariant is checked by TLC first (`bus_round_robin`), and `NextIInv` has one lemma per
action. `MaxMessages` is a bound of the model, but as it is arbitrary it bounds nothing.

Its second half, under the same assumption:

* `BusImplemented`: `Spec => BusSpec`, the shared bus implements IBus

A transfer under way is a stutter and a grant moves a message between two places IBus calls
transit; the step that needs the invariant is the delivery, since IBus delivers only the oldest
message of a flow. `QueuesInOrder` says that a queue holds its messages by age, `BusBeforeQueue`
that the message on the bus precedes all its source still has queued, and `QueueBusApart` that the
delivered message is not also left behind (`OldestOnBus`).

`ManycoreSystem_proofs`, for every number of harts, every set of programs, every latency, queue
capacity and id space (even one of a single id), from `SystemAssumption`, `OpAssumption`,
`ProgramsAssumption` and `MemoryAssumption`; the memory is finite, as in the code:

* `NoneUnexpected`: `Spec => []NoUnexpectedResponse`

The property is stated so that it is its own inductive invariant. What one wants to know, that the
response a hart receives has the id it waits for, follows from `RightId`; `RightId` survives the next
request, which changes `waitingId`, only because a hart that does not wait has no message anywhere
(`OnePlace`), and receiving leaves none behind only because there was one (`OneThere`). A refused send
changes the next id and nothing else. The controller's tick is split as the code is: taking a
request, serving, answering (`TakeFacts`, `ServeFacts`, `SendFacts`), each moving a hart's message
from one place to the next. The bus appears as IBus, so that with `BusImplemented` the result
holds for the system over the shared bus, and with `NetworkImplemented` over the network.

* `MemoryImplemented`: `Spec => MemorySpec`, the scripted system implements AtomicMemory

A hart in `MemoryWait` has called; its call is answered when the controller holds or has sent the
response, or the bus has it in transit or in the hart's inbox. So the issue of a request maps to the
call, the cycle of the controller that ends a service (`CompleteService`) to the one step that
touches the bytes, the receipt to the return, and every move of a message to a stutter. The
invariant lacks one fact for it: that the request under way for a hart is the one of its current
operation (`RequestsCurrent`), and the step that endangers it is a refused send, after which the hart
builds the same request again under another id.

`NoC_proofs`, for every finite set of nodes, every set of ports on them, every routing table the network
accepts, all buffer sizes, latencies, link widths, message sizes and watermarks, from
`ConfigAssumption` (the constructor's checks; every port is at one node) and
`NoPacketAssumption` (an empty place is no packet):

* `PacketsAreConserved`, `MessagesAreWhole`, `BuffersAreBounded`: the properties of that name
* `CreditsAreConserved`: slots taken at a port = messages for it in the network, complete or not,
  and at most the limit
* `RefusalsAreExplained`: `ASSUME 0 < High` (or no congestion control) `PROVE Spec => []RefusalsExplained`

The invariant (`IInv`) says that a packet is at one place (`Separate`), that the packets of a message
are numbered and the ones before those in the send buffer have left (`Numbered`, `Whole`), that
reassembly holds a message only in part (`Consistent`), that receive buffers hold whole messages
(`WholeBuffers`), that slots and counters are right (`Credits`, `Counted`) and that a congested node
holds packets (`Watermarked`). `Tick` is proved in the order of its moves: the intake empties outputs
and send buffers into pipelines and reassembly, the pipelines release into edge inputs, and the
edges move inputs to outputs. Each move gives the packets a new place and is proved to be injective;
the message of a packet that reassembly completes has all its packets there, which is a count of
sequence numbers. The hypothesis on `High` is needed: see *Divergences*.

The second part of `NoC_proofs`, from the same assumptions:

* `NetworkImplemented`: `Spec => Bus!Spec`, the packet network implements IBus

The network has no queue per flow, so the order has to come from the routing table. All packets of a
flow follow one way (`OnWay`), on which the hops left decide the node (`WayUnique`); the places of a
packet are ranked by the hops left and, between two pipelines, by the edge's input and output
(`Stands`). The packets of a flow are `Ordered`: an older one has no greater rank than a younger one,
and where both have the same rank, in a send buffer or a pipeline, the older one is in front
(`Sorted`). The parts of a tick keep this one after the other (`Intake`, `Release`, `Crossed`), because
each moves the first of a flow at its place (`TakenFirst`, `GoneFirst`). The second half is what
reassembly adds: it holds no message whose packets are all there (`Unfinished`), so a message that becomes
complete is the oldest of its flow under way (`OldestArrives`). The invariant is `FlowInv` = `IInv`, that
order and `Unfinished`; a tick then maps to one `Deliver` of all messages completed in it, or to a stutter
(`TickRefines`), and an inbox of IBus is the receive buffer read at the packets of index 0
(`LettersOf`). That a filter over a sequence is again one, in the same order, is proved without
induction, from the uniqueness of ascending enumerations (`AscendingUnique`).

`RouteTable_proofs` has the lemmas on `route_table_valid`, for every table and every finite set of
nodes. Its walk is a recursive function of the number of steps; that it exists is a least-counterexample
argument on natural numbers (`LeastNumber`), since induction theorems that take a
predicate cannot be used. `Hops` is the number of steps a walk needs: each entry leads to a node with one
fewer (`OneNearer`), and no node needs as many as there are nodes, by the pigeonhole principle
(`HopsBounded`). So an accepted table ranks the nodes (`ValidRanks`), and a ranked one is accepted
(`RankedReaches`). `RouteWalk_proofs`:

* `LoopFree`: `Spec => []ValidIsLoopFree`, with any edits and any strangers as next hops
* `ShortestRoutes`: `Spec => []GeneratedRoutes`, for every size of rings and tori

The second rests on `StepNearer` (on a circle of any size the generators' choice of direction brings
one nearer by exactly one, by cases on the wrap-around), on the coordinates of a node
(`Coordinates`), and on a ring being a torus of one row. From `SizesAssumption`: the generators refuse
an empty network (`routetable.cpp:28`).

`Rv64System_proofs`, for every number of harts, every image and set of entry points, every depth of
the windows, id space (of an even size), latency and queue capacity, from `SystemAssumption`,
`AdapterAssumption` and `ImageAssumption`, over IBus and so over both buses:

* `NoneStolen`: `Spec => []NoStolenResponse`
* `CommandsOrdered`: `Spec => []CommandsInOrder`
* `FencesDrain`: `Spec => FenceDrains`
* `MemoryOrdered`: `Spec /\ []ProgramsWithin => MemorySpec`, the RV64 system implements OrderedMemory
* `TypeCorrect`: `Spec /\ []ProgramsWithin => []TypeOK`

The first three follow from one invariant, and none of them is inductive. The adapter matches responses by id
and would accept them in any order; that the hart and the window, or two commands, are never taken for
each other comes from how messages travel. What is under way for a hart therefore stands in a *line* of
seven stages (`Tokens`): in the bus, in the memory's inbox, in its queue and in service as a request, at
the controller, in the bus and in the hart's inbox as a response. `Settled` says that of two messages of
a hart the one ahead has the lower id (`InLine`); `Matched` says that the ids in the line are the hart's own
one request while it waits, with an idle window, and otherwise exactly those of the commands the window has sent;
`Window` says that a window's ids ascend, that commands are sent in order, and, with a depth above one, that results
and commands have consecutive ids up to the last given (`Consecutive`).

Every move of a message is one of three: the head of one stage becomes the last of the next (`MoveHead`), a
message joins at the end under a higher id (`SendRequest`), the head of the line is consumed
(`DropHead`, `TakeResponse`). The bus moves several at once (`ArriveKeeps`): IBus delivers the oldest
of a flow first, and the requests of a hart, like the responses for it, are one flow. So the response a window
takes is that of its oldest command (`CompleteKeeps`), and its tick never throws (`WindowKeeps`). A
hart's own ids wrap around and a window of depth one gives every command the id 0; both are covered, because
then there is at most one message in the line. A fence leaves only with an idle window (`FenceLeaves`), so the
line is empty.

`MemoryOrdered` needs `SizeAssumption` (accesses of 1, 2, 4 or 8 bytes) and the hypothesis that the
programs keep to the memory: `ProgramsWithin`, a conjunct of `TypeOK`, says that the accesses of the
image's instructions are for the window or for addresses the memory has (`InstructionsWithin`, about
constants), and so are the commands in the windows (`CommandsWithin`). The second part is not an
assumption on the constants because a program computes the address it writes into the window. The
mapping (`Memory` in `Rv64System`) shows, for each hart and each of its two paths, the calls without a
response as `pending` and the values of the others, after the results kept for the program, as
`done`. The argument:

* By the line, the calls that have a response come first (`ResponsesAhead`, `CutExists`): a path is its
  calls and the place where they are cut (`Cut`), and `Shown` says what the mapping makes of it.
* Every step of the system is one of six (`Step`, by `Steps`): it leaves all calls and messages alone, a hart
  makes a call, sends one made before, pops a result or takes a response, or the memory serves a request. That the
  bus's turn is of the first kind is the lemma `BusShares`.
* A call joins the end of its path while the other path has none (`BeginsRefines`); serving moves the cut
  by one, since the request served is the oldest without a response (`ServesRefines`); taking a response drops
  the first call, and its value is either collected or kept in the same place of the order (`TakesRefines`,
  by `JoinMove`). Sending is a stutter.
* What a hart asks for itself is what its instruction says, although the accesses of a vector instruction are
  staged one by one and ids and delays change on the way: `CInv` (`Follows`), by `CoreFollows`, one
  case per move of the hart. With `ProgramsWithin` every call is within the memory (`CallsWithin`).
* The value kept is the response's only if the response has the length the request asks for, which is when
  the adapter stores it; otherwise it stores 0. So a second invariant goes with the refinement: `RInv`
  (`Truthful`), every request under way is that of a call, every response fits its call, and a window
  of depth one keeps no results. `StepTruth` shows that every step keeps it.

`TypeCorrect`, which uses `CoreAssumption` and `MemoryAssumption` as well, has the same hypothesis.
That is also the last conjunct of `TypeOK`: what is proved are the others. Its invariant is `TInv`,
kept by every step on top of `IInv` and `CInv` (`StepTypes`). It says more than the types where they
are not inductive: a letter of the request channel holds a request within the memory (`Good`, with
every byte of the access in `Address`, as `Accesses` has it), one of the response channel a
response; requests stay `Good` in the controller's queue and in service, so that what they read is a
message and what they write keeps the memory's type (`GoodFacts`); commands have the fields of a
request and ids of the id space (`Ranks`). That their ids stay in the upper half is
`CommandedTypes`: the last id of the half is refused, not given. What a hart reads is a number: the
values of messages and of CSR writes are folds, over a sequence of bytes (`NumberType`) and over a
set of bits (`BitsType`), proved by a least counterexample among the sizes of the subsets that are
folded (`FoldStays` in `Fold_proofs`), after showing that the fold's recursive function exists
(`FoldExists`). From `ImageAssumption` a branch does not lead below 0 and an exit code is a natural number.

`Library_proofs`, for every message the types of `memory_protocol.hpp` allow, every sequence of bytes,
any two tags that differ and bytes of any width up to the code's 8, from `CallsAssumption` and
`PowersAssumption`:

* `MessagesExact`: `Spec => []MessagesReadBack`

`CallsAssumption` says that the calls of the runs are typed as the functions' parameters are;
`PowersAssumption` is a law of arithmetic, `2^((k + 1) b) = 2^b 2^(k b)` for the eight field widths,
which the prover does not know since it leaves powers with a symbolic exponent uninterpreted. The
run has short messages of small bytes; the theorem has data of any length, and so both sides of the 16-bit
size field. The argument:

* A field is read as the number that was written, if it fits (`ReadsNumber`), and written as the bytes
  it was read from (`WritesBytes`). Reading is a fold from the last byte; `LittleEndian` in `Fold_proofs`
  unfolds it to the partial numbers `v[i] = d[i] + R v[i + 1]`, which quotients by powers of the radix
  satisfy as well (`QuotientTwice`).
* Each field keeps its place when the following ones are appended (`Longer`, `KeepsOn`), so the decoder's
  offsets are those of the encoder (`RequestLayout`, `ResponseLayout`), also in a beginning of the message
  (`RequestPart`, `ResponsePart`).
* A beginning is refused because its data is shorter than the size that was sent (`RequestRead`,
  `ResponseRead`); data of 2^16 bytes and more is refused because two bytes never read as such a
  size (`ReadBounds`).
* What is accepted was encoded: the parts that are read make up the whole (`FieldWritten`,
  `WholeMessage`), so encoding restores them (`RequestRestored`, `ResponseRestored`).

The invariant, `MInv`, says that a call with a message returns what the function it names computes.

Only model-checked: everything temporal (`BusFairSpec`, `CongestionClears`, `ReassemblyFinishes`,
`Termination`, `ProgramsSucceed`), since the prover has neither fairness nor ENABLED (of
`BusFairSpec` the safety part is proved, for both buses); `ProgramsWithin`, the hypothesis of
`MemoryOrdered` and `TypeCorrect`, which is about the programs of a run; and the other thirteen laws
of the library. Most of it is bit arithmetic on `Words`, recursive and over small formats in the runs, and
not within reach of the solvers as theorems for every width.

## 5. Not modelled

Command lines, reports, scripts and experiments; the program image; statistics. Of the library:
disassembly and the test programs; of SoftFloat, the formats and multi-word helpers nothing
calls, and the ways in which the files of `float32_t` and `float64_t` hold wide products and
estimates, which are modelled by their results. Of the RV64 core, the pipeline (`Rv64Core`, with abstract
instructions) and what an instruction does (`CoreExecute`, one instruction at a time) are not
composed: the product of both state spaces is out of TLC's reach. In `Rv64Core`, illegal
instructions are one kind, and accesses to shared memory wider than a byte are covered by
`manycore` only. The documentation under `rv64-manycore-sim` (its `README.md` and
`docs/mmio-and-backpressure.md`) describes a window of depth 1 without CSRs; the code, like the
top-level README, has both, and the model follows the code. Command ids start at the upper half of
the id space so that they differ from the hart's own; the hart's ids wrap around into that half
after 2^31 requests, which is harmless because the two never wait at the same time
(`NoStolenResponse`, with ids modulo 2). The
wrap-around of 32-bit message ids is noted as a hazard without a property.

## 6. Plan

1. Buses and routing, the scripted system over the abstract bus; the shared bus's invariants
   proved. *Done.*
2. The RV64 hart, its window and the system of both, with windows of depth 1 and 2. *Done.*
3. The instruction set library, SoftFloat, the execution of instructions by the core, and the memory
   protocol. *Done.*
4. Proofs: the shared bus implements IBus; the scripted system's `NoUnexpectedResponse` and its
   refinement of AtomicMemory; the network's safety invariants, and that it implements IBus; routing.
   *Done.* So are the RV64 system's `NoStolenResponse`,
   `CommandsInOrder`, `FenceDrains` and `TypeOK`, and that it implements OrderedMemory; and
   that messages are read back as they were written.
