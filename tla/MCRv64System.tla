----------------------------- MODULE MCRv64System -----------------------------
(***************************************************************************)
(* Instances of Rv64System for TLC: programs like those of the examples    *)
(* directory, that check what they read and stop with code 1 if it is not  *)
(* what they wrote.  Each hart has a byte of its own, 0 and 1, and byte 2  *)
(* is ToHost.                                                              *)
(***************************************************************************)
EXTENDS Rv64System

Instr(kind) == [kind |-> kind, latency |-> 1]
Compute(n) == [kind |-> "Compute", latency |-> n]
FenceI == Instr("Fence")
Illegal == Instr("Illegal")
Stop(c) == [kind |-> "Stop", latency |-> 1, code |-> c]
Jump(n, S) == [kind |-> "Branch", latency |-> 1, offset |-> n, taken |-> S]
Expect(v) == <<Jump(2, {v}), Stop(1)>>
Reading(a, n) == [address |-> a, size |-> n, data |-> <<>>]
Writing(a, d) == [address |-> a, size |-> Len(d), data |-> d]
Load(a, n) == [kind |-> "Load", latency |-> 1, parts |-> <<Reading(a, n)>>]
Store(a, d) == [kind |-> "Store", latency |-> 1, parts |-> <<Writing(a, d)>>]
VLoad(ps) == [kind |-> "VLoad", latency |-> 1, parts |-> ps]
VStore(ps) == [kind |-> "VStore", latency |-> 1, parts |-> ps]
Csr(r, m, v) == [kind |-> "Csr", latency |-> 1, register |-> r, mode |-> m, source |-> v]
Get(r) == Load(WindowBase + r, 8)
Put(r, v) == Store(WindowBase + r, BytesOf(v, 8))
CsrGet(r) == Csr(r, "Set", 0)
CsrPut(r, v) == Csr(r, "Swap", v)

\* A write and a read of byte 0 through the window, polled, as in mmio_bus_smoke.S.
Polls ==
  <<Put(Target, 0), Put(WriteData, 1), Put(Size, 1), Put(Command, 2),
    Get(Status), Jump(-1, {1, 3, 5, 7}), Put(Command, 1), FenceI, Get(ReadData)>>
  \o Expect(1) \o <<Stop(0)>>

\* Vector accesses and commands in turn, ended through ToHost while a command is
\* under way.
Mixes ==
  <<VStore(<<Writing(1, <<0>>), Writing(3, <<1>>)>>), CsrPut(Target, 3), CsrPut(Size, 1),
    CsrPut(Command, 1), CsrPut(Command, 2), VLoad(<<Reading(1, 1)>>), VLoad(<<>>),
    Load(3, 1)>> \o Expect(1) \o <<CsrPut(Command, 1), Compute(2), Store(2, <<1>>)>>

\* As in csr_bus_smoke.S: commands one after another, a fence, the results in
\* order.  The third command finds the window full of results, the last one finds no id.
Queues ==
  <<CsrPut(Size, 1), CsrPut(Target, 0), CsrPut(WriteData, 1),
    CsrPut(Command, 2), CsrPut(Command, 1), FenceI, CsrPut(Command, 1),
    CsrGet(ResultId)>> \o Expect(IdSpace \div 2)
  \o <<CsrPut(Pop, 1), CsrGet(ReadData)>> \o Expect(1)
  \o <<CsrPut(Pop, 1), CsrGet(Status)>> \o Expect(4)
  \o <<CsrPut(Status, 4), CsrPut(Command, 1), CsrPut(Command, 2), Get(Outstanding), Stop(0)>>

\* A load after a command sees what the command wrote; the hart halts with a
\* command under way.
Leaves ==
  <<VStore(<<Writing(3, <<1>>), Writing(1, <<0>>)>>),
    Put(Size, 1), Put(Target, 1), Put(WriteData, 1), Put(Command, 2), Load(1, 1)>>
  \o Expect(1) \o <<Put(Target, 3), Put(Command, 2), Stop(0)>>

\* Programs that fault: a vector access that runs into the window, a register that cannot be
\* read or written, an unsupported instruction, and one that runs off its image.
Starting == <<CsrPut(Size, 1), CsrPut(Command, 1)>>
Faulting ==
  <<Starting \o <<VLoad(<<Reading(3, 1), Reading(WindowBase, 8)>>)>>, Starting \o <<Get(Pop)>>,
    Starting \o <<Put(ResultStatus, 0)>>, Starting \o <<CsrPut(ReadData, 1)>>,
    Starting \o <<Illegal>>, Starting>>

Parts == <<Polls, Mixes, Queues, Leaves>> \o Faulting
WholeImage == FlattenSeq(Parts)
EntryOf(n) == 1 + Len(FlattenSeq(SubSeq(Parts, 1, n - 1)))
FirstFaulting == EntryOf(5)

Pair(m, n) == [h \in {0, 1} |-> EntryOf(IF h = 0 THEN m ELSE n)]
SingleEntries == {Pair(1, 2)} \cup {Pair(2, n) : n \in 5 .. 10}
QueueEntries == {Pair(3, 4)}

(***************************************************************************)
(* Every run of programs that poll and fence ends: the fence, the polled   *)
(* window, the port they share and the memory cannot wait for each other.  *)
(* When it ends the programs have found in memory and in the window what   *)
(* they expect, the run reports success unless a program itself faults,    *)
(* and nothing is left under way.                                          *)
(***************************************************************************)
ProgramsSucceed ==
  <>(/\ Drained
     /\ Succeeded \/ \E h \in Hart : core[h].pc >= FirstFaulting /\ State(h) = "Faulted")
==============================================================================
