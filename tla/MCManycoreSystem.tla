--------------------------- MODULE MCManycoreSystem ---------------------------
(***************************************************************************)
(* Instances of ManycoreSystem for TLC.                                    *)
(***************************************************************************)
EXTENDS ManycoreSystem

Work(n) == [kind |-> "Compute", latency |-> n]
Load(a, n) == [kind |-> "Read", latency |-> 1, address |-> a, size |-> n, data |-> <<>>]
Store(a, d) == [kind |-> "Write", latency |-> 1, address |-> a, size |-> Len(d), data |-> d]
Stop == [kind |-> "Halt"]

\* Two bytes, written and read together and one by one.
Wide == Store(0, <<1, 1>>)
Ops == {Work(1), Work(2), Wide, Store(0, <<2>>), Load(0, 2), Load(0, 1), Stop}

\* One hart reads, one writes both bytes at once and one only the first.
Scripts == <<<<Load(0, 2), Work(2), Load(0, 1)>>, <<Wide, Stop, Work(1)>>,
             <<Store(0, <<2>>), Work(1)>>>>
ThreeHarts == {[h \in 0 .. 2 |-> Scripts[((h + r) % 3) + 1]] : r \in 0 .. 2}
==============================================================================
