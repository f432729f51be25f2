------------------------------ MODULE RoundRobin ------------------------------
(***************************************************************************)
(* Cyclic scanning.  Every arbiter of the simulator walks a table of n     *)
(* entries starting at a pointer,                                          *)
(*     for (k = 0; k < n; ++k) { i = (ptr + k) % n; if (ready(i)) ... }    *)
(* and takes the first entry that is ready.                                *)
(***************************************************************************)
EXTENDS Integers

\* The k at which the scan from ptr over entries 0..n-1 reaches entry i.
Distance(ptr, i, n) == IF i >= ptr THEN i - ptr ELSE i - ptr + n

\* The entry a pointer moves to after entry i has been served.
Successor(i, n) == IF i + 1 = n THEN 0 ELSE i + 1

\* Entry i is the one of the set ready that the scan from ptr meets first.
MetFirst(i, ptr, ready, n) ==
  /\ i \in ready
  /\ \A j \in ready : Distance(ptr, i, n) <= Distance(ptr, j, n)
===============================================================================
