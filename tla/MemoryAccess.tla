----------------------------- MODULE MemoryAccess -----------------------------
(***************************************************************************)
(* What an access does to a memory, for the abstract memories.             *)
(***************************************************************************)
EXTENDS Integers, Sequences

CONSTANTS
  Address, \* the addresses of the bytes
  Access   \* the accesses: op "Read" or "Write", address, size and data

Span(a) == a.address .. a.address + a.size - 1

\* The memory after access a, and what a returns.
Effect(m, a) ==
  IF a.op = "Write"
    THEN [x \in Address |-> IF x \in Span(a) THEN a.data[x - a.address + 1] ELSE m[x]]
    ELSE m
Result(m, a) ==
  IF a.op = "Read" THEN [i \in 1 .. a.size |-> m[a.address + i - 1]] ELSE <<>>
==============================================================================
