----------------------------- MODULE AtomicMemory -----------------------------
(***************************************************************************)
(* What a memory shared by harts should be: every hart has at most one     *)
(* access under way, and each access takes effect as a whole, on all its   *)
(* bytes at once, at some moment between its call and its return.          *)
(***************************************************************************)
EXTENDS MemoryAccess

CONSTANT Hart

Quiet == [phase |-> "Quiet"]
Called(a) == [phase |-> "Called", access |-> a]
Done(a, r) == [phase |-> "Done", access |-> a, result |-> r]

VARIABLES
  mem,  \* the bytes
  call, \* per hart, its access
  last  \* per hart, what its last read returned

vars == <<mem, call, last>>

Init ==
  /\ mem = [x \in Address |-> 0]
  /\ call = [h \in Hart |-> Quiet]
  /\ last = [h \in Hart |-> <<>>]

Call(h) ==
  /\ call[h] = Quiet
  /\ \E a \in Access : call' = [call EXCEPT ![h] = Called(a)]
  /\ UNCHANGED <<mem, last>>

Perform(h) ==
  /\ call[h].phase = "Called"
  /\ LET a == call[h].access IN
       /\ mem' = Effect(mem, a)
       /\ call' = [call EXCEPT ![h] = Done(a, Result(mem, a))]
  /\ UNCHANGED last

Return(h) ==
  /\ call[h].phase = "Done"
  /\ call' = [call EXCEPT ![h] = Quiet]
  /\ last' = IF call[h].access.op = "Read"
               THEN [last EXCEPT ![h] = call[h].result] ELSE last
  /\ UNCHANGED mem

Next == \E h \in Hart : Call(h) \/ Perform(h) \/ Return(h)

Spec == Init /\ [][Next]_vars
==============================================================================
