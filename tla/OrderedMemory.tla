----------------------------- MODULE OrderedMemory -----------------------------
(***************************************************************************)
(* What a memory should be for harts that reach it along several paths and *)
(* may have several accesses under way on a path: the accesses of a hart   *)
(* take effect one by one in the order of their calls, whatever the path,  *)
(* each as a whole and after its call; and each path gets back what its    *)
(* accesses returned in the same order.                                    *)
(***************************************************************************)
EXTENDS MemoryAccess

CONSTANTS
  Hart,
  Path,
  Value(_) \* how a hart reads the bytes it gets

VARIABLES
  mem,     \* the bytes
  pending, \* per hart and path, the accesses called and not yet performed
  done     \* per hart and path, the values returned and not yet collected

vars == <<mem, pending, done>>

Init ==
  /\ mem = [x \in Address |-> 0]
  /\ pending = [h \in Hart |-> [p \in Path |-> <<>>]]
  /\ done = [h \in Hart |-> [p \in Path |-> <<>>]]

\* A hart does not overtake itself on another path.  (pending' # pending follows from
\* the last conjunct: TLC evaluates it first.)
Call(h, p) ==
  /\ \A q \in Path \ {p} : pending[h][q] = <<>>
  /\ pending' # pending
  /\ UNCHANGED <<mem, done>>
  /\ \E a \in Access : pending' = [pending EXCEPT ![h][p] = Append(@, a)]

Perform(h, p) ==
  /\ pending[h][p] # <<>>
  /\ LET a == Head(pending[h][p]) IN
       /\ mem' = Effect(mem, a)
       /\ done' = [done EXCEPT ![h][p] = Append(@, Value(Result(mem, a)))]
  /\ pending' = [pending EXCEPT ![h][p] = Tail(@)]

Collect(h, p) ==
  /\ done[h][p] # <<>>
  /\ done' = [done EXCEPT ![h][p] = Tail(@)]
  /\ UNCHANGED <<mem, pending>>

Next == \E h \in Hart, p \in Path : Call(h, p) \/ Perform(h, p) \/ Collect(h, p)

Spec == Init /\ [][Next]_vars
==============================================================================
