----------------------------- MODULE MCSharedBus -----------------------------
(***************************************************************************)
(* Instances of SharedBus for TLC.                                         *)
(***************************************************************************)
EXTENDS SharedBus

\* The traffic of the simulated systems: the last port is the memory
\* controller, the others send it requests and get its responses.
Memory == N - 1
ClientFlows ==
  {<<p, Memory, Request>> : p \in Port \ {Memory}} \cup
  {<<Memory, p, Response>> : p \in Port \ {Memory}}

\* Any port sends requests to and responses to any port, itself included.
AllFlows == Port \X Port \X Channel
===============================================================================
