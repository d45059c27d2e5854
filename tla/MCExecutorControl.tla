-------------------------- MODULE MCExecutorControl --------------------------
(***************************************************************************)
(* A small instance of ExecutorControl: the turns of one API key.          *)
(***************************************************************************)
EXTENDS ExecutorControl

CONSTANTS r1, r2, key

MCKeyOf == [r \in Requests |-> key]

=============================================================================
