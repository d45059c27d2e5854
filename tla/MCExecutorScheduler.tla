------------------------- MODULE MCExecutorScheduler -------------------------
(***************************************************************************)
(* A small instance of ExecutorScheduler: three keys, one of them with     *)
(* three turns, so that its queue of two can be full before the total is.  *)
(***************************************************************************)
EXTENDS ExecutorScheduler

CONSTANTS a, b, c, a1, a2, a3, b1, c1

MCRequests == {a1, a2, a3, b1, c1}
MCKeys == {a, b, c}
MCKeyOf == [r \in MCRequests |->
              CASE r \in {a1, a2, a3} -> a [] r = b1 -> b [] r = c1 -> c]

=============================================================================
