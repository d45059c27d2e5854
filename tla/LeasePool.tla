------------------------------ MODULE LeasePool ------------------------------
(***************************************************************************)
(* What the Executor scheduler promises its callers, with no queue, key or *)
(* turn in sight: a pool of Capacity local leases.  A turn is idle, waits  *)
(* for a lease, holds one, or was sent to the remote Executor.  A turn     *)
(* waits only while the pool is exhausted, and a lease given back while    *)
(* somebody waits goes to a waiter in the same step, so a slot is never    *)
(* idle while a turn waits for it.                                         *)
(***************************************************************************)
EXTENDS Naturals, FiniteSets

CONSTANTS Requests, Capacity

VARIABLE phase

Phases == {"idle", "waiting", "holding", "remote"}

Holders == {r \in Requests : phase[r] = "holding"}
Waiters == {r \in Requests : phase[r] = "waiting"}

PoolInit == phase = [r \in Requests |-> "idle"]

\* A turn gets a free lease; nobody may be waiting for it.
Grant(r) ==
    /\ phase[r] = "idle"
    /\ Cardinality(Holders) < Capacity /\ Waiters = {}
    /\ phase' = [phase EXCEPT ![r] = "holding"]

\* A turn that finds the pool exhausted waits.
Enqueue(r) ==
    /\ phase[r] = "idle"
    /\ Cardinality(Holders) = Capacity
    /\ phase' = [phase EXCEPT ![r] = "waiting"]

SendRemote(r) ==
    /\ phase[r] = "idle"
    /\ phase' = [phase EXCEPT ![r] = "remote"]

\* A waiting or remote turn leaves without touching a lease.
Leave(r) ==
    /\ phase[r] \in {"waiting", "remote"}
    /\ phase' = [phase EXCEPT ![r] = "idle"]

\* A holder gives its lease back: to a waiter if there is one.
Return(r) ==
    /\ phase[r] = "holding"
    /\ IF Waiters = {}
         THEN phase' = [phase EXCEPT ![r] = "idle"]
         ELSE \E w \in Waiters :
                phase' = [phase EXCEPT ![r] = "idle", ![w] = "holding"]

PoolNext ==
    \E r \in Requests :
        Grant(r) \/ Enqueue(r) \/ SendRemote(r) \/ Leave(r) \/ Return(r)

PoolSpec == PoolInit /\ [][PoolNext]_phase

=============================================================================
