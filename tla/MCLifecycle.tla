----------------------------- MODULE MCLifecycle -----------------------------
(***************************************************************************)
(* Small instances of Lifecycle and of RoleIdling in one run: one role in  *)
(* detail, and two roles with the locks and the idle policy.  A behaviour  *)
(* moves only one of them; the roles move beside one initial state.        *)
(***************************************************************************)
EXTENDS Lifecycle, RoleIdling, TLC

CONSTANTS r1, o1, t1, t2, s1

Symmetry == Permutations(Requests) \cup Permutations(Operators) \cup Permutations(Turns)

BothInit == Init /\ IdleInit
BothNext ==
    \/ IdleInit /\ Next /\ UNCHANGED idleVars
    \/ Init /\ desired /\ unit = "active" /\ IdleNext /\ UNCHANGED vars
BothSpec == BothInit /\ [][BothNext]_<<vars, idleVars>>

=============================================================================
