---------------------------- MODULE MCAgentLoop ----------------------------
(* Two turns of a session that may overlap, and an operator. *)
EXTENDS AgentLoop, TLC

CONSTANTS t1, t2

MCSlots  == {t1, t2}
MCVerdicts == {"allow", "approve", "deny"}
MCSymmetry == Permutations(MCSlots)
MCBudget == [iterations |-> 2, tool_calls |-> 2, reviewer_calls |-> 1, expert_calls |-> 1]
=============================================================================
