----------------------------- MODULE MCChatTurn -----------------------------
EXTENDS ChatTurn

CONSTANTS t1, t2

MCTurns == {t1, t2}

\* A turn whose review must not fail beside one that may go on without it.
MCKinds == [t \in MCTurns |-> IF t = t1 THEN {"high"} ELSE {"fast", "normal"}]

\* The two switches are looked at in different stages: two settings show both.
MCSettings == {[scheduled |-> TRUE, guarded |-> TRUE], [scheduled |-> FALSE, guarded |-> FALSE]}
=============================================================================
