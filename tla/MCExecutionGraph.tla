-------------------------- MODULE MCExecutionGraph --------------------------
(***************************************************************************)
(* Every compile input is compiled; a few small graphs are executed.       *)
(***************************************************************************)
EXTENDS ExecutionGraph

Input(complexity, flags) == [complexity |-> complexity, flags |-> flags]

ToolLoop == Input("engineering", {"tools", "validation"})
Judging  == Input("critical", {"judge", "reviewer"})
Approved == Input("complex", {"approval"})
Joined   == Input("complex", {"planner", "reasoner"})
Tested   == Input("critical", {"judge", "reviewer", "tools", "validation"})
Backup   == Input("simple", {"fallback", "tools"})

AllInputs == CompileInput
Explored  == {ToolLoop, Judging, Approved, Joined, Backup, Tested}

Bound == [q \in AllInputs |-> IF q = Tested \/ Parallel(q) # {} THEN 2 ELSE 3]
=============================================================================
