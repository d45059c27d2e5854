--------------------------- MODULE GraphTemplates ---------------------------
(***************************************************************************)
(* compile_execution_graph: the execution graph of a request, as a pure    *)
(* function of the compile input.  A template holds each node type at most *)
(* once, so a node is named by its type; ids, providers and hashes are     *)
(* left out.  An edge says when it is taken (its type) and how often it    *)
(* may be taken again (max; 0 for an edge that is no part of a cycle).     *)
(***************************************************************************)
EXTENDS Naturals, FiniteSets

RetryLimit == 2

Complexities == {"simple", "engineering", "complex", "critical"}

Flags == {"reasoner", "planner", "frontier", "reviewer", "judge",
          "approval", "tools", "validation", "fallback"}

\* The fields of a compile input that choose nodes or edges.
CompileInput == [complexity : Complexities, flags : SUBSET Flags]

Edge(from, type, to)         == [from |-> from, type |-> type, to |-> to, max |-> 0]
Repeat(from, type, to)       == [Edge(from, type, to) EXCEPT !.max = RetryLimit]
EdgesTo(froms, type, to)     == {Edge(n, type, to) : n \in froms}

-----------------------------------------------------------------------------

\* The collaborators of the parallel group; the Executor gathers its evidence
\* beside them, and there is no group without one of them.
Collaborators(q) ==
    IF q.complexity = "simple" THEN {}
    ELSE {n \in {"REASONER", "PLANNER", "FRONTIER_A"} :
            \/ n = "REASONER" /\ "reasoner" \in q.flags
                              /\ q.complexity \in {"complex", "critical"}
            \/ n = "PLANNER" /\ "planner" \in q.flags
            \/ n = "FRONTIER_A" /\ "frontier" \in q.flags}

Parallel(q) ==
    IF Collaborators(q) = {} THEN {} ELSE Collaborators(q) \cup {"EXECUTOR_EVIDENCE"}

HasTool(q)     == "tools" \in q.flags
HasTest(q)     == "validation" \in q.flags
HasApproval(q) == "approval" \in q.flags
HasFallback(q) == "fallback" \in q.flags
HasReviewer(q) == "reviewer" \in q.flags /\ q.complexity # "simple"
HasJudge(q)    == "judge" \in q.flags /\ q.complexity = "critical"
HasFrontierB(q) == HasJudge(q) /\ "frontier" \in q.flags
HasCheckpoint(q) == q.complexity \in {"complex", "critical"}

Executors(q) == {"EXECUTOR_PRIMARY"} \cup (IF HasFallback(q) THEN {"EXECUTOR_FALLBACK"} ELSE {})

\* The nodes a model answers: a transient failure of theirs may be retried.
ProviderNodes(q) ==
    Parallel(q) \cup Executors(q)
      \cup (IF HasReviewer(q) THEN {"REVIEWER"} ELSE {})
      \cup (IF HasJudge(q) THEN {"JUDGE"} ELSE {})
      \cup (IF HasFrontierB(q) THEN {"FRONTIER_B"} ELSE {})

Nodes(q) ==
    {"CLASSIFY", "EXECUTOR_SELECT", "FINALIZE"} \cup ProviderNodes(q)
      \cup (IF Parallel(q) # {} THEN {"JOIN"} ELSE {})
      \cup (IF HasApproval(q) THEN {"POLICY_GATE", "HUMAN_APPROVAL"} ELSE {})
      \cup (IF HasTool(q) THEN {"TOOL"} ELSE {})
      \cup (IF HasTest(q) THEN {"TEST"} ELSE {})
      \cup (IF HasCheckpoint(q) THEN {"CHECKPOINT"} ELSE {})

\* From the classification to the selection of the Executor.
Gathered(q) == IF Parallel(q) = {} THEN "CLASSIFY" ELSE "JOIN"

LeadIn(q) ==
    {Edge("CLASSIFY", "ON_SUCCESS", n) : n \in Parallel(q)}
      \cup EdgesTo(Parallel(q), "ON_SUCCESS", "JOIN")
      \cup (IF HasApproval(q)
            THEN {Edge(Gathered(q), "ON_SUCCESS", "POLICY_GATE"),
                  Edge("POLICY_GATE", "ON_SUCCESS", "HUMAN_APPROVAL"),
                  Edge("HUMAN_APPROVAL", "ON_APPROVAL", "EXECUTOR_SELECT"),
                  Edge("HUMAN_APPROVAL", "ON_REJECTION", "FINALIZE")}
            ELSE {Edge(Gathered(q), "ON_SUCCESS", "EXECUTOR_SELECT")})

\* The Executor, its fallback, and the bounded cycle over tool and test.
\* A test that no tool precedes stands between the Executor and its review.
ExecutorPart(q) ==
    {Edge("EXECUTOR_SELECT", "ON_SUCCESS", "EXECUTOR_PRIMARY")}
      \cup (IF HasFallback(q)
            THEN {Edge("EXECUTOR_PRIMARY", "ON_FALLBACK", "EXECUTOR_FALLBACK")} ELSE {})
      \cup (IF HasTool(q)
            THEN EdgesTo(Executors(q), "ON_FINDING", "TOOL")
                 \cup {Repeat("TOOL", "ON_FINDING", "EXECUTOR_PRIMARY"),
                       Repeat("TOOL", "ON_FALLBACK", "EXECUTOR_PRIMARY"),
                       Edge("TOOL", "ON_BUDGET", "FINALIZE")} ELSE {})
      \cup (IF HasTool(q) /\ HasTest(q)
            THEN {Edge("TOOL", "ON_SUCCESS", "TEST"),
                  Repeat("TEST", "ON_FINDING", "EXECUTOR_PRIMARY"),
                  Edge("TEST", "ON_BUDGET", "FINALIZE")} ELSE {})
      \cup (IF HasTest(q) /\ ~HasTool(q)
            THEN EdgesTo(Executors(q), "ON_SUCCESS", "TEST") ELSE {})

\* Review, judgement, checkpoint and the end.
Answered(q) == IF HasTest(q) /\ ~HasTool(q) THEN {"TEST"} ELSE Executors(q)
Reviewed(q) == IF HasReviewer(q) THEN {"REVIEWER"} ELSE Answered(q)
Judged(q)   == IF HasJudge(q) THEN {"JUDGE"} ELSE Reviewed(q)

ReviewPart(q) ==
    (IF HasReviewer(q) THEN EdgesTo(Answered(q), "ON_SUCCESS", "REVIEWER") ELSE {})
      \cup (IF HasReviewer(q) /\ q.complexity = "critical"
            THEN {Repeat("REVIEWER", "ON_FINDING", "EXECUTOR_PRIMARY"),
                  Edge("REVIEWER", "ON_NO_PROGRESS", "FINALIZE"),
                  Edge("REVIEWER", "ON_BUDGET", "FINALIZE")} ELSE {})
      \cup (IF HasReviewer(q) /\ HasJudge(q)
            THEN {Edge("REVIEWER", "ON_APPROVAL", "CHECKPOINT")} ELSE {})
      \cup (IF HasJudge(q)
            THEN EdgesTo(Reviewed(q), "ON_SUCCESS", "JUDGE")
                 \cup {Edge("JUDGE", "ON_REJECTION", "FINALIZE")}
                 \cup (IF HasFrontierB(q)
                       THEN {Edge("JUDGE", "ON_FINDING", "FRONTIER_B"),
                             Edge("FRONTIER_B", "ON_SUCCESS", "CHECKPOINT"),
                             Repeat("FRONTIER_B", "ON_FINDING", "EXECUTOR_PRIMARY")}
                       ELSE {Repeat("JUDGE", "ON_FINDING", "EXECUTOR_PRIMARY")})
            ELSE {})

ClosingPart(q) ==
    IF HasCheckpoint(q)
    THEN EdgesTo(Judged(q), "ON_SUCCESS", "CHECKPOINT")
         \cup {Edge("CHECKPOINT", "ON_CHECKPOINT", "FINALIZE")}
    ELSE EdgesTo(Judged(q), "ON_SUCCESS", "FINALIZE")

\* Mutant: a node that may be retried has no failure edge.
FailurePartRetryOnly(q) ==
    {Repeat(n, "ON_RETRYABLE_FAILURE", n) : n \in ProviderNodes(q)}
      \cup EdgesTo(Nodes(q) \ ({"FINALIZE"} \cup ProviderNodes(q)), "ON_FAILURE", "FINALIZE")

\* A retry edge for every provider, a failure edge for every node but the last.
FailurePart(q) ==
    {Repeat(n, "ON_RETRYABLE_FAILURE", n) : n \in ProviderNodes(q)}
      \cup EdgesTo(Nodes(q) \ {"FINALIZE"}, "ON_FAILURE", "FINALIZE")

Edges(q) == LeadIn(q) \cup ExecutorPart(q) \cup ReviewPart(q)
              \cup ClosingPart(q) \cup FailurePart(q)

Outgoing(q, n) == {e \in Edges(q) : e.from = n}
Incoming(q, n) == {e \in Edges(q) : e.to = n}

-----------------------------------------------------------------------------

\* The nodes reachable from `from` along `edges`.
ReachableFrom(from, edges) ==
    LET longest == Cardinality({e.to : e \in edges})
        step[k \in 0..longest] ==
            IF k = 0 THEN from
            ELSE LET before == step[k - 1]
                 IN  before \cup {e.to : e \in {d \in edges : d.from \in before}}
    IN  step[longest]

\* ExecutionGraphRuntime._descendants: what follows from a node, leaving out
\* retries and findings.
Descendants(q, n) ==
    ReachableFrom({n}, {e \in Edges(q) : e.type \notin {"ON_RETRYABLE_FAILURE", "ON_FINDING"}})

\* ExecutionGraph.structurally_valid and _require_acyclic_base.
RepairSources == {"REVIEWER", "JUDGE", "FRONTIER_B", "TOOL", "TEST"}

EdgeIsLegal(e) ==
    CASE e.type = "ON_RETRYABLE_FAILURE" -> e.from = e.to /\ e.max = RetryLimit
      [] e.type = "ON_FINDING" /\ e.max > 0 ->
            e.from \in RepairSources /\ e.to = "EXECUTOR_PRIMARY"
      [] e.type = "ON_FALLBACK" /\ e.max > 0 ->
            e.from = "TOOL" /\ e.to = "EXECUTOR_PRIMARY"
      [] OTHER -> e.max = 0 /\ e.from # e.to

AcyclicBase(q) ==
    LET base == {e \in Edges(q) : e.max = 0}
    IN  \A n \in Nodes(q) :
            n \notin ReachableFrom({e.to : e \in {d \in base : d.from = n}}, base)

StructurallyValid(q) ==
    /\ \A e \in Edges(q) : {e.from, e.to} \subseteq Nodes(q) /\ EdgeIsLegal(e)
    /\ AcyclicBase(q)
    /\ ReachableFrom({"CLASSIFY"}, Edges(q)) = Nodes(q)
=============================================================================
