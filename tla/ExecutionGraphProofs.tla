------------------------ MODULE ExecutionGraphProofs ------------------------
(***************************************************************************)
(* The execution graph, proved for every compile input, every attempt and  *)
(* tool budget and any number of restarts, with torn writes or without.    *)
(* GraphInv is the inductive invariant: the types, the disk against the    *)
(* memory, the join against its branches, and the approval against what    *)
(* comes after it.  AttemptInv adds the attempts: which may be live beside *)
(* each other and the core, and what the repetitions have cost.  LeadFits  *)
(* adds the way to the terminal node: whatever is done leads on.           *)
(***************************************************************************)
EXTENDS ExecutionGraph, FiniteSetTheorems, WellFoundedInduction, SequenceTheorems, TLAPS

(***************************************************************************)
(* The graphs the compiler builds                                          *)
(* What an edge of any compiled graph may look like, proved part by part   *)
(* as compile_execution_graph adds them, and what follows from a node.     *)
(***************************************************************************)
\* The nodes before the selection of the Executor.
Ahead(q) == {"CLASSIFY", "JOIN", "POLICY_GATE", "HUMAN_APPROVAL"} \cup Parallel(q)

\* The parallel group has no other members.
LEMMA BranchNames ==
    ASSUME NEW q
    PROVE  Parallel(q) \subseteq {"REASONER", "PLANNER", "FRONTIER_A", "EXECUTOR_EVIDENCE"}
BY SMT DEF Parallel, Collaborators

\* What every edge of a compiled graph looks like, as far as the proofs need it.
Sound(q, f, y, t, m) ==
    /\ f \in Nodes(q) /\ t \in Nodes(q)
    /\ f # "FINALIZE" /\ t # "CLASSIFY"
    /\ t = "JOIN" => f \in Parallel(q) /\ y = "ON_SUCCESS" /\ m = 0
    /\ f \in Parallel(q) =>
         \/ y = "ON_SUCCESS" /\ t = "JOIN" /\ m = 0
         \/ y = "ON_RETRYABLE_FAILURE" /\ t = f
         \/ y = "ON_FAILURE" /\ t = "FINALIZE"
    /\ t \in Parallel(q) => f = "CLASSIFY" \/ (y = "ON_RETRYABLE_FAILURE" /\ t = f)
    /\ f \notin Ahead(q) => t \notin Ahead(q)
    /\ HasApproval(q) /\ t \notin Ahead(q) \cup {"FINALIZE"} =>
         f \notin Ahead(q) \/ (f = "HUMAN_APPROVAL" /\ t = "EXECUTOR_SELECT")
    /\ y = "ON_FALLBACK" => \/ f = "EXECUTOR_PRIMARY" /\ t = "EXECUTOR_FALLBACK" /\ m = 0
                            \/ f = "TOOL" /\ t = "EXECUTOR_PRIMARY" /\ m = RetryLimit
    /\ y = "ON_FINDING" => f \notin Ahead(q)
    /\ m > 0 => y \in {"ON_RETRYABLE_FAILURE", "ON_FALLBACK", "ON_FINDING"} /\ m = RetryLimit
    /\ y = "ON_RETRYABLE_FAILURE" => t = f /\ m = RetryLimit
    /\ m > 0 /\ y # "ON_RETRYABLE_FAILURE" => t = "EXECUTOR_PRIMARY"
    /\ y = "ON_FINDING" /\ t = "EXECUTOR_PRIMARY" => m = RetryLimit
    /\ y = "ON_FAILURE" => t = "FINALIZE"
    /\ y = "ON_RETRYABLE_FAILURE" => f # "CHECKPOINT"
    /\ y = "ON_FINDING" => /\ t \in {"EXECUTOR_PRIMARY", "TOOL", "FRONTIER_B"}
                           /\ t = "TOOL" => f \in Executors(q)
    /\ f \in {"FRONTIER_B", "CHECKPOINT"} /\ y \notin {"ON_RETRYABLE_FAILURE", "ON_FINDING"} =>
         t \in {"CHECKPOINT", "FINALIZE"}
    /\ Parallel(q) # {} /\ t \notin {"JOIN", "FINALIZE"} \cup Parallel(q) =>
         f \notin {"CLASSIFY"} \cup Parallel(q)
    /\ t = "FINALIZE" /\ y = "ON_SUCCESS" =>
         ~HasCheckpoint(q) /\ f \in Judged(q)

\* An edge is a record with one of the two bounds, and sound.
WellMade(q, e) ==
   /\ e = [from |-> e.from, type |-> e.type, to |-> e.to, max |-> e.max]
   /\ e.max \in {0, RetryLimit}
   /\ Sound(q, e.from, e.type, e.to, e.max)

\* Edge and Repeat build such edges.
LEMMA EdgeMade ==
    ASSUME NEW q, NEW f, NEW y, NEW t, Sound(q, f, y, t, 0)
    PROVE  WellMade(q, Edge(f, y, t))
BY DEF WellMade, Edge

\* An edge that may be taken again is well made when it is sound with the limit.
LEMMA RepeatMade ==
    ASSUME NEW q, NEW f, NEW y, NEW t, Sound(q, f, y, t, RetryLimit)
    PROVE  WellMade(q, Repeat(f, y, t))
<1>1. Repeat(f, y, t) = [from |-> f, type |-> y, to |-> t, max |-> RetryLimit]
  BY DEF Repeat, Edge
<1> QED BY <1>1 DEF WellMade

\* Which nodes a compiled graph has.
LEMMA NodeFacts == ASSUME NEW q PROVE
    /\ {"CLASSIFY", "EXECUTOR_SELECT", "FINALIZE", "EXECUTOR_PRIMARY"} \subseteq Nodes(q)
    /\ Parallel(q) \subseteq Nodes(q) /\ Executors(q) \subseteq Nodes(q)
    /\ Parallel(q) # {} => "JOIN" \in Nodes(q)
    /\ HasApproval(q) => {"POLICY_GATE", "HUMAN_APPROVAL"} \subseteq Nodes(q)
    /\ HasTool(q) => "TOOL" \in Nodes(q)
    /\ HasTest(q) => "TEST" \in Nodes(q)
    /\ HasReviewer(q) => "REVIEWER" \in Nodes(q)
    /\ HasJudge(q) => "JUDGE" \in Nodes(q)
    /\ HasFrontierB(q) => "FRONTIER_B" \in Nodes(q) /\ HasJudge(q)
    /\ HasCheckpoint(q) => "CHECKPOINT" \in Nodes(q)
    /\ HasFallback(q) => "EXECUTOR_FALLBACK" \in Nodes(q)
    /\ ProviderNodes(q) \subseteq Nodes(q)
BY SMT DEF Nodes, ProviderNodes, Executors, HasFrontierB

\* The edges from the classification to the selection of the Executor.
LEMMA LeadInMade == ASSUME NEW q, NEW e \in LeadIn(q) PROVE WellMade(q, e)
<1> USE NodeFacts, BranchNames
<1>1. ASSUME NEW n \in Parallel(q)
      PROVE WellMade(q, Edge("CLASSIFY", "ON_SUCCESS", n)) /\ WellMade(q, Edge(n, "ON_SUCCESS", "JOIN"))
  <2>1. Sound(q, "CLASSIFY", "ON_SUCCESS", n, 0)
    BY DEF Sound, Ahead
  <2>2. Sound(q, n, "ON_SUCCESS", "JOIN", 0)
    BY DEF Sound, Ahead
  <2> QED BY <2>1, <2>2, EdgeMade
<1>2. \/ \E n \in Parallel(q) : e = Edge("CLASSIFY", "ON_SUCCESS", n)
      \/ \E n \in Parallel(q) : e = Edge(n, "ON_SUCCESS", "JOIN")
      \/ HasApproval(q) /\ e \in {Edge(Gathered(q), "ON_SUCCESS", "POLICY_GATE"),
                                Edge("POLICY_GATE", "ON_SUCCESS", "HUMAN_APPROVAL"),
                                Edge("HUMAN_APPROVAL", "ON_APPROVAL", "EXECUTOR_SELECT"),
                                Edge("HUMAN_APPROVAL", "ON_REJECTION", "FINALIZE")}
      \/ ~HasApproval(q) /\ e = Edge(Gathered(q), "ON_SUCCESS", "EXECUTOR_SELECT")
  BY Zenon DEF LeadIn, EdgesTo
<1>3. CASE HasApproval(q)
  <2>1. Sound(q, Gathered(q), "ON_SUCCESS", "POLICY_GATE", 0)
    BY <1>3 DEF Sound, Ahead, Gathered
  <2>2. Sound(q, "POLICY_GATE", "ON_SUCCESS", "HUMAN_APPROVAL", 0)
    BY <1>3 DEF Sound, Ahead
  <2>3. Sound(q, "HUMAN_APPROVAL", "ON_APPROVAL", "EXECUTOR_SELECT", 0)
    BY <1>3 DEF Sound, Ahead
  <2>4. Sound(q, "HUMAN_APPROVAL", "ON_REJECTION", "FINALIZE", 0)
    BY <1>3 DEF Sound, Ahead
  <2> QED BY <1>1, <1>2, <1>3, <2>1, <2>2, <2>3, <2>4, EdgeMade
<1>4. CASE ~HasApproval(q)
  <2>1. Sound(q, Gathered(q), "ON_SUCCESS", "EXECUTOR_SELECT", 0)
    BY <1>4 DEF Sound, Ahead, Gathered
  <2> QED BY <1>1, <1>2, <1>4, <2>1, EdgeMade
<1> QED BY <1>3, <1>4

\* The edges of the Executor, its fallback, the tool and the test.
LEMMA ExecutorPartMade == ASSUME NEW q, NEW e \in ExecutorPart(q) PROVE WellMade(q, e)
<1> USE NodeFacts, BranchNames
<1>1. ASSUME NEW n \in Executors(q)
      PROVE  /\ HasTool(q) => Sound(q, n, "ON_FINDING", "TOOL", 0)
             /\ HasTest(q) => Sound(q, n, "ON_SUCCESS", "TEST", 0)
  BY DEF Sound, Ahead, Executors
<1>2. /\ Sound(q, "EXECUTOR_SELECT", "ON_SUCCESS", "EXECUTOR_PRIMARY", 0)
      /\ HasFallback(q) => Sound(q, "EXECUTOR_PRIMARY", "ON_FALLBACK", "EXECUTOR_FALLBACK", 0)
  BY DEF Sound, Ahead
<1>3. ASSUME HasTool(q)
      PROVE  /\ Sound(q, "TOOL", "ON_FINDING", "EXECUTOR_PRIMARY", RetryLimit)
             /\ Sound(q, "TOOL", "ON_FALLBACK", "EXECUTOR_PRIMARY", RetryLimit)
             /\ Sound(q, "TOOL", "ON_BUDGET", "FINALIZE", 0)
             /\ HasTest(q) => Sound(q, "TOOL", "ON_SUCCESS", "TEST", 0)
  BY <1>3 DEF Sound, Ahead
<1>4. ASSUME HasTest(q)
      PROVE  /\ Sound(q, "TEST", "ON_FINDING", "EXECUTOR_PRIMARY", RetryLimit)
             /\ Sound(q, "TEST", "ON_BUDGET", "FINALIZE", 0)
  BY <1>4 DEF Sound, Ahead
<1>5. \/ e = Edge("EXECUTOR_SELECT", "ON_SUCCESS", "EXECUTOR_PRIMARY")
      \/ HasFallback(q) /\ e = Edge("EXECUTOR_PRIMARY", "ON_FALLBACK", "EXECUTOR_FALLBACK")
      \/ HasTool(q) /\ \E n \in Executors(q) : e = Edge(n, "ON_FINDING", "TOOL")
      \/ HasTool(q) /\ e \in {Repeat("TOOL", "ON_FINDING", "EXECUTOR_PRIMARY"),
                             Repeat("TOOL", "ON_FALLBACK", "EXECUTOR_PRIMARY"),
                             Edge("TOOL", "ON_BUDGET", "FINALIZE")}
      \/ HasTool(q) /\ HasTest(q) /\ e \in {Edge("TOOL", "ON_SUCCESS", "TEST"),
                                          Repeat("TEST", "ON_FINDING", "EXECUTOR_PRIMARY"),
                                          Edge("TEST", "ON_BUDGET", "FINALIZE")}
      \/ HasTest(q) /\ \E n \in Executors(q) : e = Edge(n, "ON_SUCCESS", "TEST")
  BY Zenon DEF ExecutorPart, EdgesTo
<1> QED BY <1>1, <1>2, <1>3, <1>4, <1>5, EdgeMade, RepeatMade

\* Whoever answers, reviews or judges comes after the selection of the Executor.
LEMMA AnsweredFacts == ASSUME NEW q PROVE
    /\ Answered(q) \subseteq Nodes(q) /\ Reviewed(q) \subseteq Nodes(q) /\ Judged(q) \subseteq Nodes(q)
    /\ \A n \in Answered(q) \cup Reviewed(q) \cup Judged(q) :
          n \notin Ahead(q) \cup {"FINALIZE", "FRONTIER_B", "CHECKPOINT"}
BY NodeFacts, BranchNames DEF Answered, Reviewed, Judged, Executors, Ahead

\* The edges of the review and the judgement.
LEMMA ReviewPartMade == ASSUME NEW q, NEW e \in ReviewPart(q) PROVE WellMade(q, e)
<1> USE NodeFacts, BranchNames
<1>1. ASSUME NEW n \in Answered(q), HasReviewer(q) PROVE Sound(q, n, "ON_SUCCESS", "REVIEWER", 0)
  BY <1>1, AnsweredFacts DEF Sound, Ahead
<1>2. ASSUME HasReviewer(q)
      PROVE  /\ Sound(q, "REVIEWER", "ON_FINDING", "EXECUTOR_PRIMARY", RetryLimit)
             /\ Sound(q, "REVIEWER", "ON_NO_PROGRESS", "FINALIZE", 0)
             /\ Sound(q, "REVIEWER", "ON_BUDGET", "FINALIZE", 0)
  BY <1>2 DEF Sound, Ahead
<1>3. ASSUME HasReviewer(q), HasCheckpoint(q)
      PROVE  Sound(q, "REVIEWER", "ON_APPROVAL", "CHECKPOINT", 0)
  BY <1>3 DEF Sound, Ahead
<1>4. ASSUME NEW n \in Reviewed(q), HasJudge(q) PROVE Sound(q, n, "ON_SUCCESS", "JUDGE", 0)
  BY <1>4, AnsweredFacts DEF Sound, Ahead
<1>5. ASSUME HasJudge(q)
      PROVE  /\ Sound(q, "JUDGE", "ON_REJECTION", "FINALIZE", 0)
             /\ Sound(q, "JUDGE", "ON_FINDING", "EXECUTOR_PRIMARY", RetryLimit)
  BY <1>5 DEF Sound, Ahead
<1>6. ASSUME HasFrontierB(q), HasCheckpoint(q)
      PROVE  /\ Sound(q, "JUDGE", "ON_FINDING", "FRONTIER_B", 0)
             /\ Sound(q, "FRONTIER_B", "ON_SUCCESS", "CHECKPOINT", 0)
             /\ Sound(q, "FRONTIER_B", "ON_FINDING", "EXECUTOR_PRIMARY", RetryLimit)
  BY <1>6 DEF Sound, Ahead
<1>7. HasJudge(q) => HasCheckpoint(q)
  BY DEF HasJudge, HasCheckpoint
<1>8. \/ HasReviewer(q) /\ \E n \in Answered(q) : e = Edge(n, "ON_SUCCESS", "REVIEWER")
      \/ HasReviewer(q) /\ e \in {Repeat("REVIEWER", "ON_FINDING", "EXECUTOR_PRIMARY"),
                                 Edge("REVIEWER", "ON_NO_PROGRESS", "FINALIZE"),
                                 Edge("REVIEWER", "ON_BUDGET", "FINALIZE")}
      \/ HasReviewer(q) /\ HasJudge(q) /\ e = Edge("REVIEWER", "ON_APPROVAL", "CHECKPOINT")
      \/ HasJudge(q) /\ \E n \in Reviewed(q) : e = Edge(n, "ON_SUCCESS", "JUDGE")
      \/ HasJudge(q) /\ e = Edge("JUDGE", "ON_REJECTION", "FINALIZE")
      \/ HasJudge(q) /\ HasFrontierB(q) /\ e \in {Edge("JUDGE", "ON_FINDING", "FRONTIER_B"),
                                  Edge("FRONTIER_B", "ON_SUCCESS", "CHECKPOINT"),
                                  Repeat("FRONTIER_B", "ON_FINDING", "EXECUTOR_PRIMARY")}
      \/ HasJudge(q) /\ e = Repeat("JUDGE", "ON_FINDING", "EXECUTOR_PRIMARY")
  BY Zenon DEF ReviewPart, EdgesTo
<1> QED BY <1>1, <1>2, <1>3, <1>4, <1>5, <1>6, <1>7, <1>8, EdgeMade, RepeatMade

\* The edges to the checkpoint and the end.
LEMMA ClosingPartMade == ASSUME NEW q, NEW e \in ClosingPart(q) PROVE WellMade(q, e)
<1>1. ASSUME NEW n \in Judged(q)
      PROVE  /\ HasCheckpoint(q) => Sound(q, n, "ON_SUCCESS", "CHECKPOINT", 0)
             /\ ~HasCheckpoint(q) => Sound(q, n, "ON_SUCCESS", "FINALIZE", 0)
  BY AnsweredFacts, NodeFacts, BranchNames DEF Sound, Ahead
<1>2. HasCheckpoint(q) => Sound(q, "CHECKPOINT", "ON_CHECKPOINT", "FINALIZE", 0)
  BY NodeFacts, BranchNames DEF Sound, Ahead
<1>3. \/ HasCheckpoint(q) /\ \E n \in Judged(q) : e = Edge(n, "ON_SUCCESS", "CHECKPOINT")
      \/ HasCheckpoint(q) /\ e = Edge("CHECKPOINT", "ON_CHECKPOINT", "FINALIZE")
      \/ ~HasCheckpoint(q) /\ \E n \in Judged(q) : e = Edge(n, "ON_SUCCESS", "FINALIZE")
  BY Zenon DEF ClosingPart, EdgesTo
<1> QED BY <1>1, <1>2, <1>3, EdgeMade

\* The retry edges and the failure edges.
LEMMA FailurePartMade == ASSUME NEW q, NEW e \in FailurePart(q) PROVE WellMade(q, e)
<1>1. ASSUME NEW n \in ProviderNodes(q) PROVE Sound(q, n, "ON_RETRYABLE_FAILURE", n, RetryLimit)
  <2>1. n \in Nodes(q) /\ n \notin {"FINALIZE", "CLASSIFY", "JOIN", "POLICY_GATE",
        "HUMAN_APPROVAL", "CHECKPOINT"}
    BY NodeFacts, BranchNames DEF ProviderNodes, Executors
  <2> QED BY <2>1, NodeFacts, BranchNames DEF Sound, Ahead
<1>2. ASSUME NEW n \in Nodes(q) \ {"FINALIZE"} PROVE Sound(q, n, "ON_FAILURE", "FINALIZE", 0)
  BY NodeFacts, BranchNames DEF Sound, Ahead
<1>3. \/ \E n \in ProviderNodes(q) : e = Repeat(n, "ON_RETRYABLE_FAILURE", n)
      \/ \E n \in Nodes(q) \ {"FINALIZE"} : e = Edge(n, "ON_FAILURE", "FINALIZE")
  BY Zenon DEF FailurePart, EdgesTo
<1> QED BY <1>1, <1>2, <1>3, EdgeMade, RepeatMade

\* Every edge of a compiled graph is well made.
LEMMA EdgesMade == ASSUME NEW q, NEW e \in Edges(q) PROVE WellMade(q, e)
BY LeadInMade, ExecutorPartMade, ReviewPartMade, ClosingPartMade, FailurePartMade, Zenon DEF Edges

\* A set of natural numbers with zero and every successor is all of them.
LEMMA AllNumbers ==
    ASSUME NEW T, T \subseteq Nat, 0 \in T, \A n \in T : n + 1 \in T
    PROVE  T = Nat
<1> SUFFICES ASSUME Nat \ T # {} PROVE FALSE
  OBVIOUS
<1>1. \E n \in Nat \ T : \A m \in Nat \ T : <<m, n>> \notin OpToRel(<, Nat)
  BY NatLessThanWellFounded, WFMin, Nat \ T \subseteq Nat, Zenon
<1>2. PICK n \in Nat \ T : \A m \in Nat \ T : ~(m < n)
  BY <1>1 DEF OpToRel
<1>3. n # 0 /\ n - 1 \in Nat /\ n - 1 < n /\ (n - 1) + 1 = n
  BY <1>2
<1>4. n - 1 \in T
  BY <1>2, <1>3
<1> QED BY <1>2, <1>3, <1>4

\* What one round of the search adds.
Widened(S, edges) == S \cup {e.to : e \in {d \in edges : d.from \in S}}
Longest(edges) == Cardinality({e.to : e \in edges})

\* The rounds of the search ReachableFrom runs: it begins with the start and adds,
\* until there were as many rounds as targets, what the edges lead to.
Searches(g, from, edges) ==
    /\ g[0] = from /\ g[Longest(edges)] = ReachableFrom(from, edges)
    /\ \A n \in Nat : n < Longest(edges) => g[n + 1] = Widened(g[n], edges)

\* There are such rounds, for finitely many targets.
LEMMA Rounds ==
    ASSUME NEW from, NEW edges, IsFiniteSet({e.to : e \in edges})
    PROVE  /\ Longest(edges) \in Nat /\ (edges # {} => Longest(edges) > 0)
           /\ \E g : Searches(g, from, edges)
<1> DEFINE targets == {e.to : e \in edges}
           N == Cardinality(targets)
           next(S) == S \cup {e.to : e \in {d \in edges : d.from \in S}}
           IsStep(g, n) == g = [k \in 0..n |-> IF k = 0 THEN from ELSE next(g[k - 1])]
<1>1. N \in Nat /\ (edges # {} => N > 0)
  <2>1. IsFiniteSet(targets) /\ (edges # {} => targets # {})
    OBVIOUS
  <2> HIDE DEF targets
  <2> QED BY <2>1, FS_CardinalityType, FS_EmptySet
<1> HIDE DEF N
<1>2. \E g : IsStep(g, N)
  <2> DEFINE T == {n \in Nat : \E g : IsStep(g, n)}
  <2>1. 0 \in T
    <3>1. IsStep([k \in 0..0 |-> from], 0)
      OBVIOUS
    <3> QED BY <3>1
  <2>2. ASSUME NEW n \in T PROVE n + 1 \in T
    <3>1. PICK g : IsStep(g, n)
      OBVIOUS
    <3> DEFINE h == [k \in 0..(n + 1) |-> IF k = 0 THEN from ELSE next(g[k - 1])]
    <3>2. n \in Nat /\ \A k \in 0..n : h[k] = g[k]
      <4> HIDE DEF next
      <4> QED BY <3>1
    <3>3. \A k \in 0..(n + 1) : k # 0 => k - 1 \in 0..n /\ h[k - 1] = g[k - 1]
      <4> HIDE DEF h, IsStep
      <4> QED BY <3>2
    <3>4. IsStep(h, n + 1)
      <4> HIDE DEF next
      <4> QED BY <3>2, <3>3
    <3>5. \E x : IsStep(x, n + 1)
      BY <3>4, Zenon
    <3> HIDE DEF IsStep, h
    <3> QED BY <3>2, <3>5
  <2>3. T = Nat
    <3> HIDE DEF T
    <3> QED BY <2>1, <2>2, AllNumbers, T \subseteq Nat DEF T
  <2> QED BY <1>1, <2>3
<1>3. PICK g : IsStep(g, N) /\ ReachableFrom(from, edges) = g[N]
  BY <1>2 DEF ReachableFrom, N
<1>4. g[0] = from /\ \A n \in Nat : n < N => g[n + 1] = Widened(g[n], edges)
  <2>1. g[0] = from
    BY <1>1, <1>3
  <2>2. ASSUME NEW n \in Nat, n < N PROVE g[n + 1] = next(g[n])
    <3> HIDE DEF next
    <3> QED BY <1>1, <1>3, <2>2
  <2> HIDE DEF IsStep
  <2> QED BY <2>1, <2>2 DEF Widened
<1> HIDE DEF IsStep
<1>5. N = Longest(edges)
  BY DEF N, Longest
<1>6. Searches(g, from, edges)
  BY <1>3, <1>4, <1>5 DEF Searches
<1> QED BY <1>1, <1>5, <1>6

\* What is reachable: the start, what its edges lead to, and nothing outside a
\* set that holds the start and that no edge leaves.
LEMMA Reach ==
    ASSUME NEW from, NEW edges, IsFiniteSet({e.to : e \in edges}),
           NEW all, from \subseteq all, \A d \in edges : d.from \in all => d.to \in all
    PROVE  /\ from \subseteq ReachableFrom(from, edges)
           /\ ReachableFrom(from, edges) \subseteq all
           /\ \A d \in edges : d.from \in from => d.to \in ReachableFrom(from, edges)
<1> DEFINE N == Longest(edges)
           Good(S) == from \subseteq S /\ S \subseteq all
           one == {e.to : e \in {d \in edges : d.from \in from}}
<1>0. N \in Nat /\ (edges # {} => N > 0) /\ \E g : Searches(g, from, edges)
  BY Rounds
<1>1. N \in Nat /\ (edges # {} => N > 0)
  BY <1>0
<1>2. PICK g : /\ g[0] = from /\ g[N] = ReachableFrom(from, edges)
               /\ \A n \in Nat : n < N => g[n + 1] = Widened(g[n], edges)
  BY <1>0 DEF Searches
<1> HIDE DEF N
<1> DEFINE T == {n \in Nat : n <= N => Good(g[n]) /\ (n > 0 => one \subseteq g[n])}
<1>3. T = Nat
  <2>1. 0 \in T
    BY <1>2
  <2>2. ASSUME NEW n \in T PROVE n + 1 \in T
    <3> SUFFICES ASSUME n + 1 <= N PROVE Good(g[n + 1]) /\ one \subseteq g[n + 1]
      OBVIOUS
    <3>1. Good(g[n]) /\ n \in Nat /\ n < N
      BY <1>1
    <3>2. g[n + 1] = Widened(g[n], edges)
      BY <1>2, <3>1
    <3> HIDE DEF T
    <3> QED BY <3>1, <3>2 DEF Widened
  <2> HIDE DEF T
  <2> QED BY <2>1, <2>2, AllNumbers, T \subseteq Nat DEF T
<1>4. N \in T
  BY <1>1, <1>3
<1> QED BY <1>1, <1>2, <1>4

\* The node types: finitely many, whatever the compile input.
Names == {"CLASSIFY", "EXECUTOR_SELECT", "FINALIZE", "JOIN", "POLICY_GATE", "HUMAN_APPROVAL",
          "TOOL", "TEST", "CHECKPOINT", "EXECUTOR_PRIMARY", "EXECUTOR_FALLBACK", "REVIEWER",
          "JUDGE", "FRONTIER_B", "REASONER", "PLANNER", "FRONTIER_A", "EXECUTOR_EVIDENCE"}

\* So a compiled graph has finitely many nodes.
LEMMA NamesFinite == IsFiniteSet(Names) /\ \A q : Nodes(q) \subseteq Names
<1> DEFINE A == {"CLASSIFY", "EXECUTOR_SELECT", "FINALIZE", "JOIN", "POLICY_GATE", "HUMAN_APPROVAL"}
           B == {"TOOL", "TEST", "CHECKPOINT", "EXECUTOR_PRIMARY", "EXECUTOR_FALLBACK", "REVIEWER"}
           C == {"JUDGE", "FRONTIER_B", "REASONER", "PLANNER", "FRONTIER_A", "EXECUTOR_EVIDENCE"}
<1>1. \A a, b, c, d, e, f : IsFiniteSet({a, b, c, d, e, f})
  <2> TAKE a, b, c, d, e, f
  <2>1. IsFiniteSet({a})
    BY FS_Singleton
  <2>2. IsFiniteSet({a} \cup {b})
    BY <2>1, FS_AddElement
  <2>3. IsFiniteSet(({a} \cup {b}) \cup {c})
    BY <2>2, FS_AddElement
  <2>4. IsFiniteSet((({a} \cup {b}) \cup {c}) \cup {d})
    BY <2>3, FS_AddElement
  <2>5. IsFiniteSet(((({a} \cup {b}) \cup {c}) \cup {d}) \cup {e})
    BY <2>4, FS_AddElement
  <2>6. IsFiniteSet((((({a} \cup {b}) \cup {c}) \cup {d}) \cup {e}) \cup {f})
    BY <2>5, FS_AddElement
  <2>7. {a, b, c, d, e, f} = (((({a} \cup {b}) \cup {c}) \cup {d}) \cup {e}) \cup {f}
    OBVIOUS
  <2> QED BY <2>6, <2>7, Zenon
<1>2. IsFiniteSet(A) /\ IsFiniteSet(B) /\ IsFiniteSet(C)
  BY <1>1, Zenon
<1>3. Names = (A \cup B) \cup C
  BY DEF Names
<1>4. IsFiniteSet(Names)
  <2> HIDE DEF A, B, C
  <2> QED BY <1>2, <1>3, FS_Union
<1>5. \A q : Nodes(q) \subseteq Names
  BY BranchNames DEF Nodes, ProviderNodes, Executors, Names
<1> QED BY <1>4, <1>5

\* What follows from a node: from one behind the selection of the Executor nothing
\* before it, from the evidence the join but no other branch.
LEMMA BelowLater ==
    ASSUME NEW q, NEW n \in Nodes(q) \ Ahead(q)
    PROVE  Descendants(q, n) \subseteq Nodes(q) \ Ahead(q)
<1> DEFINE edges == {e \in Edges(q) : e.type \notin {"ON_RETRYABLE_FAILURE", "ON_FINDING"}}
<1>1. \A d \in edges : d.from \in Nodes(q) \ Ahead(q) => d.to \in Nodes(q) \ Ahead(q)
  BY EdgesMade DEF WellMade, Sound
<1>2. \A d \in edges : d.to \in Nodes(q)
  BY EdgesMade DEF WellMade, Sound
<1> HIDE DEF edges
<1>3. IsFiniteSet({e.to : e \in edges})
  BY <1>2, NamesFinite, FS_Subset
<1>4. ReachableFrom({n}, edges) \subseteq Nodes(q) \ Ahead(q)
  BY <1>1, <1>3, Reach
<1> QED BY <1>4 DEF Descendants, edges

\* What follows from FRONTIER_B: the checkpoint and the end.
LEMMA BelowFrontier ==
    ASSUME NEW q
    PROVE  Descendants(q, "FRONTIER_B") \subseteq {"FRONTIER_B", "CHECKPOINT", "FINALIZE"}
<1> DEFINE edges == {e \in Edges(q) : e.type \notin {"ON_RETRYABLE_FAILURE", "ON_FINDING"}}
           all == {"FRONTIER_B", "CHECKPOINT", "FINALIZE"}
<1>1. \A d \in edges : d.from \in all => d.to \in all
  BY EdgesMade DEF WellMade, Sound
<1>2. \A d \in edges : d.to \in Nodes(q)
  BY EdgesMade DEF WellMade, Sound
<1> HIDE DEF edges
<1>3. IsFiniteSet({e.to : e \in edges})
  BY <1>2, NamesFinite, FS_Subset
<1>4. ReachableFrom({"FRONTIER_B"}, edges) \subseteq all
  BY <1>1, <1>3, Reach
<1> QED BY <1>4 DEF Descendants, edges

\* What follows from a branch: the join, and no other branch.
LEMMA BelowEvidence ==
    ASSUME NEW q, NEW n \in Parallel(q)
    PROVE  /\ {n, "JOIN"} \subseteq Descendants(q, n)
           /\ Descendants(q, n) \subseteq Nodes(q)
           /\ Descendants(q, n) \cap Parallel(q) = {n}
<1> DEFINE edges == {e \in Edges(q) : e.type \notin {"ON_RETRYABLE_FAILURE", "ON_FINDING"}}
           all == (Nodes(q) \ (Parallel(q) \cup {"CLASSIFY"})) \cup {n}
           d == Edge(n, "ON_SUCCESS", "JOIN")
<1>1. \A e \in edges : e.from \in all => e.to \in all
  BY EdgesMade, NodeFacts, BranchNames DEF WellMade, Sound
<1>2. \A e \in edges : e.to \in Nodes(q)
  BY EdgesMade DEF WellMade, Sound
<1>3. d \in edges /\ d.from = n /\ d.to = "JOIN"
  <2>1. d \in EdgesTo(Parallel(q), "ON_SUCCESS", "JOIN")
    BY Zenon DEF EdgesTo
  <2>2. d \in Edges(q)
    BY <2>1, Zenon DEF Edges, LeadIn
  <2>3. d.from = n /\ d.to = "JOIN" /\ d.type = "ON_SUCCESS"
    BY DEF Edge
  <2> QED BY <2>2, <2>3
<1>4. {n} \subseteq all /\ all \subseteq Nodes(q) /\ all \cap Parallel(q) = {n}
  BY NodeFacts
<1> HIDE DEF edges, all, d
<1>5. IsFiniteSet({e.to : e \in edges})
  BY <1>2, NamesFinite, FS_Subset
<1>6. /\ {n} \subseteq ReachableFrom({n}, edges) /\ ReachableFrom({n}, edges) \subseteq all
      /\ \A e \in edges : e.from \in {n} => e.to \in ReachableFrom({n}, edges)
  BY <1>1, <1>4, <1>5, Reach
<1>7. "JOIN" \in ReachableFrom({n}, edges)
  BY <1>3, <1>6
<1> QED BY <1>4, <1>6, <1>7 DEF Descendants, edges

\* The limits are numbers.
LEMMA LimitFacts == RetryLimit = 2 /\ ToolBudget \in Nat
   /\ \A q \in Compiled : MaxAttempts[q] \in Nat /\ q \in CompileInput
BY GraphAssumption DEF RetryLimit

-----------------------------------------------------------------------------
(***************************************************************************)
(* The validator                                                           *)
(* Every compiled graph is structurally valid.  Its nodes are ranked in the *)
(* order an answer passes them; an edge that is not bounded leads to a higher *)
(* rank, and every node has an edge from a lower one.                      *)
(***************************************************************************)
\* The order in which an answer passes the nodes.
Rank(n) ==
    CASE n = "CLASSIFY" -> 0
      [] n \in {"REASONER", "PLANNER", "FRONTIER_A", "EXECUTOR_EVIDENCE"} -> 1
      [] n = "JOIN" -> 2
      [] n = "POLICY_GATE" -> 3
      [] n = "HUMAN_APPROVAL" -> 4
      [] n = "EXECUTOR_SELECT" -> 5
      [] n = "EXECUTOR_PRIMARY" -> 6
      [] n = "EXECUTOR_FALLBACK" -> 7
      [] n = "TOOL" -> 8
      [] n = "TEST" -> 9
      [] n = "REVIEWER" -> 10
      [] n = "JUDGE" -> 11
      [] n = "FRONTIER_B" -> 12
      [] n = "CHECKPOINT" -> 13
      [] OTHER -> 14

\* Its values.
LEMMA RankFacts ==
    /\ \A n : Rank(n) \in 0..14
    /\ Rank("CLASSIFY") = 0 /\ Rank("JOIN") = 2 /\ Rank("POLICY_GATE") = 3
    /\ Rank("HUMAN_APPROVAL") = 4 /\ Rank("EXECUTOR_SELECT") = 5 /\ Rank("EXECUTOR_PRIMARY") = 6
    /\ Rank("EXECUTOR_FALLBACK") = 7 /\ Rank("TOOL") = 8 /\ Rank("TEST") = 9
    /\ Rank("REVIEWER") = 10 /\ Rank("JUDGE") = 11 /\ Rank("FRONTIER_B") = 12
    /\ Rank("CHECKPOINT") = 13 /\ Rank("FINALIZE") = 14
    /\ \A q : \A n \in Parallel(q) : Rank(n) = 1
    /\ \A q : \A n \in Executors(q) : Rank(n) \in 6..7
    /\ \A q : \A n \in Nodes(q) \ {"FINALIZE"} : Rank(n) < 14
<1>1. \A n : Rank(n) \in 0..14
  BY DEF Rank
<1>2. /\ Rank("CLASSIFY") = 0 /\ Rank("JOIN") = 2 /\ Rank("POLICY_GATE") = 3
      /\ Rank("HUMAN_APPROVAL") = 4 /\ Rank("EXECUTOR_SELECT") = 5 /\ Rank("EXECUTOR_PRIMARY") = 6
      /\ Rank("EXECUTOR_FALLBACK") = 7 /\ Rank("TOOL") = 8 /\ Rank("TEST") = 9
  BY DEF Rank
<1>3. /\ Rank("REVIEWER") = 10 /\ Rank("JUDGE") = 11 /\ Rank("FRONTIER_B") = 12
      /\ Rank("CHECKPOINT") = 13 /\ Rank("FINALIZE") = 14
  BY DEF Rank
<1>4. /\ Rank("REASONER") = 1 /\ Rank("PLANNER") = 1 /\ Rank("FRONTIER_A") = 1
      /\ Rank("EXECUTOR_EVIDENCE") = 1
  BY DEF Rank
<1>5. \A q : \A n \in Parallel(q) : Rank(n) = 1
  BY <1>4, BranchNames
<1>6. \A q : \A n \in Executors(q) : Rank(n) \in 6..7
  BY <1>2 DEF Executors
<1>7. \A q : \A n \in Nodes(q) \ {"FINALIZE"} : Rank(n) < 14
  <2> TAKE q
  <2> TAKE n \in Nodes(q) \ {"FINALIZE"}
  <2>1. n \in Names \ {"FINALIZE"}
    BY NamesFinite
  <2> QED BY <1>2, <1>3, <1>4, <2>1 DEF Names
<1> QED BY <1>1, <1>2, <1>3, <1>5, <1>6, <1>7

\* A legal edge, that leads on unless it is one of the bounded ones.
Onward(e) == EdgeIsLegal(e) /\ (e.max = 0 => Rank(e.from) < Rank(e.to))

\* An edge from an earlier node to a later one is legal and leads on,
LEMMA EdgeOnward ==
    ASSUME NEW f, NEW y, NEW t, y # "ON_RETRYABLE_FAILURE", Rank(f) < Rank(t)
    PROVE  Onward(Edge(f, y, t))
<1>1. f # t
  BY RankFacts
<1>2. Edge(f, y, t).from = f /\ Edge(f, y, t).type = y /\ Edge(f, y, t).to = t /\ Edge(f, y, t).max = 0
  BY DEF Edge
<1> QED BY <1>1, <1>2 DEF Onward, EdgeIsLegal

\* and the bounded ones are legal.
LEMMA RepeatOnward ==
    ASSUME NEW f, NEW y, NEW t,
           \/ y = "ON_RETRYABLE_FAILURE" /\ f = t
           \/ y = "ON_FINDING" /\ f \in RepairSources /\ t = "EXECUTOR_PRIMARY"
           \/ y = "ON_FALLBACK" /\ f = "TOOL" /\ t = "EXECUTOR_PRIMARY"
    PROVE  Onward(Repeat(f, y, t))
<1> DEFINE e == Repeat(f, y, t)
<1>1. e.from = f /\ e.type = y /\ e.to = t /\ e.max = RetryLimit
  BY DEF Repeat, Edge
<1>2. e.max > 0 /\ e.max # 0
  BY <1>1, LimitFacts
<1> SUFFICES Onward(e)
  OBVIOUS
<1> HIDE DEF e
<1>3. CASE y = "ON_RETRYABLE_FAILURE" /\ f = t
  BY <1>1, <1>2, <1>3 DEF Onward, EdgeIsLegal
<1>4. CASE y = "ON_FINDING" /\ f \in RepairSources /\ t = "EXECUTOR_PRIMARY"
  BY <1>1, <1>2, <1>4 DEF Onward, EdgeIsLegal
<1>5. CASE y = "ON_FALLBACK" /\ f = "TOOL" /\ t = "EXECUTOR_PRIMARY"
  BY <1>1, <1>2, <1>5 DEF Onward, EdgeIsLegal
<1> QED BY <1>3, <1>4, <1>5

\* So every edge of a compiled graph is.
LEMMA EdgesOnward == ASSUME NEW q, NEW e \in Edges(q) PROVE Onward(e)
<1>1. CASE e \in LeadIn(q)
  <2>1. \/ \E n \in Parallel(q) : e = Edge("CLASSIFY", "ON_SUCCESS", n)
        \/ \E n \in Parallel(q) : e = Edge(n, "ON_SUCCESS", "JOIN")
        \/ e \in {Edge(Gathered(q), "ON_SUCCESS", "POLICY_GATE"),
                  Edge("POLICY_GATE", "ON_SUCCESS", "HUMAN_APPROVAL"),
                  Edge("HUMAN_APPROVAL", "ON_APPROVAL", "EXECUTOR_SELECT"),
                  Edge("HUMAN_APPROVAL", "ON_REJECTION", "FINALIZE")}
        \/ e = Edge(Gathered(q), "ON_SUCCESS", "EXECUTOR_SELECT")
    BY <1>1, Zenon DEF LeadIn, EdgesTo
  <2>2. Rank(Gathered(q)) < 3
    BY RankFacts DEF Gathered
  <2> QED BY <2>1, <2>2, RankFacts, EdgeOnward
<1>2. CASE e \in ExecutorPart(q)
  <2>1. \/ e = Edge("EXECUTOR_SELECT", "ON_SUCCESS", "EXECUTOR_PRIMARY")
        \/ e = Edge("EXECUTOR_PRIMARY", "ON_FALLBACK", "EXECUTOR_FALLBACK")
        \/ \E n \in Executors(q) : e = Edge(n, "ON_FINDING", "TOOL")
        \/ e \in {Repeat("TOOL", "ON_FINDING", "EXECUTOR_PRIMARY"),
                  Repeat("TOOL", "ON_FALLBACK", "EXECUTOR_PRIMARY"),
                  Edge("TOOL", "ON_BUDGET", "FINALIZE"),
                  Edge("TOOL", "ON_SUCCESS", "TEST"),
                  Repeat("TEST", "ON_FINDING", "EXECUTOR_PRIMARY"),
                  Edge("TEST", "ON_BUDGET", "FINALIZE")}
        \/ \E n \in Executors(q) : e = Edge(n, "ON_SUCCESS", "TEST")
    BY <1>2, Zenon DEF ExecutorPart, EdgesTo
  <2> QED BY <2>1, RankFacts, EdgeOnward, RepeatOnward DEF RepairSources
<1>3. /\ \A n \in Answered(q) : Rank(n) \in 6..9
      /\ \A n \in Reviewed(q) : Rank(n) \in 6..10
      /\ \A n \in Judged(q) : Rank(n) \in 6..11
  BY RankFacts DEF Answered, Reviewed, Judged
<1>4. CASE e \in ReviewPart(q)
  <2>1. \/ \E n \in Answered(q) : e = Edge(n, "ON_SUCCESS", "REVIEWER")
        \/ e \in {Repeat("REVIEWER", "ON_FINDING", "EXECUTOR_PRIMARY"),
                  Edge("REVIEWER", "ON_NO_PROGRESS", "FINALIZE"),
                  Edge("REVIEWER", "ON_BUDGET", "FINALIZE")}
        \/ e = Edge("REVIEWER", "ON_APPROVAL", "CHECKPOINT")
        \/ \E n \in Reviewed(q) : e = Edge(n, "ON_SUCCESS", "JUDGE")
        \/ e = Edge("JUDGE", "ON_REJECTION", "FINALIZE")
        \/ e \in {Edge("JUDGE", "ON_FINDING", "FRONTIER_B"),
                  Edge("FRONTIER_B", "ON_SUCCESS", "CHECKPOINT"),
                  Repeat("FRONTIER_B", "ON_FINDING", "EXECUTOR_PRIMARY")}
        \/ e = Repeat("JUDGE", "ON_FINDING", "EXECUTOR_PRIMARY")
    BY <1>4, Zenon DEF ReviewPart, EdgesTo
  <2> QED BY <1>3, <2>1, RankFacts, EdgeOnward, RepeatOnward DEF RepairSources
<1>5. CASE e \in ClosingPart(q)
  <2>1. \/ \E n \in Judged(q) : e = Edge(n, "ON_SUCCESS", "CHECKPOINT")
        \/ e = Edge("CHECKPOINT", "ON_CHECKPOINT", "FINALIZE")
        \/ \E n \in Judged(q) : e = Edge(n, "ON_SUCCESS", "FINALIZE")
    BY <1>5, Zenon DEF ClosingPart, EdgesTo
  <2> QED BY <1>3, <2>1, RankFacts, EdgeOnward
<1>6. CASE e \in FailurePart(q)
  <2>1. \/ \E n \in ProviderNodes(q) : e = Repeat(n, "ON_RETRYABLE_FAILURE", n)
        \/ \E n \in Nodes(q) \ {"FINALIZE"} : e = Edge(n, "ON_FAILURE", "FINALIZE")
    BY <1>6, Zenon DEF FailurePart, EdgesTo
  <2> QED BY <2>1, RankFacts, EdgeOnward, RepeatOnward
<1> QED BY <1>1, <1>2, <1>4, <1>5, <1>6 DEF Edges

\* Every node but the first has an edge into it, from an earlier one.
LEMMA EntriesThere ==
    ASSUME NEW q, NEW n \in Nodes(q) \ {"CLASSIFY"}
    PROVE  \E e \in Edges(q) : e.to = n /\ Rank(e.from) < Rank(n)
<1> DEFINE Into1(f, y) == Edge(f, y, n) \in Edges(q) /\ Rank(f) < Rank(n)
<1>1. ASSUME NEW f, NEW y, Into1(f, y) PROVE \E e \in Edges(q) : e.to = n /\ Rank(e.from) < Rank(n)
  <2>1. Edge(f, y, n).to = n /\ Edge(f, y, n).from = f
    BY DEF Edge
  <2> QED BY <1>1, <2>1
<1>2. CASE n \in Parallel(q)
  <2>1. Into1("CLASSIFY", "ON_SUCCESS")
    BY <1>2, RankFacts DEF Edges, LeadIn
  <2> QED BY <1>1, <2>1
<1>3. CASE n = "JOIN"
  <2>1. PICK m \in Parallel(q) : TRUE
    BY <1>3, BranchNames DEF Nodes, ProviderNodes, Executors
  <2>2. Into1(m, "ON_SUCCESS")
    BY <1>3, <2>1, RankFacts DEF Edges, LeadIn, EdgesTo
  <2> QED BY <1>1, <2>2
<1>4. CASE n \in {"POLICY_GATE", "HUMAN_APPROVAL"}
  <2>1. HasApproval(q)
    BY <1>4, BranchNames DEF Nodes, ProviderNodes, Executors
  <2>2. Rank(Gathered(q)) < 3
    BY RankFacts DEF Gathered
  <2>3. Into1(Gathered(q), "ON_SUCCESS") \/ Into1("POLICY_GATE", "ON_SUCCESS")
    BY <1>4, <2>1, <2>2, RankFacts DEF Edges, LeadIn
  <2> QED BY <1>1, <2>3
<1>5. CASE n = "EXECUTOR_SELECT"
  <2>1. Rank(Gathered(q)) < 3
    BY RankFacts DEF Gathered
  <2>2. Into1(Gathered(q), "ON_SUCCESS") \/ Into1("HUMAN_APPROVAL", "ON_APPROVAL")
    BY <1>5, <2>1, RankFacts DEF Edges, LeadIn
  <2> QED BY <1>1, <2>2
<1>6. CASE n \in {"EXECUTOR_PRIMARY", "EXECUTOR_FALLBACK"}
  <2>1. n = "EXECUTOR_FALLBACK" => HasFallback(q)
    BY BranchNames DEF Nodes, ProviderNodes, Executors
  <2>2. Into1("EXECUTOR_SELECT", "ON_SUCCESS") \/ Into1("EXECUTOR_PRIMARY", "ON_FALLBACK")
    BY <1>6, <2>1, RankFacts DEF Edges, ExecutorPart
  <2> QED BY <1>1, <2>2
<1>7. CASE n \in {"TOOL", "TEST"}
  <2>1. (n = "TOOL" => HasTool(q)) /\ (n = "TEST" => HasTest(q))
    BY BranchNames DEF Nodes, ProviderNodes, Executors
  <2>2. "EXECUTOR_PRIMARY" \in Executors(q)
    BY DEF Executors
  <2>3. \/ Into1("EXECUTOR_PRIMARY", "ON_FINDING") \/ Into1("EXECUTOR_PRIMARY", "ON_SUCCESS")
        \/ Into1("TOOL", "ON_SUCCESS")
    BY <1>7, <2>1, <2>2, RankFacts DEF Edges, ExecutorPart, EdgesTo
  <2> QED BY <1>1, <2>3
<1>8. CASE n \in {"REVIEWER", "JUDGE", "FRONTIER_B"}
  <2>1. /\ n = "REVIEWER" => HasReviewer(q)
        /\ n = "JUDGE" => HasJudge(q)
        /\ n = "FRONTIER_B" => HasFrontierB(q) /\ HasJudge(q)
    BY BranchNames DEF Nodes, ProviderNodes, Executors, HasFrontierB
  <2>2. PICK a \in Answered(q), r \in Reviewed(q) : Rank(a) < 10 /\ Rank(r) < 11
    BY RankFacts DEF Answered, Reviewed, Executors
  <2>3. Into1(a, "ON_SUCCESS") \/ Into1(r, "ON_SUCCESS") \/ Into1("JUDGE", "ON_FINDING")
    BY <1>8, <2>1, <2>2, RankFacts DEF Edges, ReviewPart, EdgesTo
  <2> QED BY <1>1, <2>3
<1>9. CASE n = "CHECKPOINT"
  <2>1. HasCheckpoint(q)
    BY <1>9, BranchNames DEF Nodes, ProviderNodes, Executors
  <2>2. PICK j \in Judged(q) : Rank(j) < 12
    BY RankFacts DEF Answered, Reviewed, Judged, Executors
  <2>3. Into1(j, "ON_SUCCESS")
    BY <1>9, <2>1, <2>2, RankFacts DEF Edges, ClosingPart, EdgesTo
  <2> QED BY <1>1, <2>3
<1>10. CASE n = "FINALIZE"
  <2>1. "CLASSIFY" \in Nodes(q) \ {"FINALIZE"}
    BY NodeFacts
  <2>2. Into1("CLASSIFY", "ON_FAILURE")
    BY <1>10, <2>1, RankFacts DEF Edges, FailurePart, EdgesTo
  <2> QED BY <1>1, <2>2
<1>11. \/ n \in Parallel(q)
       \/ n \in {"JOIN", "POLICY_GATE", "HUMAN_APPROVAL", "EXECUTOR_SELECT", "EXECUTOR_PRIMARY",
                 "EXECUTOR_FALLBACK", "TOOL", "TEST", "REVIEWER", "JUDGE", "FRONTIER_B",
                 "CHECKPOINT", "FINALIZE"}
  BY DEF Nodes, ProviderNodes, Executors
<1> HIDE DEF Into1
<1> QED BY <1>2, <1>3, <1>4, <1>5, <1>6, <1>7, <1>8, <1>9, <1>10, <1>11

\* What else the edges are for: the tool is called by a finding, the fallback is
\* taken or tried again, and a classification succeeds or fails.
Tied(e) ==
    /\ e.to = "TOOL" => e.type = "ON_FINDING"
    /\ e.to = "EXECUTOR_FALLBACK" => e.type \in {"ON_FALLBACK", "ON_RETRYABLE_FAILURE"}
    /\ e.from = "CLASSIFY" => e.type \in {"ON_SUCCESS", "ON_FAILURE"}

\* Every edge of a compiled graph is tied so.
LEMMA EdgesTied == ASSUME NEW q, NEW e \in Edges(q) PROVE Tied(e)
<1>1. /\ \A f, y, t : /\ Edge(f, y, t).from = f /\ Edge(f, y, t).type = y /\ Edge(f, y, t).to = t
                     /\ Repeat(f, y, t).from = f /\ Repeat(f, y, t).type = y /\ Repeat(f, y, t).to = t
  BY DEF Edge, Repeat
<1>2. /\ Parallel(q) \cap {"TOOL", "EXECUTOR_FALLBACK", "CLASSIFY"} = {}
      /\ ProviderNodes(q) \cap {"TOOL", "CLASSIFY"} = {}
      /\ (Answered(q) \cup Reviewed(q) \cup Judged(q) \cup Executors(q)) \cap {"CLASSIFY"} = {}
  BY BranchNames DEF ProviderNodes, Executors, Answered, Reviewed, Judged
<1>3. CASE e \in LeadIn(q)
  BY <1>1, <1>2, <1>3 DEF LeadIn, EdgesTo, Tied
<1>4. CASE e \in ExecutorPart(q)
  BY <1>1, <1>2, <1>4 DEF ExecutorPart, EdgesTo, Tied
<1>5. CASE e \in ReviewPart(q)
  BY <1>1, <1>2, <1>5 DEF ReviewPart, EdgesTo, Tied
<1>6. CASE e \in ClosingPart(q)
  BY <1>1, <1>2, <1>6 DEF ClosingPart, EdgesTo, Tied
<1>7. CASE e \in FailurePart(q)
  BY <1>1, <1>2, <1>7 DEF FailurePart, EdgesTo, Tied
<1> QED BY <1>3, <1>4, <1>5, <1>6, <1>7 DEF Edges

\* The call of a tool is a finding, so TOOL is not among what follows from another node.
LEMMA BelowTool ==
    ASSUME NEW q, NEW n, n # "TOOL"
    PROVE  "TOOL" \notin Descendants(q, n)
<1> DEFINE edges == {e \in Edges(q) : e.type \notin {"ON_RETRYABLE_FAILURE", "ON_FINDING"}}
           all == {m \in Names \cup {n} : m # "TOOL"}
<1>1. \A d \in edges : d.to \in Names
  BY EdgesMade, NamesFinite DEF WellMade, Sound
<1>2. \A d \in edges : d.from \in all => d.to \in all
  BY <1>1, EdgesTied DEF Tied
<1>3. {n} \subseteq all /\ "TOOL" \notin all
  OBVIOUS
<1> HIDE DEF edges, all
<1>4. IsFiniteSet({e.to : e \in edges})
  BY <1>1, NamesFinite, FS_Subset
<1>5. ReachableFrom({n}, edges) \subseteq all
  BY <1>2, <1>3, <1>4, Reach
<1> QED BY <1>3, <1>5 DEF Descendants, edges

\* No edge leaves what is reachable: a round that adds nothing is the last, and
\* there are not more rounds that do than targets.
LEMMA ReachClosed ==
    ASSUME NEW from, NEW edges, IsFiniteSet({e.to : e \in edges}),
           NEW d \in edges, d.from \in ReachableFrom(from, edges)
    PROVE  d.to \in ReachableFrom(from, edges)
<1> DEFINE N == Longest(edges)
           targets == {e.to : e \in edges}
<1>0. N \in Nat /\ \E g : Searches(g, from, edges)
  BY Rounds
<1>1. N \in Nat /\ N = Cardinality(targets) /\ IsFiniteSet(targets)
  BY <1>0 DEF Longest
<1>2. PICK g : /\ g[0] = from /\ g[N] = ReachableFrom(from, edges)
               /\ \A n \in Nat : n < N => g[n + 1] = Widened(g[n], edges)
  BY <1>0 DEF Searches
<1> HIDE DEF N
<1> DEFINE Found(S) == S \cap targets
           Full(S) == \A e \in edges : e.from \in S => e.to \in S
           T == {n \in Nat : n <= N => Full(g[n]) \/ Cardinality(Found(g[n])) >= n}
<1>3. \A S : IsFiniteSet(Found(S)) /\ Cardinality(Found(S)) \in Nat
  <2> HIDE DEF targets
  <2> QED BY <1>1, FS_Subset, FS_CardinalityType
<1>4. 0 \in T
  <2>1. Cardinality(Found(g[0])) \in Nat
    BY <1>3
  <2> HIDE DEF Found, Full
  <2> QED BY <2>1
<1>5. ASSUME NEW n \in T PROVE n + 1 \in T
  <2> SUFFICES ASSUME n + 1 <= N PROVE Full(g[n + 1]) \/ Cardinality(Found(g[n + 1])) >= n + 1
    OBVIOUS
  <2>1. /\ n \in Nat /\ n < N /\ g[n + 1] = Widened(g[n], edges)
        /\ Full(g[n]) \/ Cardinality(Found(g[n])) >= n
    BY <1>1, <1>2
  <2>2. CASE Full(g[n])
    <3>1. g[n + 1] = g[n]
      BY <2>1, <2>2 DEF Widened
    <3> QED BY <2>2, <3>1
  <2>3. CASE ~Full(g[n])
    <3>1. PICK e \in edges : e.from \in g[n] /\ e.to \notin g[n]
      BY <2>3
    <3>2. e.to \in Found(g[n + 1]) /\ e.to \notin Found(g[n]) /\ Found(g[n]) \subseteq Found(g[n + 1])
      BY <2>1, <3>1 DEF Widened
    <3> HIDE DEF Found, Full, T, targets
    <3>3. Found(g[n]) \cup {e.to} \subseteq Found(g[n + 1])
      BY <3>2
    <3>4. Cardinality(Found(g[n]) \cup {e.to}) = Cardinality(Found(g[n])) + 1
      BY <1>3, <3>2, FS_AddElement
    <3>5. Cardinality(Found(g[n]) \cup {e.to}) <= Cardinality(Found(g[n + 1]))
      BY <1>3, <3>3, FS_Subset
    <3>6. Cardinality(Found(g[n])) \in Nat /\ Cardinality(Found(g[n + 1])) \in Nat
      BY <1>3
    <3> QED BY <2>1, <2>3, <3>4, <3>5, <3>6
  <2> QED BY <2>2, <2>3
<1>6. T = Nat
  <2> HIDE DEF T
  <2> QED BY <1>4, <1>5, AllNumbers, T \subseteq Nat DEF T
<1>7. N \in T
  BY <1>1, <1>6
<1>8. Full(g[N])
  <2> SUFFICES ASSUME Cardinality(Found(g[N])) >= N PROVE Full(g[N])
    BY <1>1, <1>7
  <2>1. Found(g[N]) \subseteq targets /\ Cardinality(Found(g[N])) <= Cardinality(targets)
        /\ (Cardinality(Found(g[N])) = Cardinality(targets) => Found(g[N]) = targets)
    <3>1. Found(g[N]) \subseteq targets
      OBVIOUS
    <3> HIDE DEF targets, Found
    <3> QED BY <1>1, <3>1, FS_Subset
  <2>2. Cardinality(Found(g[N])) = Cardinality(targets)
    <3> HIDE DEF targets, Found
    <3> QED BY <1>1, <1>3, <2>1
  <2>3. targets \subseteq g[N]
    BY <2>1, <2>2
  <2> QED BY <2>3
<1> QED BY <1>2, <1>8

\* The edges of a compiled graph have finitely many targets.
LEMMA TargetsFinite ==
    ASSUME NEW q, NEW edges, edges \subseteq Edges(q)
    PROVE  IsFiniteSet({e.to : e \in edges})
<1>1. {e.to : e \in edges} \subseteq Names
  BY EdgesMade, NamesFinite DEF WellMade, Sound
<1> QED BY <1>1, NamesFinite, FS_Subset

\* A compiled graph passes ExecutionGraph.structurally_valid.
LEMMA GraphsValid == ASSUME NEW q PROVE StructurallyValid(q)
<1>1. \A e \in Edges(q) : {e.from, e.to} \subseteq Nodes(q) /\ EdgeIsLegal(e)
  BY EdgesMade, EdgesOnward DEF WellMade, Sound, Onward
<1>2. AcyclicBase(q)
  <2> DEFINE base == {e \in Edges(q) : e.max = 0}
  <2> SUFFICES ASSUME NEW n \in Nodes(q)
               PROVE  n \notin ReachableFrom({e.to : e \in {d \in base : d.from = n}}, base)
    BY DEF AcyclicBase
  <2> DEFINE first == {e.to : e \in {d \in base : d.from = n}}
             all == {m \in Nodes(q) : Rank(n) < Rank(m)}
  <2>1. \A e \in base : e.to \in Nodes(q) /\ Rank(e.from) < Rank(e.to)
    BY <1>1, EdgesOnward DEF Onward
  <2>2. first \subseteq all
    BY <2>1
  <2>3. \A e \in base : e.from \in all => e.to \in all
    BY <2>1, RankFacts
  <2>4. IsFiniteSet({e.to : e \in base})
    BY TargetsFinite
  <2>5. n \notin all
    BY RankFacts
  <2> HIDE DEF base, first, all
  <2>6. ReachableFrom(first, base) \subseteq all
    BY <2>2, <2>3, <2>4, Reach
  <2> QED BY <2>5, <2>6 DEF first
<1>3. ReachableFrom({"CLASSIFY"}, Edges(q)) = Nodes(q)
  <2> DEFINE edges == Edges(q)
             R == ReachableFrom({"CLASSIFY"}, edges)
  <2>1. IsFiniteSet({e.to : e \in edges})
    BY TargetsFinite
  <2>2. {"CLASSIFY"} \subseteq Nodes(q) /\ \A e \in edges : e.from \in Nodes(q) => e.to \in Nodes(q)
    BY <1>1, NodeFacts
  <2>3. {"CLASSIFY"} \subseteq R /\ R \subseteq Nodes(q)
    <3> HIDE DEF edges
    <3> QED BY <2>1, <2>2, Reach
  <2>4. \A e \in edges : e.from \in R => e.to \in R
    <3> HIDE DEF edges
    <3> QED BY <2>1, ReachClosed
  <2> DEFINE T == {k \in Nat : \A n \in Nodes(q) : Rank(n) <= k => n \in R}
  <2>5. \A k \in Nat : (\A n \in Nodes(q) : Rank(n) < k => n \in R) => k \in T
    <3> TAKE k \in Nat
    <3> HAVE \A n \in Nodes(q) : Rank(n) < k => n \in R
    <3>1. ASSUME NEW n \in Nodes(q), Rank(n) <= k, n # "CLASSIFY" PROVE n \in R
      <4>1. PICK e \in edges : e.to = n /\ Rank(e.from) < Rank(n)
        BY <3>1, EntriesThere
      <4>2. e.from \in Nodes(q) /\ Rank(e.from) < k
        BY <1>1, <3>1, <4>1, RankFacts
      <4> HIDE DEF R, edges
      <4> QED BY <2>4, <4>1, <4>2
    <3> HIDE DEF R, edges
    <3> QED BY <2>3, <3>1
  <2> HIDE DEF R
  <2>6. 0 \in T
    <3>1. \A n \in Nodes(q) : ~(Rank(n) < 0)
      BY RankFacts
    <3> QED BY <2>5, <3>1
  <2>7. ASSUME NEW k \in T PROVE k + 1 \in T
    <3>1. k \in Nat /\ \A n \in Nodes(q) : Rank(n) < k + 1 => n \in R
      BY RankFacts
    <3> HIDE DEF T
    <3> QED BY <2>5, <3>1
  <2>8. T = Nat
    <3> HIDE DEF T
    <3> QED BY <2>6, <2>7, AllNumbers, T \subseteq Nat DEF T
  <2>9. Nodes(q) \subseteq R
    BY <2>8, RankFacts
  <2> QED BY <2>3, <2>9 DEF R
<1> QED BY <1>1, <1>2, <1>3 DEF StructurallyValid

-----------------------------------------------------------------------------
(***************************************************************************)
(* The runtime's own operators                                             *)
(* What finishing, failing and reopening make of the state the runtime keeps *)
(* in memory, for every graph.                                             *)
(***************************************************************************)
\* The edges whose traversals are counted.
Repeats(q) == {e \in Edges(q) : e.max > 0}

\* The state of the runtime for the graph of a compile input.
CoreType(q) ==
    [state     : [Nodes(q) -> NodeStates],
     selected  : SUBSET Edges(q),
     traversed : [Repeats(q) -> 0..RetryLimit],
     count     : [Nodes(q) -> 0..MaxAttempts[q]],
     tools     : 0..ToolBudget,
     status    : Statuses \cup {"none"}]

\* The graph of a compile input, and what the operators of the runtime make of it.
Works(q) == q \in Compiled /\ graph = Compile(q)

\* What the indexes of the compiled graph hold.
LEMMA GraphFacts ==
    ASSUME NEW q, Works(q)
    PROVE  /\ graph.input = q /\ DOMAIN graph.from = Nodes(q)
           /\ graph.executors = Executors(q)
           /\ \A n \in Nodes(q) : /\ From(n) = {e \in Edges(q) : e.from = n}
                                  /\ Into(n) = {e \in Edges(q) : e.to = n}
                                  /\ Below(n) = Descendants(q, n)
           /\ UNION Range(graph.from) = Edges(q)
<1>1. /\ graph.input = q /\ DOMAIN graph.from = Nodes(q)
      /\ graph.executors = Executors(q)
      /\ \A n \in Nodes(q) : /\ From(n) = {e \in Edges(q) : e.from = n}
                             /\ Into(n) = {e \in Edges(q) : e.to = n}
                             /\ Below(n) = Descendants(q, n)
  BY DEF Works, Compile, From, Into, Below, Outgoing, Incoming
<1>2. UNION Range(graph.from) = Edges(q)
  <2>1. \A e \in Edges(q) : e.from \in Nodes(q)
    BY EdgesMade DEF WellMade, Sound
  <2>2. \A n \in Nodes(q) : graph.from[n] = {e \in Edges(q) : e.from = n}
    BY <1>1 DEF From
  <2>3. Range(graph.from) = {graph.from[n] : n \in Nodes(q)}
    BY <1>1 DEF Range
  <2> QED BY <2>1, <2>2, <2>3
<1> QED BY <1>1, <1>2

\* CoreType is what the type invariant says of a core.
LEMMA CoresTyped == ASSUME NEW q, Works(q) PROVE Cores = CoreType(q)
BY GraphFacts DEF Cores, CoreType, Repeats

\* A new runtime has the type.
LEMMA FreshTyped == ASSUME NEW q \in Compiled PROVE Fresh(q) \in CoreType(q)
BY LimitFacts DEF Fresh, CoreType, Repeats, NodeStates, LiveStates, DoneStates, Statuses

\* `d` is what is left of the core `c` when some nodes got states that are neither
\* RUNNING nor SUCCEEDED.
LEMMA ReopenedFacts ==
    ASSUME NEW q, Works(q), NEW c \in CoreType(q), NEW n \in Nodes(q), NEW as \in NodeStates
    PROVE  /\ Reopened(c, n, as) \in CoreType(q)
           /\ Reopened(c, n, as).selected \subseteq c.selected
           /\ \A e \in Reopened(c, n, as).selected : e.from \notin Below(n)
           /\ \A e \in c.selected : e.from \notin Below(n) => e \in Reopened(c, n, as).selected
           /\ \A m \in Nodes(q) \ (Below(n) \cup {n}) : Reopened(c, n, as).state[m] = c.state[m]
           /\ Reopened(c, n, as).state[n] = as
           /\ \A m \in Nodes(q) : m # n /\ m \in Below(n) =>
                 Reopened(c, n, as).state[m] = "WAITING_DEPENDENCY"
           /\ Reopened(c, n, as).status = c.status /\ Reopened(c, n, as).tools = c.tools
           /\ Reopened(c, n, as).count = c.count /\ Reopened(c, n, as).traversed = c.traversed
<1> DEFINE r  == Reopened(c, n, as)
           st == [m \in Nodes(q) |-> IF m = n THEN as
                                     ELSE IF m \in Below(n) THEN "WAITING_DEPENDENCY" ELSE c.state[m]]
           se == {e \in c.selected : e.from \notin Below(n)}
<1>1. DOMAIN c.state = Nodes(q) /\ "WAITING_DEPENDENCY" \in NodeStates
  BY DEF CoreType, NodeStates
<1>2. r = [c EXCEPT !.selected = se, !.state = st]
  BY <1>1 DEF Reopened
<1>3. st \in [Nodes(q) -> NodeStates] /\ se \subseteq c.selected
  BY <1>1 DEF CoreType
<1> HIDE DEF r, se
<1>4. /\ r \in CoreType(q) /\ r.state = st /\ r.selected = se
      /\ r.status = c.status /\ r.tools = c.tools /\ r.count = c.count /\ r.traversed = c.traversed
  <2> HIDE DEF st
  <2> QED BY <1>2, <1>3 DEF CoreType
<1> QED BY <1>2, <1>4 DEF se, r

\* Closing a graph ends what is neither done nor the node itself nor the terminal node.
LEMMA ClosedStatesFacts ==
    ASSUME NEW q, NEW state \in [Nodes(q) -> NodeStates], NEW n
    PROVE  /\ ClosedStates(state, n) \in [Nodes(q) -> NodeStates]
           /\ ClosedStates(state, n)["FINALIZE"] = state["FINALIZE"]
           /\ \A m \in Nodes(q) :
                \/ ClosedStates(state, n)[m] = state[m] /\ (m \in {n, "FINALIZE"}
                     \/ state[m] \in DoneStates)
                \/ m # n /\ state[m] \notin DoneStates
                     /\ ClosedStates(state, n)[m] \in {"CANCELLED", "SKIPPED"}
<1> DEFINE x == ClosedStates(state, n)
<1>1. /\ x = [m \in Nodes(q) |->
                 IF m \in {n, "FINALIZE"} \/ state[m] \in DoneStates THEN state[m]
                 ELSE IF state[m] \in LiveStates THEN "CANCELLED" ELSE "SKIPPED"]
      /\ {"CANCELLED", "SKIPPED"} \subseteq NodeStates
  BY DEF ClosedStates, NodeStates
<1>2. \A m \in Nodes(q) :
         \/ x[m] = state[m] /\ (m \in {n, "FINALIZE"} \/ state[m] \in DoneStates)
         \/ m # n /\ state[m] \notin DoneStates /\ x[m] \in {"CANCELLED", "SKIPPED"}
  BY <1>1 DEF LiveStates, DoneStates
<1>3. x \in [Nodes(q) -> NodeStates]
  BY <1>1, <1>2
<1>4. x["FINALIZE"] = state["FINALIZE"]
  BY <1>1, NodeFacts
<1> QED BY <1>2, <1>3, <1>4

\* The edges finish_attempt selects leave the node, are not over their bound,
\* and are no failure edges.
LEMMA ChosenFacts ==
    ASSUME NEW q, Works(q), NEW n \in Nodes(q), NEW outcome \in Outcomes, NEW fresh \in BOOLEAN
    PROVE  /\ Chosen(n, outcome, fresh) \subseteq From(n)
           /\ \A e \in Chosen(n, outcome, fresh) : e.max > 0 => core.traversed[e] < e.max
           /\ \A e \in Chosen(n, outcome, fresh) :
                e.type \notin {"ON_RETRYABLE_FAILURE", "ON_FALLBACK", "ON_FAILURE"}
           /\ \A e, f \in Chosen(n, outcome, fresh) : e.type = f.type
           /\ \A e \in Chosen(n, outcome, fresh) : \A f \in From(n) :
                f.type = e.type => f \in Chosen(n, outcome, fresh)
           /\ ~fresh => \A e \in Chosen(n, outcome, fresh) : e.max = 0
<1> DEFINE type == EffectiveOutcome(n, outcome, fresh)
<1>1. type \notin {"ON_RETRYABLE_FAILURE", "ON_FALLBACK", "ON_FAILURE"}
  BY DEF EffectiveOutcome, Outcomes
<1>2. ASSUME NEW e \in Chosen(n, outcome, fresh), e.max > 0 PROVE fresh /\ core.traversed[e] < e.max
  <2>1. e \in Edges(q) /\ e.from = n /\ e.type = type /\ WellMade(q, e)
    BY GraphFacts, EdgesMade DEF Chosen
  <2>2. type = "ON_FINDING" /\ e.to = "EXECUTOR_PRIMARY"
    BY <1>1, <1>2, <2>1 DEF WellMade, Sound
  <2>3. e \in Repair(n)
    BY <2>1, <2>2, GraphFacts DEF Repair
  <2>4. fresh /\ \E f \in Repair(n) : core.traversed[f] < f.max
    BY <2>2, <2>3 DEF EffectiveOutcome
  <2>4a. PICK f \in Repair(n) : core.traversed[f] < f.max
    BY <2>4
  <2>5. WellMade(q, f) /\ f.from = n /\ f.type = "ON_FINDING" /\ f.to = "EXECUTOR_PRIMARY"
    BY GraphFacts, EdgesMade DEF Repair
  <2>6. f = e
    BY <2>1, <2>2, <2>5 DEF WellMade, Sound
  <2> QED BY <2>4, <2>4a, <2>6
<1>3. Chosen(n, outcome, fresh) \subseteq From(n)
  BY DEF Chosen
<1>4. ~fresh => \A e \in Chosen(n, outcome, fresh) : e.max = 0
  <2>1. \A e \in Chosen(n, outcome, fresh) : e.max = 0 \/ e.max > 0
    BY <1>3, GraphFacts, EdgesMade, LimitFacts DEF WellMade
  <2> QED BY <1>2, <2>1
<1> QED BY <1>1, <1>2, <1>3, <1>4 DEF Chosen

\* What may become of the branches and their join when an attempt of `n` ends.
Moves(q, c, d, n, chosen, end) ==
    \A m \in (Parallel(q) \cup {"JOIN"}) \cap Nodes(q) :
       \/ m = n /\ d.state[m] = end
       \/ m # n /\ d.state[m] = c.state[m]
       \/ /\ Closing(chosen) /\ m # n
          /\ c.state[m] \notin DoneStates /\ d.state[m] \in {"CANCELLED", "SKIPPED"}

\* The states from which an attempt may start, and the edge by which a reviewed
\* answer ends a graph.
Startable == {"QUEUED", "WAITING_DEPENDENCY", "RETRYING", "FALLBACK"}
Passed == Edge("REVIEWER", "ON_SUCCESS", "FINALIZE")

\* What else may become of the core `c` when an attempt of `n` ends: nobody else
\* gets done, a closed graph stays shut, a review that passed stands, and the
\* Executor may start again only along an edge that is counted.
Effects(q, c, d, n, chosen) ==
    /\ \A m \in Nodes(q) \ {n} : d.state[m] \in DoneStates => d.state[m] = c.state[m]
    /\ Closing(chosen) => \A m \in Nodes(q) \ {"FINALIZE"} :
                             d.state[m] \in DoneStates \cup {"CANCELLED", "SKIPPED"}
    /\ n = "FINALIZE" =>
         chosen = {} /\ \A m \in Nodes(q) \ {n} : d.state[m] = c.state[m]
    /\ Passed \in d.selected =>
         \/ d.state["REVIEWER"] \in DoneStates
         \/ Passed \notin chosen /\ (n = "REVIEWER" \/ c.state["REVIEWER"] \notin DoneStates)
    /\ \A e \in Repeats(q) : c.traversed[e] <= d.traversed[e]
    /\ d.state["EXECUTOR_PRIMARY"] \in Startable =>
         \/ c.state["EXECUTOR_PRIMARY"] \in Startable
         \/ \E e \in Repeats(q) : e.to = "EXECUTOR_PRIMARY" /\ c.traversed[e] < d.traversed[e]

\* An edge on from a node that is done, and what is left of such edges when an
\* attempt of `n` ends and leaves the states and the selected edges given.
LeadsFrom(state, selected, m) ==
    \E e \in selected : /\ e.from = m /\ Rank(m) < Rank(e.to)
                        /\ e.to = "EXECUTOR_FALLBACK" => state[e.to] # "SKIPPED"

\* What is left of those edges: nobody but `n` may lose one without being opened
\* again, a success gives up only the fallback it may have, and a node that got
\* done has one of its own.
Carries(q, c, state, selected, n, chosen) ==
    /\ Closing(chosen) => chosen \subseteq selected
    /\ n = "FINALIZE" =>
         selected = c.selected /\ state[n] \in {"SUCCEEDED", "FAILED"}
    /\ n # "FINALIZE" => state["FINALIZE"] \in {c.state["FINALIZE"], "WAITING_DEPENDENCY"}
    /\ n # "FINALIZE" /\ ~Closing(chosen) =>
         /\ \A m \in Nodes(q) \ {n} : state[m] \in DoneStates =>
               \A e \in c.selected : e.from = m => e \in selected
         /\ \A m \in Nodes(q) : state[m] = "CANCELLED" => c.state[m] = "CANCELLED"
         /\ \A m \in Nodes(q) : state[m] = "SKIPPED" =>
               \/ c.state[m] = "SKIPPED"
               \/ m = "EXECUTOR_FALLBACK" /\ n = "EXECUTOR_PRIMARY"
               \/ m = "EXECUTOR_PRIMARY" /\ n = "TOOL" /\ state[n] = "SUCCEEDED"
         /\ "TOOL" \in Nodes(q) \ {n} => state["TOOL"] = c.state["TOOL"]
         /\ state[n] \in DoneStates => LeadsFrom(state, selected, n)
         /\ n = "CLASSIFY" /\ state[n] \in DoneStates =>
               \A m \in Parallel(q) : Edge(n, "ON_SUCCESS", m) \in selected

\* What finish_attempt does to the core.
LEMMA AppliedFacts ==
    ASSUME NEW q, Works(q), core \in CoreType(q), NEW n \in Nodes(q), NEW fresh \in BOOLEAN,
           NEW chosen, chosen \subseteq From(n),
           \A e \in chosen : e.max > 0 => core.traversed[e] < e.max,
           \A e, f \in chosen : e.type = f.type, fresh => n \notin Executors(q),
           \A e \in chosen : \A f \in From(n) : f.type = e.type => f \in chosen,
           \A e \in chosen : e.type \notin {"ON_RETRYABLE_FAILURE", "ON_FALLBACK", "ON_FAILURE"},
           ~fresh => \A e \in chosen : e.max = 0, n # "FINALIZE" => chosen # {}
    PROVE  LET d == Applied(n, chosen, fresh)
           IN  /\ d \in CoreType(q) /\ d.selected \subseteq core.selected \cup chosen
               /\ d.status = core.status /\ d.count = core.count /\ d.tools = core.tools
               /\ Moves(q, core, d, n, chosen, "SUCCEEDED")
               /\ Effects(q, core, d, n, chosen)
               /\ Carries(q, core, d.state, d.selected, n, chosen)
<1> DEFINE repeats == {e \in chosen : e.max > 0}
           steps    == [e \in DOMAIN core.traversed |->
                           IF e \in repeats THEN core.traversed[e] + 1 ELSE core.traversed[e]]
           recorded == [core EXCEPT
                        !.selected = @ \cup chosen,
                        !.traversed = [e \in DOMAIN @ |-> IF e \in repeats THEN @[e] + 1 ELSE @[e]],
                        !.state[n] = "SUCCEEDED"]
           closed   == IF Closing(chosen)
                       THEN [recorded EXCEPT !.state = ClosedStates(@, n)] ELSE recorded
           given    == IF \E e \in chosen : e.type = "ON_SUCCESS"
                       THEN {e.to : e \in {d \in From(n) : d.type = "ON_FALLBACK"}} ELSE {}
           skipped  == [closed EXCEPT !.state = [m \in DOMAIN @ |->
                                                IF m \in given THEN "SKIPPED" ELSE @[m]]]
           findings == {e \in chosen : e.type = "ON_FINDING"}
           e        == CHOOSE f \in findings : TRUE
           again    == Reopened(skipped, e.to, "RETRYING")
           outer    == (Parallel(q) \cup {"JOIN"}) \cap Nodes(q)
           Unmoved(c) == /\ c.status = core.status /\ c.count = core.count /\ c.tools = core.tools
                         /\ c.traversed = steps
<1>0. /\ steps \in [Repeats(q) -> 0..RetryLimit]
      /\ \A x \in Repeats(q) : core.traversed[x] <= steps[x]
      /\ \A x \in Repeats(q) : x \in chosen => core.traversed[x] < steps[x]
  <2>1. DOMAIN core.traversed = Repeats(q) /\ core.traversed \in [Repeats(q) -> 0..RetryLimit]
    BY DEF CoreType
  <2>2. ASSUME NEW x \in Repeats(q)
        PROVE  /\ steps[x] \in 0..RetryLimit /\ core.traversed[x] <= steps[x]
               /\ x \in chosen => core.traversed[x] < steps[x]
    <3>1. core.traversed[x] \in 0..RetryLimit /\ x.max \in {0, RetryLimit} /\ x.max > 0
      BY <2>1, EdgesMade DEF Repeats, WellMade
    <3> QED BY <2>1, <3>1, LimitFacts
  <2> QED BY <2>1, <2>2
<1>1. chosen \subseteq Edges(q) /\ \A x \in chosen : x.from = n /\ WellMade(q, x)
  BY GraphFacts, EdgesMade
<1>2. /\ recorded \in CoreType(q) /\ Unmoved(recorded)
      /\ recorded.selected = core.selected \cup chosen
      /\ \A m \in Nodes(q) : recorded.state[m] = IF m = n THEN "SUCCEEDED" ELSE core.state[m]
  <2>1. recorded = [core EXCEPT !.selected = core.selected \cup chosen, !.traversed = steps,
                                !.state = [core.state EXCEPT ![n] = "SUCCEEDED"]]
    BY DEF CoreType
  <2>2. /\ [core.state EXCEPT ![n] = "SUCCEEDED"] \in [Nodes(q) -> NodeStates]
        /\ \A m \in Nodes(q) : [core.state EXCEPT ![n] = "SUCCEEDED"][m] = IF m = n THEN "SUCCEEDED" ELSE core.state[m]
    BY DEF CoreType, NodeStates, DoneStates
  <2> HIDE DEF steps, recorded, repeats
  <2> QED BY <1>0, <1>1, <2>1, <2>2 DEF CoreType
<1> HIDE DEF recorded, steps
<1>3. /\ closed \in CoreType(q) /\ Unmoved(closed) /\ closed.selected = recorded.selected
      /\ closed.state["FINALIZE"] = recorded.state["FINALIZE"]
      /\ \A m \in Nodes(q) :
            \/ closed.state[m] = recorded.state[m]
            \/ /\ Closing(chosen) /\ m # n
               /\ recorded.state[m] \notin DoneStates /\ closed.state[m] \in {"CANCELLED", "SKIPPED"}
      /\ Closing(chosen) => \A m \in Nodes(q) \ {"FINALIZE"} :
                               closed.state[m] \in DoneStates \cup {"CANCELLED", "SKIPPED"}
  <2>1. recorded.state \in [Nodes(q) -> NodeStates]
    BY <1>2 DEF CoreType
  <2> DEFINE x == ClosedStates(recorded.state, n)
  <2>2. x \in [Nodes(q) -> NodeStates]
        /\ closed = IF Closing(chosen) THEN [recorded EXCEPT !.state = x] ELSE recorded
    BY <2>1, ClosedStatesFacts
  <2>3. /\ x["FINALIZE"] = recorded.state["FINALIZE"]
        /\ \A m \in Nodes(q) : x[m] = recorded.state[m] \/ (m # n
             /\ recorded.state[m] \notin DoneStates /\ x[m] \in {"CANCELLED", "SKIPPED"})
        /\ \A m \in Nodes(q) \ {"FINALIZE"} : x[m] \in DoneStates \cup {"CANCELLED", "SKIPPED"}
    BY <1>2, <2>1, ClosedStatesFacts DEF DoneStates
  <2> HIDE DEF x, closed
  <2> QED BY <1>2, <2>2, <2>3 DEF CoreType
<1> HIDE DEF closed
<1>4. /\ given \cap outer = {}
      /\ given \subseteq {"EXECUTOR_PRIMARY", "EXECUTOR_FALLBACK"} /\ n \notin given
      /\ given # {} => \E x \in chosen : x.type = "ON_SUCCESS"
      /\ \A m \in given : \/ (m = "EXECUTOR_FALLBACK" /\ n = "EXECUTOR_PRIMARY")
                         \/ (m = "EXECUTOR_PRIMARY" /\ n = "TOOL")
  BY GraphFacts, EdgesMade, BranchNames DEF WellMade, Sound
<1> HIDE DEF given
<1>5. /\ skipped \in CoreType(q) /\ Unmoved(skipped) /\ skipped.selected = closed.selected
      /\ \A m \in Nodes(q) : skipped.state[m] = IF m \in given THEN "SKIPPED" ELSE closed.state[m]
  <2> DEFINE x == [m \in DOMAIN closed.state |-> IF m \in given THEN "SKIPPED" ELSE closed.state[m]]
  <2>1. x \in [Nodes(q) -> NodeStates]
        /\ \A m \in Nodes(q) : x[m] = IF m \in given THEN "SKIPPED" ELSE closed.state[m]
    BY <1>3 DEF CoreType, NodeStates
  <2>2. skipped = [closed EXCEPT !.state = x]
    OBVIOUS
  <2> HIDE DEF x, skipped
  <2> QED BY <1>3, <2>1, <2>2 DEF CoreType
<1> HIDE DEF skipped
<1>6. /\ Moves(q, core, skipped, n, chosen, "SUCCEEDED")
      /\ skipped.selected = core.selected \cup chosen /\ skipped.state[n] = "SUCCEEDED"
      /\ \A m \in Nodes(q) \ {n} : \/ skipped.state[m] = core.state[m]
                                   \/ skipped.state[m] = "SKIPPED"
                                   \/ core.state[m] \notin DoneStates /\ skipped.state[m] = "CANCELLED"
  <2>1. Moves(q, core, skipped, n, chosen, "SUCCEEDED")
    BY <1>2, <1>3, <1>4, <1>5 DEF Moves
  <2>2. skipped.selected = core.selected \cup chosen /\ skipped.state[n] = "SUCCEEDED"
    BY <1>2, <1>3, <1>4, <1>5
  <2> QED BY <1>2, <1>3, <1>5, <2>1, <2>2
<1>7. CASE findings = {} \/ ~fresh
  <2>1. Applied(n, chosen, fresh) = skipped
    BY <1>7 DEF Applied, skipped, closed, recorded, given
  <2>2. Effects(q, core, skipped, n, chosen)
    <3>1. \A m \in Nodes(q) \ {n} : skipped.state[m] \in DoneStates => skipped.state[m] = core.state[m]
      BY <1>6 DEF DoneStates
    <3>2. Closing(chosen) => \A m \in Nodes(q) \ {"FINALIZE"} :
                                skipped.state[m] \in DoneStates \cup {"CANCELLED", "SKIPPED"}
      BY <1>3, <1>5
    <3>3. n = "FINALIZE" => chosen = {} /\ \A m \in Nodes(q) \ {n} : skipped.state[m] = core.state[m]
      <4> HAVE n = "FINALIZE"
      <4>1. chosen = {}
        BY <1>1 DEF WellMade, Sound
      <4>2. given = {} /\ ~Closing(chosen)
        BY <1>4, <4>1 DEF Closing
      <4> QED BY <1>2, <1>3, <1>5, <4>1, <4>2
    <3>4. Passed \in skipped.selected =>
         \/ skipped.state["REVIEWER"] \in DoneStates
         \/ Passed \notin chosen /\ (n = "REVIEWER" \/ core.state["REVIEWER"] \notin DoneStates)
      <4> HAVE Passed \in skipped.selected
      <4>1. Passed \in Edges(q) /\ Passed.from = "REVIEWER"
        BY <1>5 DEF CoreType, Passed, Edge
      <4>2. "REVIEWER" \in Nodes(q)
        BY <4>1, EdgesMade DEF WellMade, Sound
      <4>3. CASE n = "REVIEWER"
        BY <1>6, <4>3 DEF DoneStates
      <4>4. CASE n # "REVIEWER"
        <5>1. Passed \notin chosen
          BY <1>1, <4>1, <4>4
        <5>2. core.state["REVIEWER"] \in DoneStates =>
              skipped.state["REVIEWER"] = core.state["REVIEWER"]
          BY <1>2, <1>3, <1>4, <1>5, <4>2, <4>4
        <5> QED BY <5>1, <5>2
      <4> QED BY <4>3, <4>4
    <3>5. \A x \in Repeats(q) : core.traversed[x] <= skipped.traversed[x]
      BY <1>0, <1>5
    <3>6. skipped.state["EXECUTOR_PRIMARY"] \in Startable =>
          core.state["EXECUTOR_PRIMARY"] \in Startable
      BY <1>6, NodeFacts DEF Startable
    <3> QED BY <3>1, <3>2, <3>3, <3>4, <3>5, <3>6 DEF Effects
  <2>3. Carries(q, core, skipped.state, skipped.selected, n, chosen)
    <3>1. n = "FINALIZE" => skipped.selected = core.selected
          /\ skipped.state[n] \in {"SUCCEEDED", "FAILED"}
      BY <1>6, <2>2 DEF Effects
    <3>2. n # "FINALIZE" => skipped.state["FINALIZE"] = core.state["FINALIZE"]
      BY <1>2, <1>3, <1>4, <1>5, NodeFacts
    <3>3. ASSUME ~Closing(chosen), NEW m \in Nodes(q) \ {n}
          PROVE  skipped.state[m] = IF m \in given THEN "SKIPPED" ELSE core.state[m]
      BY <1>2, <1>3, <1>5, <3>3
    <3>4. ASSUME NEW x \in chosen
          PROVE  x.from = n /\ Rank(n) < Rank(x.to) /\ x.to # "EXECUTOR_FALLBACK"
      <4>1. x \in Edges(q) /\ x.from = n /\ WellMade(q, x) /\ Onward(x) /\ Tied(x)
        BY <1>1, EdgesOnward, EdgesTied
      <4>2. x.max = 0
        BY <1>7, <4>1, LimitFacts DEF WellMade, Sound
      <4> QED BY <4>1, <4>2 DEF Onward, Tied
    <3>5. n # "FINALIZE" => LeadsFrom(skipped.state, skipped.selected, n)
      BY <1>6, <3>4 DEF LeadsFrom
    <3>6. ASSUME n = "CLASSIFY", NEW m \in Parallel(q) PROVE Edge(n, "ON_SUCCESS", m) \in chosen
      <4>1. Edge(n, "ON_SUCCESS", m) \in Edges(q)
        BY <3>6 DEF Edges, LeadIn
      <4>2. Edge(n, "ON_SUCCESS", m).from = n /\ Edge(n, "ON_SUCCESS", m).type = "ON_SUCCESS"
        BY DEF Edge
      <4>3. PICK x \in chosen : TRUE
        BY <3>6
      <4>4. x.type = "ON_SUCCESS"
        BY <1>1, <3>6, EdgesTied DEF Tied
      <4>5. Edge(n, "ON_SUCCESS", m) \in From(n)
        BY <4>1, <4>2, GraphFacts
      <4> QED BY <4>2, <4>4, <4>5
    <3>7. "TOOL" \notin given
      BY <1>4
    <3> QED BY <1>4, <1>6, <3>1, <3>2, <3>3, <3>5, <3>6, <3>7 DEF Carries
  <2> QED BY <1>2, <1>3, <1>5, <1>6, <2>1, <2>2, <2>3
<1>8. CASE findings # {} /\ fresh
  <2> DEFINE d == [again EXCEPT !.selected = @ \cup {e}, !.state[n] = "WAITING_DEPENDENCY"]
  <2>1. e \in chosen /\ e.type = "ON_FINDING"
    BY <1>8
  <2> HIDE DEF e
  <2>2. /\ n \notin Ahead(q) /\ e.to \in Nodes(q) \ Ahead(q)
        /\ e.to \in {"EXECUTOR_PRIMARY", "FRONTIER_B"} /\ n # "EXECUTOR_PRIMARY"
        /\ e.to = "EXECUTOR_PRIMARY" => e \in Repeats(q)
    <3>1. n \notin Executors(q) /\ n # "EXECUTOR_PRIMARY"
      BY <1>8 DEF Executors
    <3> QED BY <1>1, <2>1, <3>1, LimitFacts DEF WellMade, Sound, Repeats
  <2>3. /\ again \in CoreType(q) /\ again.selected \subseteq skipped.selected /\ Unmoved(again)
        /\ \A x \in again.selected : x.from \notin Below(e.to)
        /\ \A x \in skipped.selected : x.from \notin Below(e.to) => x \in again.selected
        /\ \A m \in Nodes(q) \ (Below(e.to) \cup {e.to}) : again.state[m] = skipped.state[m]
        /\ again.state[e.to] = "RETRYING"
        /\ \A m \in Nodes(q) : m # e.to /\ m \in Below(e.to) => again.state[m] = "WAITING_DEPENDENCY"
    <3>1. "RETRYING" \in NodeStates
      BY DEF NodeStates
    <3> QED BY <1>5, <2>2, <3>1, ReopenedFacts
  <2> HIDE DEF again
  <2>4. \A m \in outer : again.state[m] = skipped.state[m]
    BY <2>2, <2>3, BelowLater, GraphFacts DEF Ahead
  <2>5. /\ d \in CoreType(q) /\ Unmoved(d) /\ d.selected = again.selected \cup {e}
        /\ \A m \in Nodes(q) : d.state[m] = IF m = n THEN "WAITING_DEPENDENCY" ELSE again.state[m]
    <3>1. /\ [again.state EXCEPT ![n] = "WAITING_DEPENDENCY"] \in [Nodes(q) -> NodeStates]
          /\ \A m \in Nodes(q) : [again.state EXCEPT ![n] = "WAITING_DEPENDENCY"][m]
                                   = IF m = n THEN "WAITING_DEPENDENCY" ELSE again.state[m]
      BY <2>3 DEF CoreType, NodeStates
    <3>2. d = [again EXCEPT !.selected = again.selected \cup {e},
                            !.state = [again.state EXCEPT ![n] = "WAITING_DEPENDENCY"]]
      BY <2>3 DEF CoreType
    <3>3. e \in Edges(q) /\ again.selected \subseteq Edges(q)
          /\ again.state \in [Nodes(q) -> NodeStates]
      BY <1>1, <2>1, <2>3 DEF CoreType
    <3> HIDE DEF d
    <3> QED BY <2>3, <3>1, <3>2, <3>3 DEF CoreType
  <2>6. Moves(q, core, d, n, chosen, "SUCCEEDED")
    <3>1. n \notin outer
      BY <2>2 DEF Ahead
    <3>2. \A m \in outer : d.state[m] = skipped.state[m]
      BY <2>4, <2>5, <3>1
    <3> HIDE DEF d
    <3> QED BY <1>6, <3>2 DEF Moves
  <2>7. Applied(n, chosen, fresh) = d
    BY <1>8 DEF Applied, skipped, closed, recorded, given, again, e
  <2> HIDE DEF d
  <2>8. ~Closing(chosen) /\ \A m \in Nodes(q) \ {n} : skipped.state[m] = core.state[m]
    <3>1. \A x \in chosen : x.type = "ON_FINDING" /\ x.to # "FINALIZE"
      BY <1>1, <2>1 DEF WellMade, Sound
    <3>2. ~Closing(chosen) /\ given = {}
      BY <1>4, <3>1 DEF Closing
    <3> QED BY <1>2, <1>3, <1>5, <3>2
  <2>9. \A m \in Nodes(q) \ {n} : \/ d.state[m] = core.state[m]
                                  \/ d.state[m] \in {"RETRYING", "WAITING_DEPENDENCY"}
    BY <2>3, <2>5, <2>8
  <2>10. Effects(q, core, d, n, chosen)
    <3>1. \A m \in Nodes(q) \ {n} : d.state[m] \in DoneStates => d.state[m] = core.state[m]
      BY <2>9 DEF DoneStates
    <3>2. n # "FINALIZE"
      BY <1>1, <2>1 DEF WellMade, Sound
    <3>3. Passed \in d.selected =>
         \/ d.state["REVIEWER"] \in DoneStates
         \/ Passed \notin chosen /\ (n = "REVIEWER" \/ core.state["REVIEWER"] \notin DoneStates)
      <4> HAVE Passed \in d.selected
      <4>1. Passed \in Edges(q) /\ Passed.from = "REVIEWER" /\ Passed.type = "ON_SUCCESS"
        BY <2>5 DEF CoreType, Passed, Edge
      <4>2. "REVIEWER" \in Nodes(q) /\ Passed # e /\ Passed \notin chosen
        BY <2>1, <4>1, EdgesMade DEF WellMade, Sound
      <4>3. "REVIEWER" \notin Below(e.to)
        BY <2>3, <2>5, <4>1, <4>2
      <4>4. n # "REVIEWER" => d.state["REVIEWER"] = core.state["REVIEWER"]
        BY <2>2, <2>3, <2>5, <2>8, <4>2, <4>3
      <4> QED BY <4>2, <4>4
    <3>4. \A x \in Repeats(q) : core.traversed[x] <= d.traversed[x]
      BY <1>0, <2>5
    <3>5. ASSUME d.state["EXECUTOR_PRIMARY"] \in Startable
          PROVE  \/ core.state["EXECUTOR_PRIMARY"] \in Startable
                 \/ \E x \in Repeats(q) : x.to = "EXECUTOR_PRIMARY"
                      /\ core.traversed[x] < d.traversed[x]
      <4>1. CASE e.to = "EXECUTOR_PRIMARY"
        BY <1>0, <2>1, <2>2, <2>5, <4>1
      <4>2. CASE e.to = "FRONTIER_B"
        <5>1. "EXECUTOR_PRIMARY" \notin Below("FRONTIER_B") \cup {"FRONTIER_B"}
          BY <2>2, <4>2, BelowFrontier, GraphFacts
        <5>2. d.state["EXECUTOR_PRIMARY"] = core.state["EXECUTOR_PRIMARY"]
          BY <2>2, <2>3, <2>5, <2>8, <4>2, <5>1, NodeFacts
        <5> QED BY <3>5, <5>2
      <4> QED BY <2>2, <4>1, <4>2
    <3> QED BY <2>8, <3>1, <3>2, <3>3, <3>4, <3>5 DEF Effects
  <2>11. Carries(q, core, d.state, d.selected, n, chosen)
    <3>2. n # "FINALIZE" /\ d.state[n] = "WAITING_DEPENDENCY"
      BY <1>1, <2>1, <2>5 DEF WellMade, Sound
    <3>3. \A m \in Nodes(q) \ {n} : \/ (d.state[m] = core.state[m] /\ m \notin Below(e.to))
                                    \/ d.state[m] = "WAITING_DEPENDENCY"
                                    \/ (d.state[m] = "RETRYING" /\ m = e.to)
      BY <2>3, <2>5, <2>8
    <3>4. ASSUME NEW m \in Nodes(q) \ {n}, d.state[m] \in DoneStates, NEW x \in core.selected,
          x.from = m
          PROVE  x \in d.selected
      <4>1. m \notin Below(e.to)
        BY <3>3, <3>4 DEF DoneStates
      <4> QED BY <1>6, <2>3, <2>5, <3>4, <4>1
    <3>5. "TOOL" \in Nodes(q) \ {n} => d.state["TOOL"] = core.state["TOOL"]
      <4>1. "TOOL" \notin Below(e.to) \cup {e.to}
        BY <2>2, BelowTool, GraphFacts
      <4> QED BY <2>3, <2>5, <2>8, <4>1
    <3>6. d.state["FINALIZE"] \in {core.state["FINALIZE"], "WAITING_DEPENDENCY"}
      <4>1. "FINALIZE" \in Nodes(q) \ {n} /\ "FINALIZE" # e.to
        BY <2>2, <3>2, NodeFacts
      <4> QED BY <3>3, <4>1
    <3>7. /\ \A m \in Nodes(q) : d.state[m] = "CANCELLED" => core.state[m] = "CANCELLED"
          /\ \A m \in Nodes(q) : d.state[m] = "SKIPPED" => core.state[m] = "SKIPPED"
      BY <3>2, <3>3
    <3>8. d.state[n] \notin DoneStates
      BY <3>2 DEF DoneStates
    <3> QED BY <2>8, <3>2, <3>4, <3>5, <3>6, <3>7, <3>8 DEF Carries
  <2>12. d.selected \subseteq core.selected \cup chosen
    BY <1>6, <2>1, <2>3, <2>5
  <2>13. d.status = core.status /\ d.count = core.count /\ d.tools = core.tools
    BY <2>5
  <2> QED BY <2>5, <2>6, <2>7, <2>10, <2>11, <2>12, <2>13
<1> QED BY <1>7, <1>8

\* The states a failed attempt may leave its node in.
Ends == {"RETRYING", "WAITING_DEPENDENCY", "DEGRADED", "FAILED"}

\* What fail_attempt does to the core.
LEMMA FailedFacts ==
    ASSUME NEW q, Works(q), core \in CoreType(q), NEW n \in Nodes(q), NEW retryable \in BOOLEAN
    PROVE  LET f == Failed(n, retryable)
               d == f.core
           IN  /\ d \in CoreType(q) /\ f.chosen \subseteq From(n)
               /\ d.selected \subseteq core.selected \cup f.chosen
               /\ \A e \in f.chosen : e.type \in {"ON_RETRYABLE_FAILURE", "ON_FALLBACK", "ON_FAILURE"}
               /\ d.status = core.status /\ d.count = core.count /\ d.tools = core.tools
               /\ \E end \in Ends : Moves(q, core, d, n, f.chosen, end)
               /\ Effects(q, core, d, n, f.chosen)
               /\ Carries(q, core, d.state, d.selected, n, f.chosen)
               /\ n = "CHECKPOINT" => Closing(f.chosen)
               /\ n = "FINALIZE" => d.state[n] = "FAILED"
<1> DEFINE retries   == {e \in From(n) :
                        retryable /\ e.type = "ON_RETRYABLE_FAILURE" /\ Open(e)}
           fallbacks == {e \in From(n) : e.type = "ON_FALLBACK" /\ Open(e)}
           chosen    == IF retries # {} THEN retries ELSE IF fallbacks # {} THEN fallbacks
                        ELSE {e \in From(n) : e.type = "ON_FAILURE"}
           counted   == [core EXCEPT !.traversed = [e \in DOMAIN @ |->
                                                   IF e \in chosen THEN @[e] + 1 ELSE @[e]]]
           steps     == [e \in DOMAIN core.traversed |->
                           IF e \in chosen THEN core.traversed[e] + 1 ELSE core.traversed[e]]
           e         == CHOOSE d \in chosen : TRUE
           failed    == [counted EXCEPT !.state[n] = "FAILED"]
           moved     == CASE retries # {} -> [counted EXCEPT !.state[n] = "RETRYING"]
                       [] retries = {} /\ fallbacks # {} /\ e.max > 0 ->
                            [Reopened(counted, e.to, "FALLBACK")
                                EXCEPT !.state[n] = "WAITING_DEPENDENCY"]
                       [] retries = {} /\ fallbacks # {} /\ e.max = 0 ->
                            [counted EXCEPT !.state[n] = "DEGRADED", !.state[e.to] = "FALLBACK"]
                       [] OTHER ->
                            IF Closing(chosen)
                            THEN [failed EXCEPT !.state = ClosedStates(@, n)] ELSE failed
           d         == [moved EXCEPT !.selected = @ \cup chosen]
           outer     == (Parallel(q) \cup {"JOIN"}) \cap Nodes(q)
           Unmoved(c)  == /\ c.status = core.status /\ c.count = core.count /\ c.tools = core.tools
                          /\ c.traversed = steps
<1>0. Failed(n, retryable) = [chosen |-> chosen, core |-> d]
  BY Zenon DEF Failed
<1>1. /\ chosen \subseteq Edges(q)
      /\ \A x \in chosen : /\ x.from = n /\ x.type \in {"ON_RETRYABLE_FAILURE", "ON_FALLBACK", "ON_FAILURE"}
                           /\ x.max > 0 => core.traversed[x] < x.max
  <2>1. \A x \in From(n) : x \in Edges(q) /\ x.from = n /\ WellMade(q, x)
    BY GraphFacts, EdgesMade
  <2> HIDE DEF e
  <2> QED BY <2>1, LimitFacts DEF Open, WellMade, Sound
<1>1a. /\ \A x \in chosen : WellMade(q, x)
       /\ steps \in [Repeats(q) -> 0..RetryLimit]
       /\ \A x \in Repeats(q) : core.traversed[x] <= steps[x]
       /\ \A x \in Repeats(q) : x \in chosen => core.traversed[x] < steps[x]
  <2>1. DOMAIN core.traversed = Repeats(q) /\ core.traversed \in [Repeats(q) -> 0..RetryLimit]
    BY DEF CoreType
  <2> HIDE DEF chosen
  <2>2. ASSUME NEW x \in Repeats(q)
        PROVE  /\ steps[x] \in 0..RetryLimit /\ core.traversed[x] <= steps[x]
               /\ x \in chosen => core.traversed[x] < steps[x]
    <3>1. core.traversed[x] \in 0..RetryLimit /\ x.max \in {0, RetryLimit}
      BY <2>1, EdgesMade DEF Repeats, WellMade
    <3> QED BY <1>1, <2>1, <3>1, LimitFacts DEF Repeats
  <2>3. \A x \in chosen : WellMade(q, x)
    BY <1>1, EdgesMade
  <2> QED BY <2>1, <2>2, <2>3
<1>2. counted \in CoreType(q) /\ Unmoved(counted) /\ counted.state = core.state
      /\ counted.selected = core.selected
  <2> HIDE DEF chosen
  <2>2. counted = [core EXCEPT !.traversed = steps]
    BY DEF CoreType
  <2> HIDE DEF steps, counted
  <2> QED BY <1>1a, <2>2 DEF CoreType
<1>3. (retries # {} => chosen = retries) /\ (retries = {} /\ fallbacks # {} => chosen = fallbacks)
  OBVIOUS
<1> HIDE DEF counted, chosen, steps
<1>4. core.state \in [Nodes(q) -> NodeStates]
      /\ Ends \cup {"FALLBACK", "CANCELLED", "SKIPPED"} \subseteq NodeStates
  BY DEF CoreType, NodeStates, Ends, DoneStates
<1> DEFINE Fine(c, end) == /\ c \in CoreType(q) /\ Unmoved(c) /\ c.selected \subseteq core.selected
                           /\ end \in Ends /\ Moves(q, core, c, n, chosen, end)
                           /\ Effects(q, core, c, n, chosen)
                           /\ Carries(q, core, c.state, c.selected \cup chosen, n, chosen)
                           /\ n = "CHECKPOINT" => Closing(chosen)
                           /\ n = "FINALIZE" => c.state[n] = "FAILED"
<1>4a. /\ Passed.type = "ON_SUCCESS" /\ Passed.from = "REVIEWER" /\ Passed \notin chosen
       /\ retries # {} \/ fallbacks # {} => ~Closing(chosen) /\ n \notin {"CHECKPOINT", "FINALIZE"}
       /\ n = "FINALIZE" => chosen = {} /\ ~Closing(chosen)
       /\ n = "CHECKPOINT" => Closing(chosen)
       /\ retries = {} /\ fallbacks = {} /\ n # "FINALIZE" => Closing(chosen)
  <2>1. /\ Passed.type = "ON_SUCCESS" /\ Passed.from = "REVIEWER" /\ Passed \notin chosen
    BY <1>1 DEF Passed, Edge
  <2>2. retries # {} \/ fallbacks # {} => ~Closing(chosen) /\ n \notin {"CHECKPOINT", "FINALIZE"}
    <3>1. retries # {} => chosen = retries
      BY <1>3
    <3>2. retries = {} /\ fallbacks # {} => chosen = fallbacks
      BY <1>3
    <3>3. \A x \in retries \cup fallbacks : WellMade(q, x) /\ x.from = n
      BY GraphFacts, EdgesMade
    <3>4. \A x \in retries \cup fallbacks : x.to # "FINALIZE" /\ n \notin {"CHECKPOINT", "FINALIZE"}
      BY <3>3 DEF WellMade, Sound
    <3> HIDE DEF retries, fallbacks
    <3> QED BY <3>1, <3>2, <3>4 DEF Closing
  <2>3. n = "FINALIZE" => chosen = {} /\ ~Closing(chosen)
    BY <1>1, <1>1a DEF WellMade, Sound, Closing
  <2>4. retries = {} /\ fallbacks = {} /\ n # "FINALIZE" => Closing(chosen)
    <3> HAVE retries = {} /\ fallbacks = {} /\ n # "FINALIZE"
    <3> DEFINE x == Edge(n, "ON_FAILURE", "FINALIZE")
    <3>1. x \in Edges(q)
      <4>1. n \in Nodes(q) \ {"FINALIZE"}
        OBVIOUS
      <4> QED BY <4>1 DEF Edges, FailurePart, EdgesTo
    <3>2. x.from = n /\ x.type = "ON_FAILURE" /\ x.to = "FINALIZE"
      BY DEF Edge
    <3>3. x \in From(n)
      BY <3>1, <3>2, GraphFacts
    <3> HIDE DEF x, retries, fallbacks
    <3>5. x \in chosen
      BY <3>2, <3>3 DEF chosen
    <3> QED BY <3>2, <3>5 DEF Closing
  <2>5. n = "CHECKPOINT" => Closing(chosen)
    <3> HIDE DEF retries, fallbacks
    <3> QED BY <2>2, <2>4
  <2> HIDE DEF retries, fallbacks
  <2> QED BY <2>1, <2>2, <2>3, <2>4, <2>5
\* What is left to show for a core whose states differ from those of `core` only so.
<1>4b. ASSUME NEW c \in CoreType(q), c.traversed = steps, c.selected \subseteq core.selected,
              \A m \in Nodes(q) \ {n} : c.state[m] \in DoneStates => c.state[m] = core.state[m],
              Closing(chosen) => \A m \in Nodes(q) \ {"FINALIZE"} :
                                    c.state[m] \in DoneStates \cup {"CANCELLED", "SKIPPED"},
              n = "FINALIZE" => \A m \in Nodes(q) \ {n} : c.state[m] = core.state[m],
              "REVIEWER" \in Nodes(q) /\ Passed \in c.selected /\ n # "REVIEWER"
                 /\ core.state["REVIEWER"] \in DoneStates => c.state["REVIEWER"] \in DoneStates,
              c.state["EXECUTOR_PRIMARY"] \in Startable =>
                 \/ core.state["EXECUTOR_PRIMARY"] \in Startable
                 \/ \E x \in chosen : x.to = "EXECUTOR_PRIMARY" /\ x.max > 0
       PROVE  Effects(q, core, c, n, chosen)
  <2>1. Passed \in c.selected => "REVIEWER" \in Nodes(q)
    <3>1. Passed \in c.selected => Passed \in Edges(q)
      BY <1>4b DEF CoreType
    <3> QED BY <1>4a, <3>1, EdgesMade DEF WellMade, Sound
  <2>2. \A x \in chosen : x.max > 0 => x \in Repeats(q)
    BY <1>1 DEF Repeats
  <2> QED BY <1>1a, <1>4a, <1>4b, <2>1, <2>2 DEF Effects
<1>5. ASSUME retries # {} PROVE \E end \in Ends : Fine(moved, end)
  <2>1. moved = [counted EXCEPT !.state = [core.state EXCEPT ![n] = "RETRYING"]]
    BY <1>2, <1>5 DEF CoreType
  <2>2. [core.state EXCEPT ![n] = "RETRYING"] \in [Nodes(q) -> NodeStates]
    BY <1>4 DEF Ends
  <2> HIDE DEF moved
  <2>3. moved \in CoreType(q) /\ Unmoved(moved) /\ moved.selected = core.selected
        /\ moved.state = [core.state EXCEPT ![n] = "RETRYING"]
    BY <1>2, <2>1, <2>2 DEF CoreType
  <2>4. Moves(q, core, moved, n, chosen, "RETRYING")
    BY <1>4, <2>3 DEF Moves
  <2>5. Effects(q, core, moved, n, chosen)
    <3>1. \A m \in Nodes(q) : moved.state[m] = IF m = n THEN "RETRYING" ELSE core.state[m]
      BY <1>4, <2>3
    <3>2. n = "EXECUTOR_PRIMARY" => \E x \in chosen : x.to = "EXECUTOR_PRIMARY" /\ x.max > 0
      <4>1. PICK x \in retries : TRUE
        BY <1>5
      <4>2. x \in chosen /\ x.type = "ON_RETRYABLE_FAILURE"
        BY <1>3, <1>5, <4>1
      <4>3. x.to = n /\ x.max > 0
        BY <1>1, <1>1a, <4>2, LimitFacts DEF WellMade, Sound
      <4> QED BY <4>2, <4>3
    <3> QED BY <1>4a, <1>4b, <1>5, <2>3, <3>1, <3>2, NodeFacts DEF Startable
  <2>6. Carries(q, core, moved.state, moved.selected \cup chosen, n, chosen)
    <3>1. n # "FINALIZE" /\ ~Closing(chosen)
      BY <1>4a, <1>5
    <3>2. \A m \in Nodes(q) : moved.state[m] = IF m = n THEN "RETRYING" ELSE core.state[m]
      BY <1>4, <2>3
    <3> QED BY <2>3, <3>1, <3>2, NodeFacts DEF Carries, DoneStates
  <2> QED BY <1>4a, <1>5, <2>3, <2>4, <2>5, <2>6 DEF Ends
<1>6. ASSUME retries = {} /\ fallbacks # {} /\ e.max > 0 PROVE \E end \in Ends : Fine(moved, end)
  <2> DEFINE r == Reopened(counted, e.to, "FALLBACK")
  <2>1. e \in chosen /\ e.type = "ON_FALLBACK" /\ e.from = n
    BY <1>1, <1>3, <1>6
  <2>0. ~Closing(chosen)
    BY <1>4a, <1>6
  <2>2. moved = [r EXCEPT !.state[n] = "WAITING_DEPENDENCY"]
    BY <1>6
  <2> HIDE DEF e, moved, retries, fallbacks
  <2>3. /\ n \notin Ahead(q) /\ e.to \in Nodes(q) \ Ahead(q)
        /\ n = "TOOL" /\ e.to = "EXECUTOR_PRIMARY" /\ e.max > 0
    <3>1. n \notin Ahead(q) /\ e.to \in Nodes(q) \ Ahead(q)
      BY <1>1, <2>1, EdgesMade, BranchNames DEF WellMade, Sound, Ahead
    <3>2. n = "TOOL" /\ e.to = "EXECUTOR_PRIMARY"
      BY <1>1a, <1>6, <2>1 DEF WellMade, Sound
    <3> QED BY <1>6, <3>1, <3>2
  <2>4. /\ r \in CoreType(q) /\ r.selected \subseteq core.selected /\ Unmoved(r)
        /\ \A m \in Nodes(q) \ (Below(e.to) \cup {e.to}) : r.state[m] = core.state[m]
        /\ \A x \in r.selected : x.from \notin Below(e.to)
        /\ \A x \in core.selected : x.from \notin Below(e.to) => x \in r.selected
        /\ r.state[e.to] = "FALLBACK"
        /\ \A m \in Nodes(q) : m # e.to /\ m \in Below(e.to) => r.state[m] = "WAITING_DEPENDENCY"
    <3>1. e.to \in Nodes(q) /\ "FALLBACK" \in NodeStates
      BY <1>4, <2>3
    <3>2. /\ r \in CoreType(q) /\ r.selected \subseteq counted.selected
          /\ \A m \in Nodes(q) \ (Below(e.to) \cup {e.to}) : r.state[m] = counted.state[m]
          /\ \A x \in r.selected : x.from \notin Below(e.to)
          /\ \A x \in counted.selected : x.from \notin Below(e.to) => x \in r.selected
          /\ r.state[e.to] = "FALLBACK"
          /\ \A m \in Nodes(q) : m # e.to /\ m \in Below(e.to) => r.state[m] = "WAITING_DEPENDENCY"
      BY <1>2, <3>1, ReopenedFacts
    <3>3. /\ r.status = counted.status /\ r.tools = counted.tools
          /\ r.count = counted.count /\ r.traversed = counted.traversed
      BY <1>2, <3>1, ReopenedFacts
    <3> HIDE DEF r
    <3> QED BY <1>2, <3>2, <3>3
  <2> HIDE DEF r
  <2>5. \A m \in outer : r.state[m] = core.state[m]
    <3>1. \A m \in outer : m \in Nodes(q) \ (Below(e.to) \cup {e.to})
      BY <2>3, BelowLater, GraphFacts DEF Ahead
    <3> QED BY <2>4, <3>1
  <2>6. [r.state EXCEPT ![n] = "WAITING_DEPENDENCY"] \in [Nodes(q) -> NodeStates]
    BY <1>4, <2>4 DEF CoreType, Ends
  <2>7. moved = [r EXCEPT !.state = [r.state EXCEPT ![n] = "WAITING_DEPENDENCY"]]
    BY <2>2, <2>4 DEF CoreType
  <2>8. moved \in CoreType(q) /\ Unmoved(moved) /\ moved.selected = r.selected
        /\ moved.state = [r.state EXCEPT ![n] = "WAITING_DEPENDENCY"]
    BY <2>4, <2>6, <2>7 DEF CoreType
  <2>9. Moves(q, core, moved, n, chosen, "WAITING_DEPENDENCY")
    <3>1. n \notin outer /\ \A m \in outer : m \in Nodes(q)
      BY <2>3 DEF Ahead
    <3>2. \A m \in outer : moved.state[m] = core.state[m]
      BY <2>4, <2>5, <2>8, <3>1 DEF CoreType
    <3> QED BY <3>1, <3>2 DEF Moves
  <2>10. Effects(q, core, moved, n, chosen)
    <3>1. \A m \in Nodes(q) : moved.state[m] = IF m = n THEN "WAITING_DEPENDENCY" ELSE r.state[m]
      BY <2>4, <2>8 DEF CoreType
    <3>2. \A m \in Nodes(q) \ {n} : moved.state[m] = core.state[m]
          \/ moved.state[m] \in {"FALLBACK", "WAITING_DEPENDENCY"}
      BY <2>4, <3>1
    <3>3. \A m \in Nodes(q) \ {n} : moved.state[m] \in DoneStates => moved.state[m] = core.state[m]
      BY <3>2 DEF DoneStates
    <3>4. "REVIEWER" \in Nodes(q) /\ Passed \in moved.selected /\ core.state["REVIEWER"] \in DoneStates
            => moved.state["REVIEWER"] \in DoneStates
      <4> HAVE "REVIEWER" \in Nodes(q) /\ Passed \in moved.selected
            /\ core.state["REVIEWER"] \in DoneStates
      <4>1. "REVIEWER" \notin Below(e.to)
        BY <1>4a, <2>4, <2>8
      <4> QED BY <2>3, <2>4, <3>1, <4>1
    <3>5. ~Closing(chosen) /\ n # "FINALIZE"
      BY <1>4a, <2>3, <2>1, <1>1, <2>0
    <3>6. \E x \in chosen : x.to = "EXECUTOR_PRIMARY" /\ x.max > 0
      BY <2>1, <2>3
    <3> QED BY <1>4b, <2>4, <2>8, <3>3, <3>4, <3>5, <3>6
  <2>11. Carries(q, core, moved.state, moved.selected \cup chosen, n, chosen)
    <3>1. \A m \in Nodes(q) : moved.state[m] = IF m = n THEN "WAITING_DEPENDENCY" ELSE r.state[m]
      BY <2>4, <2>8 DEF CoreType
    <3>2. \A m \in Nodes(q) \ {n} : \/ (moved.state[m] = core.state[m] /\ (m \notin Below(e.to) \/ m = e.to))
                                    \/ (moved.state[m] = "FALLBACK" /\ m = e.to)
                                    \/ moved.state[m] = "WAITING_DEPENDENCY"
      BY <2>4, <3>1
    <3>3. ASSUME NEW m \in Nodes(q) \ {n}, moved.state[m] \in DoneStates, NEW x \in core.selected,
          x.from = m
          PROVE  x \in moved.selected \cup chosen
      <4>1. m # e.to /\ m \notin Below(e.to)
        BY <2>4, <3>1, <3>3 DEF DoneStates
      <4> QED BY <2>4, <2>8, <3>3, <4>1
    <3>4. moved.state["FINALIZE"] \in {core.state["FINALIZE"], "WAITING_DEPENDENCY"}
      <4>1. "FINALIZE" \in Nodes(q) \ {n} /\ "FINALIZE" # e.to
        BY <2>3, NodeFacts
      <4> QED BY <3>2, <4>1
    <3>5. /\ \A m \in Nodes(q) : moved.state[m] = "CANCELLED" => core.state[m] = "CANCELLED"
          /\ \A m \in Nodes(q) : moved.state[m] = "SKIPPED" => core.state[m] = "SKIPPED"
      BY <3>1, <3>2
    <3>6. moved.state[n] \notin DoneStates
      BY <3>1 DEF DoneStates
    <3> QED BY <2>0, <2>3, <3>3, <3>4, <3>5, <3>6 DEF Carries
  <2> QED BY <1>4a, <2>3, <2>4, <2>8, <2>9, <2>10, <2>11 DEF Ends
<1>7. ASSUME retries = {} /\ fallbacks # {} /\ e.max = 0 PROVE \E end \in Ends : Fine(moved, end)
  <2>1. e \in chosen /\ e.type = "ON_FALLBACK" /\ e.from = n
    BY <1>1, <1>3, <1>7
  <2>0. ~Closing(chosen)
    BY <1>4a, <1>7
  <2>2. moved = [counted EXCEPT !.state[n] = "DEGRADED", !.state[e.to] = "FALLBACK"]
    BY <1>7
  <2> HIDE DEF e, moved, retries, fallbacks
  <2>3. /\ n \notin Ahead(q) /\ e.to \in Nodes(q) \ Ahead(q)
        /\ n = "EXECUTOR_PRIMARY" /\ e.to = "EXECUTOR_FALLBACK"
    <3>1. n \notin Ahead(q) /\ e.to \in Nodes(q) \ Ahead(q)
      BY <1>1, <2>1, EdgesMade, BranchNames DEF WellMade, Sound, Ahead
    <3>2. n = "EXECUTOR_PRIMARY" /\ e.to = "EXECUTOR_FALLBACK"
      BY <1>1a, <1>7, <2>1, LimitFacts DEF WellMade, Sound
    <3> QED BY <3>1, <3>2
  <2> DEFINE st == [core.state EXCEPT ![n] = "DEGRADED", ![e.to] = "FALLBACK"]
  <2>4. moved = [counted EXCEPT !.state = st]
    BY <1>2, <2>2 DEF CoreType
  <2>5. /\ st \in [Nodes(q) -> NodeStates] /\ \A m \in outer : st[m] = core.state[m]
        /\ \A m \in Nodes(q) : st[m] = CASE m = "EXECUTOR_PRIMARY" -> "DEGRADED"
                                           [] m = "EXECUTOR_FALLBACK" -> "FALLBACK"
                                           [] OTHER -> core.state[m]
    BY <1>4, <2>3 DEF Ahead, Ends
  <2> HIDE DEF st
  <2>6. moved \in CoreType(q) /\ Unmoved(moved) /\ moved.selected = core.selected /\ moved.state = st
    BY <1>2, <2>4, <2>5 DEF CoreType
  <2>7. Moves(q, core, moved, n, chosen, "DEGRADED")
    BY <2>3, <2>5, <2>6 DEF Moves, Ahead
  <2>8. Effects(q, core, moved, n, chosen)
    <3>1. \A m \in Nodes(q) \ {n} : moved.state[m] = core.state[m] \/ (moved.state[m] = "FALLBACK"
          /\ m = "EXECUTOR_FALLBACK")
      BY <2>3, <2>5, <2>6
    <3>2. moved.state["EXECUTOR_PRIMARY"] = "DEGRADED"
      BY <2>5, <2>6, NodeFacts
    <3>3. \A m \in Nodes(q) \ {n} : moved.state[m] \in DoneStates => moved.state[m] = core.state[m]
      BY <3>1 DEF DoneStates
    <3> QED BY <1>4b, <2>0, <2>3, <2>6, <3>1, <3>2, <3>3 DEF Startable
  <2>9. Carries(q, core, moved.state, moved.selected \cup chosen, n, chosen)
    <3>1. /\ \A m \in Nodes(q) \ {n} : \/ moved.state[m] = core.state[m]
                                     \/ (moved.state[m] = "FALLBACK" /\ m = "EXECUTOR_FALLBACK")
          /\ moved.state[n] = "DEGRADED" /\ moved.state[e.to] = "FALLBACK"
      BY <2>3, <2>5, <2>6
    <3>2. LeadsFrom(moved.state, moved.selected \cup chosen, n)
      BY <2>1, <2>3, <3>1, RankFacts DEF LeadsFrom
    <3>3. /\ moved.state["FINALIZE"] = core.state["FINALIZE"]
          /\ "TOOL" \in Nodes(q) => moved.state["TOOL"] = core.state["TOOL"]
      BY <2>3, <3>1, NodeFacts
    <3>4. /\ \A m \in Nodes(q) : moved.state[m] = "CANCELLED" => core.state[m] = "CANCELLED"
          /\ \A m \in Nodes(q) : moved.state[m] = "SKIPPED" => core.state[m] = "SKIPPED"
      BY <3>1
    <3> QED BY <2>0, <2>3, <2>6, <3>2, <3>3, <3>4 DEF Carries
  <2> QED BY <2>3, <2>6, <2>7, <2>8, <2>9 DEF Ends
<1>8. ASSUME retries = {} /\ fallbacks = {} PROVE \E end \in Ends : Fine(moved, end)
  <2> DEFINE st == [core.state EXCEPT ![n] = "FAILED"]
             x  == ClosedStates(st, n)
  <2>1. moved = IF Closing(chosen) THEN [failed EXCEPT !.state = ClosedStates(@, n)] ELSE failed
    BY <1>8
  <2> HIDE DEF moved
  <2>2. failed = [counted EXCEPT !.state = st]
    BY <1>2 DEF CoreType
  <2>3. st \in [Nodes(q) -> NodeStates]
        /\ \A m \in Nodes(q) : st[m] = IF m = n THEN "FAILED" ELSE core.state[m]
    BY <1>4 DEF Ends
  <2>4. x \in [Nodes(q) -> NodeStates]
    BY <2>3, ClosedStatesFacts
  <2>5. /\ \A m \in Nodes(q) : x[m] = st[m] \/ (m # n /\ st[m] \notin DoneStates /\ x[m] \in {"CANCELLED", "SKIPPED"})
        /\ \A m \in Nodes(q) \ {"FINALIZE"} : x[m] \in DoneStates \cup {"CANCELLED", "SKIPPED"}
    BY <2>3, ClosedStatesFacts DEF DoneStates
  <2> HIDE DEF st, failed
  <2>6. failed \in CoreType(q) /\ Unmoved(failed) /\ failed.selected = core.selected
        /\ failed.state = st
    BY <1>2, <2>2, <2>3 DEF CoreType
  <2>7. moved = IF Closing(chosen) THEN [failed EXCEPT !.state = x] ELSE failed
    BY <2>1, <2>6
  <2> HIDE DEF x
  <2>8. moved \in CoreType(q) /\ Unmoved(moved) /\ moved.selected = core.selected
        /\ moved.state = IF Closing(chosen) THEN x ELSE st
    BY <2>4, <2>6, <2>7 DEF CoreType
  <2>9. Moves(q, core, moved, n, chosen, "FAILED")
    BY <2>3, <2>5, <2>8 DEF Moves
  <2>10. Effects(q, core, moved, n, chosen)
    <3>1. \A m \in Nodes(q) \ {n} : \/ moved.state[m] = core.state[m]
                                     \/ /\ Closing(chosen) /\ core.state[m] \notin DoneStates
                                        /\ moved.state[m] \in {"CANCELLED", "SKIPPED"}
      BY <2>3, <2>5, <2>8
    <3>2. moved.state[n] = "FAILED"
      BY <2>3, <2>5, <2>8
    <3>3. Closing(chosen) => \A m \in Nodes(q) \ {"FINALIZE"} :
                                moved.state[m] \in DoneStates \cup {"CANCELLED", "SKIPPED"}
      BY <2>5, <2>8
    <3>4. \A m \in Nodes(q) \ {n} : moved.state[m] \in DoneStates => moved.state[m] = core.state[m]
      BY <3>1 DEF DoneStates
    <3>5. n = "FINALIZE" => \A m \in Nodes(q) \ {n} : moved.state[m] = core.state[m]
      BY <1>4a, <3>1
    <3>6. "REVIEWER" \in Nodes(q) /\ n # "REVIEWER" /\ core.state["REVIEWER"] \in DoneStates
            => moved.state["REVIEWER"] \in DoneStates
      BY <3>1
    <3>7. moved.state["EXECUTOR_PRIMARY"] \in Startable => core.state["EXECUTOR_PRIMARY"] \in Startable
      BY <3>1, <3>2, NodeFacts DEF Startable
    <3> QED BY <1>4b, <2>8, <3>3, <3>4, <3>5, <3>6, <3>7
  <2>11. Carries(q, core, moved.state, moved.selected \cup chosen, n, chosen)
    <3>1. n # "FINALIZE" => Closing(chosen)
      BY <1>4a, <1>8
    <3>2. st["FINALIZE"] = x["FINALIZE"]
      BY <2>3, ClosedStatesFacts DEF x
    <3>3. n # "FINALIZE" => moved.state["FINALIZE"] = core.state["FINALIZE"]
      BY <2>3, <2>8, <3>2, NodeFacts
    <3>4. n = "FINALIZE" => moved.state[n] = "FAILED" /\ chosen = {}
      BY <1>4a, <2>3, <2>8
    <3> HIDE DEF retries, fallbacks
    <3> QED BY <2>8, <3>1, <3>3, <3>4 DEF Carries
  <2>12. n = "FINALIZE" => moved.state[n] = "FAILED"
    BY <1>4a, <2>3, <2>8
  <2> QED BY <1>4a, <2>8, <2>9, <2>10, <2>11, <2>12 DEF Ends
<1>9. \E end \in Ends : Fine(moved, end)
  <2>1. e.max = 0 \/ e.max > 0 \/ retries # {} \/ fallbacks = {}
    BY <1>1, <1>3, EdgesMade, LimitFacts DEF WellMade
  <2> HIDE DEF moved, retries, fallbacks, e, Fine, Ends
  <2> QED BY <1>5, <1>6, <1>7, <1>8, <2>1
<1> HIDE DEF moved
<1>10. PICK end \in Ends : Fine(moved, end)
  BY <1>9
<1>11. /\ d \in CoreType(q) /\ Unmoved(d) /\ d.state = moved.state
      /\ d.selected = moved.selected \cup chosen
  <2>1. moved.selected \cup chosen \subseteq Edges(q)
        /\ d = [moved EXCEPT !.selected = moved.selected \cup chosen]
    BY <1>1, <1>10 DEF CoreType
  <2> HIDE DEF d
  <2> QED BY <1>10, <2>1 DEF CoreType
<1>12. Moves(q, core, d, n, chosen, end)
  <2> HIDE DEF d
  <2> QED BY <1>10, <1>11 DEF Moves
<1>12a. /\ n = "FINALIZE" => d.state[n] = "FAILED"
        /\ Effects(q, core, d, n, chosen) /\ Carries(q, core, d.state, d.selected, n, chosen)
             /\ (n = "CHECKPOINT" => Closing(chosen))
  <2>1. d.traversed = moved.traversed /\ (Passed \in d.selected => Passed \in moved.selected)
    BY <1>4a, <1>10, <1>11
  <2> HIDE DEF d
  <2> QED BY <1>10, <1>11, <2>1 DEF Effects
<1>13. Failed(n, retryable).chosen = chosen /\ Failed(n, retryable).core = d
  <2> HIDE DEF d
  <2> QED BY <1>0
<1>14. d.selected \subseteq core.selected \cup chosen /\ chosen \subseteq From(n)
  <2>1. chosen \subseteq From(n)
    BY DEF chosen
  <2> HIDE DEF d
  <2> QED BY <1>10, <1>11, <2>1
<1> HIDE DEF d
<1> QED BY <1>1, <1>11, <1>12, <1>12a, <1>13, <1>14

-----------------------------------------------------------------------------
(***************************************************************************)
(* The inductive invariant                                                 *)
(* What holds between memory, the checkpoint, the rows and the writes that are *)
(* still to be made; see the comments at each part.                        *)
(***************************************************************************)
\* The compile input; the branches of its join; the positions of the attempts;
\* what is still to be written; what an attempt is.
Q          == graph.input
Branches   == Parallel(Q)
Positions  == 1..Len(attempts)
Pending    == Range(writes)
Attempt    == [node : Nodes(Q), k : 1..MaxAttempts[Q], state : NodeStates]
IsLive(a)  == a.state \in LiveStates
Same(a, b) == a.node = b.node /\ a.k = b.k

\* Types: the graph is a compiled one, memory and checkpoint fit it.
TypeFits ==
    /\ Works(Q)
    /\ core \in CoreType(Q) /\ saved \in CoreType(Q)
    /\ attempts \in Seq(Attempt) /\ rows \in Seq(Attempt)
    /\ writes \in Seq(Int) /\ Pending \subseteq {Snapshot, Settling} \cup Positions
    /\ loaded \in BOOLEAN /\ loads \in 0..MaxLoads

\* A list of writes that ends with a checkpoint, but for the row of a CHECKPOINT node.
Orderly(as, w) ==
    \A m, p \in 1..Len(w) :
       m < p /\ w[m] = Snapshot =>
          w[p] = Settling \/ (w[p] \in 1..Len(as) /\ as[w[p]].node = "CHECKPOINT")

\* The two special writes are no positions.
LEMMA Marks == Snapshot \in Int /\ Settling \in Int /\ Snapshot # Settling
               /\ \A n \in Nat : Snapshot \notin 1..n /\ Settling \notin 1..n
BY DEF Snapshot, Settling

\* A finite set, listed in some order (the writes of closed attempts).
LEMMA Listed ==
    ASSUME NEW S, IsFiniteSet(S)
    PROVE  SetToSeq(S) \in Seq(S) /\ Range(SetToSeq(S)) = S
<1> DEFINE N == Cardinality(S)
<1>1. N \in Nat /\ ExistsBijection(1..N, S)
  BY FS_CardinalityType
<1>2. \E f \in [1..N -> S] : IsInjective(f)
  BY <1>1 DEF ExistsBijection, Bijection, Injection, Surjection
<1>3. SetToSeq(S) \in [1..N -> S] /\ IsInjective(SetToSeq(S))
  BY <1>2 DEF SetToSeq
<1>4. IsFiniteSet(1..N) /\ Cardinality(1..N) = N
  BY <1>1, FS_Interval
<1> DEFINE f == SetToSeq(S)
<1>5. f \in Injection(1..N, S)
  BY <1>3 DEF Injection
<1> HIDE DEF N, f
<1>6. f \in Surjection(1..N, S)
  BY <1>4, <1>5, FS_Injection DEF N
<1>7. f \in Seq(S)
  BY <1>1, <1>3 DEF f
<1>8. Range(f) = S
  BY <1>6 DEF Surjection, Range
<1> QED BY <1>7, <1>8 DEF f

\* What two lists of writes, one after the other, hold.
LEMMA Concatenated ==
    ASSUME NEW s \in Seq(Int), NEW t \in Seq(Int)
    PROVE  /\ s \o t \in Seq(Int) /\ Range(s \o t) = Range(s) \cup Range(t)
           /\ \A p \in 1..Len(s \o t) : \/ p \in 1..Len(s) /\ (s \o t)[p] = s[p]
                                        \/ p > Len(s) /\ p - Len(s) \in 1..Len(t)
                                             /\ (s \o t)[p] = t[p - Len(s)]
<1>1. s \o t \in Seq(Int)
  OBVIOUS
<1>2. \A p \in 1..Len(s \o t) : \/ p \in 1..Len(s) /\ (s \o t)[p] = s[p]
                                \/ p > Len(s) /\ p - Len(s) \in 1..Len(t) /\ (s \o t)[p] = t[p - Len(s)]
  OBVIOUS
<1>3. \A p \in 1..Len(s) : p \in 1..Len(s \o t) /\ (s \o t)[p] = s[p]
  OBVIOUS
<1>4. \A p \in 1..Len(t) : p + Len(s) \in 1..Len(s \o t) /\ (s \o t)[p + Len(s)] = t[p]
  OBVIOUS
<1>5. Range(s \o t) = Range(s) \cup Range(t)
  <2>1. DOMAIN s = 1..Len(s) /\ DOMAIN t = 1..Len(t) /\ DOMAIN (s \o t) = 1..Len(s \o t)
    BY <1>1
  <2> DEFINE u == s \o t
  <2>2. \A x \in Range(u) : x \in Range(s) \cup Range(t)
    BY <1>2, <2>1 DEF Range
  <2>3. \A x \in Range(s) : x \in Range(u)
    BY <1>3, <2>1 DEF Range
  <2>4. \A x \in Range(t) : x \in Range(u)
    BY <1>4, <2>1 DEF Range
  <2> QED BY <2>2, <2>3, <2>4
<1> QED BY <1>1, <1>2, <1>5

\* What the shortest lists of writes hold.
LEMMA Tuples ==
    /\ \A x \in Int : <<x>> \in Seq(Int) /\ Range(<<x>>) = {x} /\ Len(<<x>>) = 1 /\ <<x>>[1] = x
    /\ \A x, y \in Int : <<x, y>> \in Seq(Int) /\ Range(<<x, y>>) = {x, y} /\ Len(<<x, y>>) = 2
                           /\ <<x, y>>[1] = x /\ <<x, y>>[2] = y
BY DEF Range

\* The lists of writes of a call that ends some attempts.
LEMMA WritesOf ==
    ASSUME attempts \in Seq(Attempt), NEW C, C \subseteq Positions, NEW i \in Positions
    PROVE  /\ LET w == Persisted(C, i)
              IN  w \in Seq(Int) /\ Range(w) = C \cup {i, Snapshot} /\ Orderly(attempts, w)
           /\ LET w == Persisted(C, i) \o <<Settling>>
              IN  w \in Seq(Int) /\ Range(w) = C \cup {i, Snapshot, Settling} /\ Orderly(attempts, w)
           /\ LET w == SetToSeq(C) \o <<Snapshot>>
              IN  w \in Seq(Int) /\ Range(w) = C \cup {Snapshot} /\ Orderly(attempts, w)
<1>1. Len(attempts) \in Nat /\ Positions \subseteq Int /\ Snapshot \notin Positions
  BY Marks DEF Positions
<1>2. IsFiniteSet(C)
  <2>1. IsFiniteSet(Positions)
    BY <1>1, FS_Interval DEF Positions
  <2> QED BY <2>1, FS_Subset
<1> DEFINE s == SetToSeq(C)
<1>3. s \in Seq(Int) /\ Range(s) = C
  <2>1. s \in Seq(C) /\ Range(s) = C
    BY <1>2, Listed
  <2> HIDE DEF s
  <2>2. C \subseteq Int
    BY <1>1
  <2> QED BY <2>1, <2>2, SeqMonotonic
<1>4. \A p \in 1..Len(s) : s[p] # Snapshot
  <2> HIDE DEF s
  <2>1. DOMAIN s = 1..Len(s)
    BY <1>3
  <2> QED BY <1>1, <1>3, <2>1 DEF Range
<1> HIDE DEF s
<1> DEFINE t == IF attempts[i].node = "CHECKPOINT" THEN <<Snapshot, i>> ELSE <<i, Snapshot>>
<1>5. t \in Seq(Int) /\ Range(t) = {i, Snapshot} /\ Len(t) = 2 /\ {t[1], t[2]} = {i, Snapshot}
      /\ (t[1] = Snapshot => t[2] = i /\ attempts[i].node = "CHECKPOINT")
  BY <1>1, Tuples, Marks
<1>6. Persisted(C, i) = s \o t
  BY DEF Persisted, s
<1> HIDE DEF t
<1>7. /\ s \o t \in Seq(Int) /\ Range(s \o t) = C \cup {i, Snapshot}
      /\ Orderly(attempts, s \o t)
  <2>1. \A p \in 1..Len(s \o t) : \/ p \in 1..Len(s) /\ (s \o t)[p] # Snapshot
                                  \/ p > Len(s) /\ p - Len(s) \in {1, 2} /\ (s \o t)[p] = t[p - Len(s)]
    <3>1. \A p \in 1..2 : p \in {1, 2}
      OBVIOUS
    <3> QED BY <1>3, <1>4, <1>5, <3>1, Concatenated
  <2>2. Orderly(attempts, s \o t)
    <3> SUFFICES ASSUME NEW m \in 1..Len(s \o t), NEW p \in 1..Len(s \o t),
                        m < p, (s \o t)[m] = Snapshot
                 PROVE  (s \o t)[p] \in Positions /\ attempts[(s \o t)[p]].node = "CHECKPOINT"
      BY DEF Orderly, Positions
    <3>1. Len(s) \in Nat /\ m \in Nat /\ p \in Nat /\ m > Len(s) /\ p > Len(s)
          /\ m - Len(s) \in {1, 2} /\ p - Len(s) \in {1, 2}
          /\ t[m - Len(s)] = Snapshot /\ (s \o t)[p] = t[p - Len(s)]
      BY <1>3, <2>1
    <3>2. m - Len(s) = 1 /\ p - Len(s) = 2
      BY <3>1
    <3> QED BY <1>5, <3>1, <3>2
  <2> QED BY <1>3, <1>5, <2>2, Concatenated
<1> DEFINE u == s \o t
<1>8. /\ u \o <<Settling>> \in Seq(Int) /\ Range(u \o <<Settling>>) = C \cup {i, Snapshot, Settling}
      /\ Orderly(attempts, u \o <<Settling>>)
  <2> HIDE DEF u
  <2>0. u \in Seq(Int) /\ Range(u) = C \cup {i, Snapshot} /\ Orderly(attempts, u)
    BY <1>7 DEF u
  <2>1. \A p \in 1..Len(u \o <<Settling>>) : \/ p \in 1..Len(u) /\ (u \o <<Settling>>)[p] = u[p]
                                             \/ p > Len(u) /\ (u \o <<Settling>>)[p] = Settling
    BY <2>0, Concatenated, Tuples, Marks
  <2>2. Orderly(attempts, u \o <<Settling>>)
    BY <2>0, <2>1, Marks DEF Orderly
  <2>3. Range(<<Settling>>) = {Settling} /\ <<Settling>> \in Seq(Int)
    BY Tuples, Marks
  <2>4. u \o <<Settling>> \in Seq(Int) /\ Range(u \o <<Settling>>) = Range(u) \cup {Settling}
    BY <2>0, <2>3, Concatenated
  <2> QED BY <2>0, <2>2, <2>4
<1>9. /\ s \o <<Snapshot>> \in Seq(Int) /\ Range(s \o <<Snapshot>>) = C \cup {Snapshot}
      /\ Orderly(attempts, s \o <<Snapshot>>)
  <2>1. \A p \in 1..Len(s \o <<Snapshot>>) : \/ p \in 1..Len(s) /\ (s \o <<Snapshot>>)[p] # Snapshot
                                             \/ p = Len(s) + 1
    BY <1>3, <1>4, Concatenated, Tuples, Marks
  <2>2. Orderly(attempts, s \o <<Snapshot>>)
    BY <1>3, <2>1 DEF Orderly
  <2> QED BY <1>3, <2>2, Concatenated, Tuples, Marks
<1> QED BY <1>6, <1>7, <1>8, <1>9 DEF s, u

\* Only HUMAN_APPROVAL waits for an approval, and only TOOL for a tool.
WaitsWell(a) ==
    IsLive(a) =>
        /\ a.state = "WAITING_APPROVAL" <=> a.node = "HUMAN_APPROVAL"
        /\ a.state = "WAITING_TOOL" <=> a.node = "TOOL"

\* The disk: the checkpoint is what is in memory unless it is still to be
\* written, and every row has its attempt, with the state that was written unless
\* that is still to be written.  Rows are distinct by their id.
DiskFits ==
    /\ saved = core \/ Snapshot \in Pending
    /\ ~loaded => writes = <<>> /\ attempts = <<>>
    /\ Orderly(attempts, writes)
    /\ \A i \in Positions : WaitsWell(attempts[i])
    /\ \A r \in 1..Len(rows) : WaitsWell(rows[r])
    /\ \A r, s \in 1..Len(rows) : Same(rows[r], rows[s]) => r = s
    /\ loaded => \A r \in 1..Len(rows) :
          \E j \in Positions : /\ Same(attempts[j], rows[r])
                               /\ (attempts[j].state = rows[r].state \/ j \in Pending)

\* The join, as a core records it: a branch whose edge to it was selected, or
\* whose join runs or ran, succeeded.
JoinedUp(c) ==
    \A n \in Branches :
       /\ Edge(n, "ON_SUCCESS", "JOIN") \in c.selected => c.state[n] = "SUCCEEDED"
       /\ c.state["JOIN"] \in {"RUNNING", "SUCCEEDED"} => c.state[n] = "SUCCEEDED"

\* The join, as a live attempt sees it: a branch that is under way has not yet
\* succeeded, and a join under way has all its branches behind it.
Behind(a, c) ==
    IsLive(a) => /\ a.node \in Branches => c.state[a.node] # "SUCCEEDED"
                 /\ a.node = "JOIN" => \A n \in Branches : c.state[n] = "SUCCEEDED"

\* The join, in memory and on the disk.  A live branch is the only attempt of its
\* node, except while a restart is being settled.
JoinFits ==
    /\ JoinedUp(core) /\ JoinedUp(saved)
    /\ \A i \in Positions : Behind(attempts[i], core)
    /\ \A i \in Positions \cap Pending : Behind(attempts[i], saved) \/ Snapshot \notin Pending
    /\ \A r \in 1..Len(rows) : Behind(rows[r], saved)
    /\ Settling \notin Pending =>
          \A i, j \in Live : attempts[i].node \in Branches =>
             /\ core.state[attempts[i].node] \in LiveStates
             /\ attempts[j].node = attempts[i].node => i = j

\* An approval was given when an attempt of HUMAN_APPROVAL succeeded; a graph has
\* gone on when an edge from behind the approval, or from it, was selected.
IsApproval(a) == a.node = "HUMAN_APPROVAL"
Approves(a) == IsApproval(a) /\ a.state = "SUCCEEDED"
Given(as) == \E i \in 1..Len(as) : Approves(as[i])
Later(n) == n \notin Ahead(Q) \cup {"FINALIZE"}
GoneOn(c) ==
    \E e \in c.selected :
       Later(e.from) \/ (e.from = "HUMAN_APPROVAL" /\ e.to = "EXECUTOR_SELECT")

\* At most one approval is waited for, and none once it was given.
OneApproval(as) ==
    /\ \A i, j \in 1..Len(as) :
          IsApproval(as[i]) /\ IsLive(as[i]) /\ IsApproval(as[j]) /\ IsLive(as[j]) => i = j
    /\ Given(as) => \A i \in 1..Len(as) : IsApproval(as[i]) => ~IsLive(as[i])

\* The approval, in memory and on the disk: nothing behind it is selected or
\* started without it, and no row of a later node is written before its row.
ApprovalFits ==
    HasApproval(Q) =>
    /\ loaded /\ GoneOn(core) => Given(attempts)
    /\ \A i \in Positions : Later(attempts[i].node) => Given(attempts)
    /\ GoneOn(saved) => Given(rows)
    /\ \A r \in 1..Len(rows) : Later(rows[r].node) => Given(rows)
    /\ \A i \in Positions \cap Pending : Later(attempts[i].node) => Given(rows)
    /\ Given(attempts) => \/ Given(rows)
                          \/ \E i \in Positions \cap Pending : Approves(attempts[i])
    /\ loaded /\ Given(rows) => Given(attempts)
    /\ OneApproval(attempts) /\ OneApproval(rows)
    /\ \A i, j \in Positions \cap Pending :
          IsApproval(attempts[i]) /\ IsApproval(attempts[j]) => i = j
    /\ Given(attempts) => \A i \in Positions \cap Pending :
          IsApproval(attempts[i]) => Approves(attempts[i])

\* The inductive invariant.
GraphInv == TypeFits /\ DiskFits /\ JoinFits /\ ApprovalFits

\* Some live attempts end, and no other attempt changes.
Ending(O) ==
    /\ O \subseteq Live
    /\ attempts' \in Seq(Attempt) /\ Len(attempts') = Len(attempts)
    /\ \A i \in Positions : /\ Same(attempts'[i], attempts[i])
                            /\ i \notin O => attempts'[i] = attempts[i]
                            /\ i \in O => ~IsLive(attempts'[i])

\* What every call to the runtime has in common: it ends the attempts O, and
\* leaves a list of writes that holds them and a checkpoint.
CallStep(O) ==
    /\ loaded /\ loaded' = loaded /\ UNCHANGED <<graph, rows, saved, loads>>
    /\ Ending(O)
    /\ writes' \in Seq(Int) /\ Range(writes') \subseteq {Snapshot, Settling} \cup O
    /\ O \cup {Snapshot} \subseteq Range(writes') /\ Orderly(attempts, writes')
    /\ core' \in CoreType(Q)

\* Commit is such a step.
LEMMA CommitEnds ==
    ASSUME TypeFits, loaded, NEW c, NEW over, NEW w, Commit(c, over, w),
           DOMAIN over \subseteq Live,
           \A i \in DOMAIN over : over[i] \in NodeStates \ LiveStates,
           w \in Seq(Int), Range(w) \subseteq {Snapshot, Settling} \cup DOMAIN over,
           DOMAIN over \cup {Snapshot} \subseteq Range(w), Orderly(attempts, w),
           c \in CoreType(Q)
    PROVE  CallStep(DOMAIN over) /\ core' = c /\ writes' = w
           /\ \A i \in DOMAIN over : attempts'[i].state = over[i]
<1> DEFINE O == DOMAIN over
           A(i) == IF i \in O THEN [attempts[i] EXCEPT !.state = over[i]] ELSE attempts[i]
<1>1. attempts' = [i \in Positions |-> A(i)] /\ Len(attempts) \in Nat
      /\ \A i \in Positions : attempts[i] \in Attempt
  BY DEF Commit, TypeFits, Positions
<1>2. \A i \in Positions : A(i) \in Attempt /\ Same(A(i), attempts[i]) /\ (i \in O =>
      A(i).state = over[i])
  BY <1>1 DEF Attempt, Same
<1> HIDE DEF A
<1>3. attempts' \in Seq(Attempt) /\ Len(attempts') = Len(attempts)
      /\ \A i \in Positions : attempts'[i] = A(i)
  BY <1>1, <1>2 DEF Positions
<1>4. O \subseteq Positions
  BY DEF Live, Positions
<1>5. Ending(O)
  BY <1>2, <1>3, <1>4 DEF Ending, IsLive, A
<1>6. UNCHANGED <<graph, loaded, rows, saved, loads>> /\ core' = c /\ writes' = w
  BY DEF Commit
<1> QED BY <1>2, <1>3, <1>4, <1>5, <1>6 DEF CallStep

\* A call keeps the types,
LEMMA CallKeepsTypes ==
    ASSUME TypeFits, NEW O, CallStep(O)
    PROVE  TypeFits'
<1>1. Q' = Q /\ Works(Q)' /\ saved' \in CoreType(Q') /\ core' \in CoreType(Q') /\ Attempt' = Attempt
  BY DEF TypeFits, CallStep, Q, Works, Attempt
<1>2. Positions' = Positions /\ O \subseteq Positions
  BY DEF CallStep, Ending, Positions, Live
<1>3. attempts' \in Seq(Attempt') /\ rows' \in Seq(Attempt')
  BY <1>1 DEF TypeFits, CallStep, Ending
<1>4. writes' \in Seq(Int) /\ Pending' \subseteq {Snapshot, Settling} \cup Positions'
  BY <1>2 DEF CallStep, Pending
<1>5. loaded' \in BOOLEAN /\ loads' \in 0..MaxLoads
  BY DEF CallStep, TypeFits
<1> QED BY <1>1, <1>3, <1>4, <1>5 DEF TypeFits

\* what is said of the disk,
LEMMA CallKeepsDisk ==
    ASSUME TypeFits, DiskFits, Pending \subseteq {Settling}, NEW O, CallStep(O)
    PROVE  DiskFits'
<1>1. Positions' = Positions /\ Snapshot \in Pending' /\ loaded' /\ loaded /\ rows' = rows
      /\ Pending' = Range(writes')
  BY DEF CallStep, Ending, Positions, Pending
<1>2. \A i \in Positions : Same(attempts'[i], attempts[i]) /\ (i \in O \/ attempts'[i] = attempts[i])
                           /\ (i \in O => ~IsLive(attempts'[i]) /\ i \in Pending')
  BY <1>1 DEF CallStep, Ending
<1>3. \A i \in Positions : WaitsWell(attempts'[i])
  BY <1>2 DEF DiskFits, WaitsWell
<1>4. Orderly(attempts', writes')
  <2>1. \A p \in 1..Len(writes') : writes'[p] \in {Snapshot, Settling} \cup O
    BY DEF CallStep, Range
  <2>2. O \subseteq Positions
    BY DEF CallStep, Ending, Positions, Live
  <2>3. \A i \in O : attempts'[i].node = attempts[i].node
    BY <1>2, <2>2 DEF Same
  <2>4. \A m, p \in 1..Len(writes') : m < p /\ writes'[m] = Snapshot => writes'[p] = Settling
        \/ (writes'[p] \in Positions /\ attempts'[writes'[p]].node = "CHECKPOINT")
    <3> TAKE m, p \in 1..Len(writes')
    <3> HAVE m < p /\ writes'[m] = Snapshot
    <3>0. Orderly(attempts, writes')
      BY DEF CallStep
    <3>1. writes'[p] = Settling \/ (writes'[p] \in Positions
          /\ attempts[writes'[p]].node = "CHECKPOINT")
      BY <3>0 DEF Orderly, Positions
    <3>2. CASE writes'[p] \in {Snapshot, Settling}
      <4>1. Len(attempts) \in Nat
        BY DEF TypeFits
      <4> QED BY <3>1, <3>2, <4>1, Marks DEF Positions
    <3>3. CASE writes'[p] \in O
      <4>1. attempts'[writes'[p]].node = attempts[writes'[p]].node
        BY <2>3, <3>3
      <4> QED BY <3>1, <4>1
    <3> QED BY <2>1, <3>2, <3>3
  <2> QED BY <1>1, <2>4 DEF Orderly, Positions
<1>5. \A r \in 1..Len(rows) : \E j \in Positions : /\ Same(attempts'[j], rows[r])
                               /\ (attempts'[j].state = rows[r].state \/ j \in Pending')
  <2> TAKE r \in 1..Len(rows)
  <2>1. Positions \cap Pending = {}
    <3>1. Len(attempts) \in Nat
      BY DEF TypeFits
    <3> QED BY <3>1, Marks DEF Positions
  <2>2. PICK j \in Positions : Same(attempts[j], rows[r]) /\ attempts[j].state = rows[r].state
    BY <1>1, <2>1 DEF DiskFits
  <2>3. Same(attempts'[j], rows[r])
    BY <1>2, <2>2 DEF Same
  <2> QED BY <1>2, <2>2, <2>3
<1> QED BY <1>1, <1>3, <1>4, <1>5 DEF DiskFits

-----------------------------------------------------------------------------
(***************************************************************************)
(* Calls                                                                   *)
(* finish, fail, cancel and partial_rerun end some live attempts, change the *)
(* core and leave a list of writes; the invariant is kept part by part.    *)
(***************************************************************************)
\* What a call that ends the attempts O may do to the join and its branches.
JoinStep(O) ==
    /\ JoinedUp(core)'
    /\ \A i \in Live \ O :
          /\ attempts[i].node \in Branches => core'.state[attempts[i].node] # "SUCCEEDED"
          /\ attempts[i].node = "JOIN" => \A n \in Branches : core'.state[n] = "SUCCEEDED"
    /\ Settling \notin Pending' =>
          \A i, j \in Live \ O : attempts[i].node \in Branches =>
             /\ core'.state[attempts[i].node] \in LiveStates
             /\ attempts[j].node = attempts[i].node => i = j

\* of the join, when it treats the branches as JoinStep says,
LEMMA CallKeepsJoin ==
    ASSUME TypeFits, JoinFits, NEW O, CallStep(O), JoinStep(O)
    PROVE  JoinFits'
<1>1. /\ Positions' = Positions /\ rows' = rows /\ saved' = saved /\ Branches' = Branches
      /\ Pending' = Range(writes')
  BY DEF CallStep, Ending, Positions, Pending, Branches, Q
<1>2. /\ \A i \in Positions : i \notin O => attempts'[i] = attempts[i]
      /\ \A i \in Positions : i \in O => ~IsLive(attempts'[i])
  BY DEF CallStep, Ending
<1>3. Positions \cap Pending' \subseteq O
  <2>1. Len(attempts) \in Nat
    BY DEF TypeFits
  <2>2. Pending' \subseteq {Snapshot, Settling} \cup O
    BY <1>1 DEF CallStep
  <2> QED BY <2>1, <2>2, Marks DEF Positions
<1>4. \A i \in Positions : IsLive(attempts'[i]) => i \in Live \ O /\ attempts'[i] = attempts[i]
  BY <1>2 DEF Live, IsLive, Positions
<1>5. Live' \subseteq Live \ O /\ \A i \in Live' : attempts'[i] = attempts[i]
  <2>1. \A i \in Live' : i \in Positions /\ IsLive(attempts'[i])
    BY <1>1 DEF Live, IsLive, Positions
  <2> QED BY <1>4, <2>1
<1>6. JoinedUp(core)' /\ JoinedUp(saved)'
  BY <1>1 DEF JoinFits, JoinedUp, JoinStep
<1>7. \A i \in Positions' : Behind(attempts[i], core)'
  <2> TAKE i \in Positions'
  <2>1. CASE IsLive(attempts'[i])
    <3>1. i \in Live \ O /\ attempts'[i] = attempts[i]
      BY <1>1, <1>4, <2>1
    <3>2. /\ attempts[i].node \in Branches => core'.state[attempts[i].node] # "SUCCEEDED"
          /\ attempts[i].node = "JOIN" => \A n \in Branches : core'.state[n] = "SUCCEEDED"
      BY <3>1 DEF JoinStep
    <3> QED BY <1>1, <3>1, <3>2 DEF Behind
  <2>2. CASE ~IsLive(attempts'[i])
    BY <2>2 DEF Behind
  <2> QED BY <2>1, <2>2
<1>8. \A i \in Positions' \cap Pending' : Behind(attempts[i], saved)'
  BY <1>1, <1>2, <1>3 DEF Behind
<1>9. \A r \in 1..Len(rows') : Behind(rows[r], saved)'
  BY <1>1 DEF JoinFits, Behind
<1>10. Settling \notin Pending' =>
          \A i, j \in Live' : attempts'[i].node \in Branches' =>
             /\ core'.state[attempts'[i].node] \in LiveStates
             /\ attempts'[j].node = attempts'[i].node => i = j
  <2> HAVE Settling \notin Pending'
  <2> TAKE i, j \in Live'
  <2>1. i \in Live \ O /\ j \in Live \ O /\ attempts'[i] = attempts[i] /\ attempts'[j] = attempts[j]
    BY <1>5
  <2> QED BY <1>1, <2>1 DEF JoinStep
<1> QED BY <1>6, <1>7, <1>8, <1>9, <1>10 DEF JoinFits

\* A call that ends the attempt i, and with it all others when the end is closed.
LEMMA EndKeepsJoin ==
    ASSUME TypeFits, JoinFits, NEW i \in Live, NEW chosen, NEW end \in Ends \cup {"SUCCEEDED"},
           chosen \subseteq From(attempts[i].node),
           core' \in CoreType(Q), graph' = graph,
           Moves(Q, core, core', attempts[i].node, chosen, end),
           core'.selected \subseteq core.selected \cup chosen,
           end \in Ends => \A e \in chosen : e.type # "ON_SUCCESS",
           end = "SUCCEEDED" => Settling \notin Pending,
           Settling \in Pending => Settling \in Pending'
    PROVE  JoinStep(ClosedAttempts(chosen, attempts[i].node) \cup {i})
<1> DEFINE n == attempts[i].node
           O == ClosedAttempts(chosen, n) \cup {i}
<1>1. /\ n \in Nodes(Q) /\ IsLive(attempts[i]) /\ i \in Positions
      /\ Works(Q) /\ Branches \subseteq Nodes(Q) /\ Branches' = Branches
      /\ Branches # {} => "JOIN" \in Nodes(Q)
  <2>1. attempts[i] \in Attempt
    BY DEF TypeFits, Live
  <2> QED BY <2>1, NodeFacts DEF Attempt, IsLive, Live, Positions, TypeFits, Branches, Q
<1>2. Behind(attempts[i], core)
  BY <1>1 DEF JoinFits
<1>3. \A m \in Branches \cup {"JOIN"} : m \in Nodes(Q) =>
         \/ m = n /\ core'.state[m] = end
         \/ m # n /\ core'.state[m] = core.state[m]
         \/ /\ Closing(chosen) /\ m # n
            /\ core.state[m] \notin DoneStates /\ core'.state[m] \in {"CANCELLED", "SKIPPED"}
  BY DEF Moves, Branches
<1>4. "SUCCEEDED" \in DoneStates /\ "RUNNING" \notin Ends /\ "SUCCEEDED" \notin Ends
  BY DEF DoneStates, Ends
<1>5. \A e \in chosen : e.from = n /\ (e.type = "ON_SUCCESS" => end = "SUCCEEDED")
  BY <1>1, GraphFacts
<1>6. \A m \in Branches : core.state[m] = "SUCCEEDED" => core'.state[m] = "SUCCEEDED"
  <2> TAKE m \in Branches
  <2> HAVE core.state[m] = "SUCCEEDED"
  <2>1. m # n
    BY <1>1, <1>2 DEF Behind
  <2> QED BY <1>1, <1>3, <1>4, <2>1
<1>7. \A m \in Branches : Edge(m, "ON_SUCCESS", "JOIN") \in core'.selected =>
      core'.state[m] = "SUCCEEDED"
  <2> TAKE m \in Branches
  <2> HAVE Edge(m, "ON_SUCCESS", "JOIN") \in core'.selected
  <2>1. CASE Edge(m, "ON_SUCCESS", "JOIN") \in core.selected
    BY <1>6, <2>1 DEF JoinFits, JoinedUp
  <2>2. CASE Edge(m, "ON_SUCCESS", "JOIN") \in chosen
    <3>1. m = n /\ end = "SUCCEEDED"
      BY <1>5, <2>2 DEF Edge
    <3> QED BY <1>1, <1>3, <3>1
  <2> QED BY <2>1, <2>2
<1>8. \A m \in Branches : core'.state["JOIN"] \in {"RUNNING", "SUCCEEDED"} =>
      core'.state[m] = "SUCCEEDED"
  <2> TAKE m \in Branches
  <2> HAVE core'.state["JOIN"] \in {"RUNNING", "SUCCEEDED"}
  <2>1. core'.state["JOIN"] \notin {"CANCELLED", "SKIPPED"} /\ "JOIN" \in Nodes(Q)
    BY <1>1
  <2>2. core.state[m] = "SUCCEEDED"
    <3>1. CASE "JOIN" = n
      BY <1>1, <1>2, <3>1 DEF Behind
    <3>2. CASE "JOIN" # n
      <4>1. core'.state["JOIN"] = core.state["JOIN"]
        BY <1>3, <2>1, <3>2
      <4> QED BY <4>1 DEF JoinFits, JoinedUp
    <3> QED BY <3>1, <3>2
  <2> QED BY <1>6, <2>2
<1>9. \A j \in Live \ O : ~Closing(chosen) \/ attempts[j].node = n
  BY DEF ClosedAttempts
<1>10. \A j \in Live : j \in Positions /\ IsLive(attempts[j]) /\ Behind(attempts[j], core)
  BY DEF JoinFits, Live, Positions, IsLive
<1>11. \A j \in Live \ O : attempts[j].node \in Branches => core'.state[attempts[j].node] # "SUCCEEDED"
  <2> TAKE j \in Live \ O
  <2> HAVE attempts[j].node \in Branches
  <2>1. core.state[attempts[j].node] # "SUCCEEDED"
    BY <1>10 DEF Behind
  <2>2. CASE attempts[j].node = n /\ end = "SUCCEEDED"
    <3>1. i = j
      BY <2>2 DEF JoinFits
    <3> QED BY <3>1
  <2>3. CASE attempts[j].node = n /\ end # "SUCCEEDED"
    BY <1>1, <1>3, <2>3
  <2>4. CASE attempts[j].node # n
    BY <1>1, <1>3, <2>1, <2>4
  <2> QED BY <2>2, <2>3, <2>4
<1>12. \A j \in Live \ O : attempts[j].node = "JOIN" => \A m \in Branches : core'.state[m] = "SUCCEEDED"
  BY <1>6, <1>10 DEF Behind
<1>13. ASSUME Settling \notin Pending'
       PROVE  \A k, j \in Live \ O : attempts[k].node \in Branches =>
             /\ core'.state[attempts[k].node] \in LiveStates
             /\ attempts[j].node = attempts[k].node => k = j
  <2> TAKE k, j \in Live \ O
  <2> HAVE attempts[k].node \in Branches
  <2>1. /\ core.state[attempts[k].node] \in LiveStates
        /\ attempts[j].node = attempts[k].node => k = j
        /\ attempts[i].node = attempts[k].node => k = i
    BY <1>13 DEF JoinFits
  <2>2. attempts[k].node # n /\ ~Closing(chosen)
    BY <1>9, <2>1
  <2>3. core'.state[attempts[k].node] = core.state[attempts[k].node]
    BY <1>1, <1>3, <2>2
  <2> QED BY <2>1, <2>3
<1>14. JoinedUp(core)'
  BY <1>1, <1>7, <1>8 DEF JoinedUp
<1> QED BY <1>11, <1>12, <1>13, <1>14 DEF JoinStep

\* What a call that ends the attempts O may select.
ApprovalStep ==
    HasApproval(Q) /\ GoneOn(core)' => GoneOn(core) \/ Given(attempts)'

\* and of the approval, when it selects what ApprovalStep says.
LEMMA CallKeepsApproval ==
    ASSUME TypeFits, ApprovalFits, Pending \subseteq {Settling}, NEW O, CallStep(O), ApprovalStep
    PROVE  ApprovalFits'
<1> SUFFICES ASSUME HasApproval(Q)' PROVE ApprovalFits'
  BY DEF ApprovalFits
<1>1. /\ Positions' = Positions /\ rows' = rows /\ saved' = saved /\ Q' = Q
      /\ Pending' = Range(writes') /\ Len(attempts') = Len(attempts) /\ loaded /\ HasApproval(Q)
  BY DEF CallStep, Ending, Positions, Pending, Q
<1>2. /\ \A i \in Positions : i \notin O => attempts'[i] = attempts[i]
      /\ \A i \in Positions : i \in O => ~IsLive(attempts'[i])
      /\ \A i \in Positions : attempts'[i].node = attempts[i].node
      /\ \A i \in O : i \in Positions /\ IsLive(attempts[i])
  BY DEF CallStep, Ending, Same, Live, Positions, IsLive
<1>3. /\ Positions \cap Pending' = O /\ Positions \cap Pending = {}
  <2>1. Len(attempts) \in Nat
    BY DEF TypeFits
  <2>2. Pending' \subseteq {Snapshot, Settling} \cup O /\ O \subseteq Pending'
    BY <1>1 DEF CallStep
  <2> QED BY <1>2, <2>1, <2>2, Marks DEF Positions
<1>4. Given(attempts) <=> \E i \in Positions : Approves(attempts[i])
  BY DEF Given, Positions
<1>5. Given(attempts)' <=> \E i \in Positions : Approves(attempts'[i])
  BY <1>1 DEF Given, Positions
<1>6. \A a : Approves(a) => ~IsLive(a)
  BY DEF Approves, IsLive, LiveStates
<1>7. Given(attempts) => Given(attempts)'
  BY <1>2, <1>4, <1>5, <1>6
<1>8. Given(attempts) <=> Given(rows)
  BY <1>1, <1>3 DEF ApprovalFits
<1>9. \A i, j \in Positions : IsApproval(attempts[i]) /\ IsLive(attempts[i])
      /\ IsApproval(attempts[j]) /\ IsLive(attempts[j]) => i = j
  BY <1>1 DEF ApprovalFits, OneApproval, Positions
<1>10. Given(attempts) => \A i \in Positions : IsApproval(attempts[i]) => ~IsLive(attempts[i])
  BY <1>1 DEF ApprovalFits, OneApproval, Positions
<1>11. \A i \in Positions : Approves(attempts'[i]) => Given(attempts) \/ (i \in O
      /\ IsApproval(attempts[i]))
  BY <1>2, <1>4 DEF Approves, IsApproval
<1>12. \A i \in Positions : Later(attempts[i].node) => Given(attempts)
  BY <1>1 DEF ApprovalFits
<1>13. GoneOn(core)' => Given(attempts)'
  BY <1>1, <1>7 DEF ApprovalStep, ApprovalFits
<1>14. \A i \in Positions' : Later(attempts[i].node)' => Given(attempts)'
  BY <1>1, <1>2, <1>7, <1>12 DEF Later
<1>15. (GoneOn(saved) => Given(rows))' /\ (\A r \in 1..Len(rows) : Later(rows[r].node) => Given(rows))'
  BY <1>1 DEF ApprovalFits, GoneOn, Later, Given
<1>16. \A i \in Positions' \cap Pending' : Later(attempts[i].node)' => Given(rows)'
  BY <1>1, <1>2, <1>3, <1>8, <1>12 DEF Later, Given
<1>17. Given(attempts)' => Given(rows)' \/ \E i \in Positions' \cap Pending' : Approves(attempts'[i])
  <2> HAVE Given(attempts)'
  <2>1. PICK i \in Positions : Approves(attempts'[i])
    BY <1>5
  <2>2. CASE Given(attempts)
    BY <1>1, <1>8, <2>2 DEF Given
  <2>3. CASE i \in O
    BY <1>1, <1>3, <2>1, <2>3
  <2> QED BY <1>11, <2>1, <2>2, <2>3
<1>18. Given(rows)' => Given(attempts)'
  BY <1>1, <1>7, <1>8 DEF Given
<1>19. OneApproval(rows)'
  BY <1>1 DEF ApprovalFits, OneApproval, Given
<1>20. \A i, j \in Positions : IsApproval(attempts'[i]) /\ IsLive(attempts'[i])
                                /\ IsApproval(attempts'[j]) /\ IsLive(attempts'[j]) => i = j
  BY <1>2, <1>9
<1>21. Given(attempts)' => \A i \in Positions : IsApproval(attempts'[i]) => ~IsLive(attempts'[i])
  <2> HAVE Given(attempts)'
  <2> TAKE i \in Positions
  <2> HAVE IsApproval(attempts'[i])
  <2>1. CASE Given(attempts)
    BY <1>2, <1>10, <2>1 DEF IsApproval
  <2>2. CASE ~Given(attempts)
    <3>1. PICK j \in O : IsApproval(attempts[j]) /\ Approves(attempts'[j])
      BY <1>5, <1>11, <2>2
    <3>2. CASE i = j
      BY <1>6, <3>1, <3>2
    <3>3. CASE i # j
      BY <1>2, <1>9, <3>1, <3>3 DEF IsApproval
    <3> QED BY <3>2, <3>3
  <2> QED BY <2>1, <2>2
<1>22. OneApproval(attempts)'
  BY <1>1, <1>20, <1>21 DEF OneApproval, Positions
<1>23. \A i, j \in Positions' \cap Pending' : IsApproval(attempts'[i]) /\ IsApproval(attempts'[j]) =>
      i = j
  BY <1>1, <1>2, <1>3, <1>9 DEF IsApproval
<1>24. Given(attempts)' => \A i \in Positions' \cap Pending' : IsApproval(attempts'[i]) =>
      Approves(attempts'[i])
  <2> HAVE Given(attempts)'
  <2> TAKE i \in Positions' \cap Pending'
  <2> HAVE IsApproval(attempts'[i])
  <2>1. i \in O /\ IsApproval(attempts[i]) /\ IsLive(attempts[i]) /\ ~Given(attempts)
    BY <1>1, <1>2, <1>3, <1>10 DEF IsApproval
  <2>2. PICK j \in O : IsApproval(attempts[j]) /\ Approves(attempts'[j])
    BY <1>5, <1>11, <2>1
  <2>3. i = j
    BY <1>2, <1>9, <2>1, <2>2
  <2> QED BY <2>2, <2>3
<1> QED BY <1>13, <1>14, <1>15, <1>16, <1>17, <1>18, <1>19, <1>22, <1>23, <1>24 DEF ApprovalFits

\* A call keeps the invariant.
LEMMA CallKeepsAll ==
    ASSUME GraphInv, Pending \subseteq {Settling}, NEW O, CallStep(O), JoinStep(O), ApprovalStep
    PROVE  GraphInv'
BY CallKeepsTypes, CallKeepsDisk, CallKeepsJoin, CallKeepsApproval DEF GraphInv

\* Edges that are selected when the attempt of a node ends.
LEMMA EndKeepsApproval ==
    ASSUME TypeFits, ApprovalFits, loaded, NEW i \in Live, NEW chosen, NEW O, CallStep(O),
           i \in O, chosen \subseteq From(attempts[i].node),
           core'.selected \subseteq core.selected \cup chosen,
           \/ attempts'[i].state = "SUCCEEDED"
           \/ \A e \in chosen : e.type \in {"ON_RETRYABLE_FAILURE", "ON_FALLBACK", "ON_FAILURE"}
    PROVE  ApprovalStep
<1> DEFINE n == attempts[i].node
<1> SUFFICES ASSUME HasApproval(Q), NEW e \in core'.selected,
                    Later(e.from)' \/ (e.from = "HUMAN_APPROVAL" /\ e.to = "EXECUTOR_SELECT"),
                    ~GoneOn(core)
             PROVE  Given(attempts)'
  BY DEF ApprovalStep, GoneOn
<1>1. Q' = Q /\ Positions' = Positions /\ i \in Positions /\ n \in Nodes(Q) /\ Works(Q)
      /\ attempts'[i].node = n /\ Len(attempts') = Len(attempts)
  <2>1. i \in Positions /\ attempts[i] \in Attempt
    BY DEF TypeFits, Live, Positions
  <2> QED BY <2>1 DEF TypeFits, CallStep, Ending, Q, Positions, Same, Attempt
<1>2. Later(e.from) \/ (e.from = "HUMAN_APPROVAL" /\ e.to = "EXECUTOR_SELECT")
  BY <1>1 DEF Later
<1>3. e \in chosen /\ e.from = n /\ WellMade(Q, e)
  BY <1>1, <1>2, GraphFacts, EdgesMade DEF GoneOn
<1>4. CASE Later(n)
  <2>1. Given(attempts)
    BY <1>1, <1>4 DEF ApprovalFits
  <2>2. PICK j \in Positions : Approves(attempts[j])
    BY <2>1 DEF Given, Positions
  <2>3. j \notin Live
    BY <2>2 DEF Live, Approves, LiveStates
  <2>4. attempts'[j] = attempts[j]
    BY <2>2, <2>3 DEF CallStep, Ending
  <2> QED BY <1>1, <2>2, <2>4 DEF Given, Positions
<1>5. CASE n = "HUMAN_APPROVAL" /\ e.to = "EXECUTOR_SELECT"
  <2>1. e.type \notin {"ON_RETRYABLE_FAILURE", "ON_FALLBACK", "ON_FAILURE"}
    BY <1>3, <1>5 DEF WellMade, Sound
  <2>2. attempts'[i].state = "SUCCEEDED"
    BY <1>3, <2>1
  <2>3. Approves(attempts'[i])
    BY <1>1, <1>5, <2>2 DEF Approves, IsApproval
  <2> QED BY <1>1, <2>3 DEF Given, Positions
<1> QED BY <1>2, <1>3, <1>4, <1>5

\* One attempt ends, and with it all others when its end closes the graph.
EndStep(i, chosen, c, state, end, w) ==
    LET n      == attempts[i].node
        closed == ClosedAttempts(chosen, n)
    IN  /\ loaded /\ Pending \subseteq {Settling}
        /\ chosen \subseteq From(n) /\ c \in CoreType(Q)
        /\ c.selected \subseteq core.selected \cup chosen
        /\ Moves(Q, core, c, n, chosen, end) /\ Effects(Q, core, c, n, chosen)
        /\ Carries(Q, core, c.state, c.selected, n, chosen)
        /\ n = "FINALIZE" => Final(c) \/ c.state[n] = "FAILED"
        /\ c.count = core.count /\ (c.status # core.status => n = "FINALIZE")
        /\ \/ state = "SUCCEEDED" /\ end = "SUCCEEDED" /\ Pending = {}
           \/ /\ state = "FAILED" /\ end \in Ends
              /\ \A e \in chosen : e.type \in {"ON_RETRYABLE_FAILURE", "ON_FALLBACK", "ON_FAILURE"}
              /\ n = "CHECKPOINT" => Closing(chosen)
        /\ \/ w = Persisted(closed, i) /\ Pending = {}
           \/ w = Persisted(closed, i) \o <<Settling>>
        /\ Commit(c, Over(i, state, closed), w)

\* The end of an attempt is such a call.
LEMMA EndIsCall ==
    ASSUME GraphInv, NEW i \in Live, NEW chosen, NEW c, NEW state, NEW end, NEW w,
           EndStep(i, chosen, c, state, end, w)
    PROVE  /\ CallStep(ClosedAttempts(chosen, attempts[i].node) \cup {i})
           /\ core' = c /\ attempts'[i].state = state
           /\ Settling \in Pending => Settling \in Pending'
<1> DEFINE n == attempts[i].node
           closed == ClosedAttempts(chosen, n)
           over == Over(i, state, closed)
           O == closed \cup {i}
<1>1. /\ i \in Positions /\ O \subseteq Live /\ closed \subseteq Positions /\ TypeFits
      /\ attempts \in Seq(Attempt)
  BY DEF ClosedAttempts, Live, Positions, GraphInv, TypeFits
<1>2. DOMAIN over = O /\ over[i] = state /\ \A j \in O : over[j] \in NodeStates \ LiveStates
  BY DEF EndStep, Over, NodeStates, LiveStates, DoneStates
<1>3. /\ w \in Seq(Int) /\ Orderly(attempts, w)
      /\ Range(w) \subseteq {Snapshot, Settling} \cup O /\ O \cup {Snapshot} \subseteq Range(w)
      /\ Settling \in Pending => Settling \in Range(w)
  <2> HIDE DEF closed, over
  <2>1. CASE w = Persisted(closed, i) /\ Pending = {}
    <3>1. w \in Seq(Int) /\ Range(w) = closed \cup {i, Snapshot} /\ Orderly(attempts, w)
      BY <1>1, <2>1, WritesOf
    <3> QED BY <2>1, <3>1
  <2>2. CASE w = Persisted(closed, i) \o <<Settling>>
    <3>1. w \in Seq(Int) /\ Range(w) = closed \cup {i, Snapshot, Settling} /\ Orderly(attempts, w)
      BY <1>1, <2>2, WritesOf
    <3> QED BY <3>1
  <2> QED BY <2>1, <2>2 DEF EndStep, closed
<1>4. Commit(c, over, w) /\ loaded /\ c \in CoreType(Q)
  BY DEF EndStep
<1> HIDE DEF over
<1>5. CallStep(O) /\ core' = c /\ writes' = w /\ attempts'[i].state = state
  <2>1. \A j \in DOMAIN over : over[j] \in NodeStates \ LiveStates
    BY <1>2
  <2>2. CallStep(DOMAIN over) /\ core' = c /\ writes' = w
           /\ \A j \in DOMAIN over : attempts'[j].state = over[j]
    BY <1>1, <1>2, <1>3, <1>4, <2>1, CommitEnds
  <2> QED BY <1>2, <2>2
<1> QED BY <1>3, <1>5 DEF Pending

\* The end of an attempt keeps the invariant.
LEMMA EndKeepsAll ==
    ASSUME GraphInv, NEW i \in Live, NEW chosen, NEW c, NEW state, NEW end, NEW w,
           EndStep(i, chosen, c, state, end, w)
    PROVE  GraphInv'
<1> DEFINE n == attempts[i].node
           O == ClosedAttempts(chosen, n) \cup {i}
<1>1. TypeFits /\ JoinFits /\ ApprovalFits /\ i \in O
  BY DEF GraphInv
<1>2. /\ loaded /\ Pending \subseteq {Settling} /\ chosen \subseteq From(n)
      /\ c \in CoreType(Q) /\ c.selected \subseteq core.selected \cup chosen
      /\ Moves(Q, core, c, n, chosen, end)
      /\ \/ state = "SUCCEEDED" /\ end = "SUCCEEDED" /\ Pending = {}
         \/ /\ state = "FAILED" /\ end \in Ends
            /\ \A e \in chosen : e.type \in {"ON_RETRYABLE_FAILURE", "ON_FALLBACK", "ON_FAILURE"}
  BY DEF EndStep
<1>3. /\ CallStep(O) /\ core' = c /\ attempts'[i].state = state
      /\ Settling \in Pending => Settling \in Pending'
  BY EndIsCall
<1>4. JoinStep(O)
  <2>1. graph' = graph
    BY <1>3 DEF CallStep
  <2>2. end \in Ends => \A e \in chosen : e.type # "ON_SUCCESS"
    BY <1>2 DEF Ends
  <2>3. end = "SUCCEEDED" => Settling \notin Pending
    BY <1>2 DEF Ends
  <2>4. end \in Ends \cup {"SUCCEEDED"}
    BY <1>2
  <2> QED BY <1>1, <1>2, <1>3, <2>1, <2>2, <2>3, <2>4, EndKeepsJoin
<1>5. ApprovalStep
  <2>1. \/ attempts'[i].state = "SUCCEEDED"
        \/ \A e \in chosen : e.type \in {"ON_RETRYABLE_FAILURE", "ON_FALLBACK", "ON_FAILURE"}
    BY <1>2, <1>3
  <2> QED BY <1>1, <1>2, <1>3, <2>1, EndKeepsApproval
<1> QED BY <1>2, <1>3, <1>4, <1>5, CallKeepsAll

\* The calls by which an attempt ends: finish_attempt and fail_attempt.
LEMMA FinishEnds ==
    ASSUME GraphInv, NEW i \in Live, NEW outcome \in Outcomes, NEW fresh \in BOOLEAN,
           NEW status \in Statuses \cup {"none"}, Finish(i, outcome, fresh, status)
    PROVE  \E chosen, c, w : EndStep(i, chosen, c, "SUCCEEDED", "SUCCEEDED", w)
<1> DEFINE n      == attempts[i].node
           chosen == Chosen(n, outcome, fresh)
           closed == ClosedAttempts(chosen, n)
           after  == Applied(n, chosen, fresh)
           c      == [after EXCEPT !.tools = IF n = "TOOL" THEN @ + 1 ELSE @, !.status = status]
<1>1. loaded /\ Pending = {} /\ Works(Q) /\ core \in CoreType(Q) /\ n \in Nodes(Q)
  <2>1. attempts[i] \in Attempt
    BY DEF GraphInv, TypeFits, Live
  <2> QED BY <2>1 DEF Finish, Turn, Pending, Range, GraphInv, TypeFits, Attempt
<1>2. /\ chosen \subseteq From(n) /\ \A e \in chosen : e.max > 0 => core.traversed[e] < e.max
      /\ \A e, f \in chosen : e.type = f.type
      /\ \A e \in chosen : \A f \in From(n) : f.type = e.type => f \in chosen
      /\ \A e \in chosen : e.type \notin {"ON_RETRYABLE_FAILURE", "ON_FALLBACK", "ON_FAILURE"}
      /\ ~fresh => \A e \in chosen : e.max = 0
  BY <1>1, ChosenFacts
<1>3. /\ n = "TOOL" => core.tools < ToolBudget
      /\ fresh => n \notin Executors(Q)
      /\ status # core.status => n = "FINALIZE"
      /\ n # "FINALIZE" => chosen # {}
      /\ n = "FINALIZE" => status # "none"
      /\ Commit(c, Over(i, "SUCCEEDED", closed), Persisted(closed, i))
  BY <1>1, GraphFacts DEF Finish, Statuses
<1> HIDE DEF chosen
<1>4. /\ after \in CoreType(Q) /\ after.selected \subseteq core.selected \cup chosen
      /\ after.status = core.status /\ after.count = core.count /\ after.tools = core.tools
      /\ Moves(Q, core, after, n, chosen, "SUCCEEDED") /\ Effects(Q, core, after, n, chosen)
      /\ Carries(Q, core, after.state, after.selected, n, chosen)
  BY <1>1, <1>2, <1>3, AppliedFacts
<1> HIDE DEF after
<1>5. /\ c \in CoreType(Q) /\ c.selected = after.selected /\ c.state = after.state
      /\ c.traversed = after.traversed /\ c.count = after.count /\ c.status = status
  <2>1. core.tools \in 0..ToolBudget
    BY <1>1 DEF CoreType
  <2>2. (IF n = "TOOL" THEN after.tools + 1 ELSE after.tools) \in 0..ToolBudget
    BY <1>3, <1>4, <2>1, LimitFacts
  <2> QED BY <1>4, <2>2 DEF CoreType
<1>6. /\ Moves(Q, core, c, n, chosen, "SUCCEEDED") /\ Effects(Q, core, c, n, chosen)
      /\ Carries(Q, core, c.state, c.selected, n, chosen)
      /\ n = "FINALIZE" => Final(c)
  BY <1>3, <1>4, <1>5 DEF Moves, Effects, Final
<1> HIDE DEF c
<1>7. EndStep(i, chosen, c, "SUCCEEDED", "SUCCEEDED", Persisted(closed, i))
  BY <1>1, <1>2, <1>3, <1>4, <1>5, <1>6 DEF EndStep
<1> QED BY <1>7

\* A failure, of a call or found by resume, ends an attempt.
LEMMA FailEnds ==
    ASSUME GraphInv, NEW i \in Live, NEW retryable \in BOOLEAN, loaded, Pending \subseteq {Settling},
           NEW w,
           LET f == Failed(attempts[i].node, retryable)
               closed == ClosedAttempts(f.chosen, attempts[i].node)
           IN  /\ \/ w = Persisted(closed, i) /\ Pending = {}
                  \/ w = Persisted(closed, i) \o <<Settling>>
               /\ Commit(f.core, Over(i, "FAILED", closed), w)
    PROVE  \E chosen, c, end : EndStep(i, chosen, c, "FAILED", end, w)
<1> DEFINE n == attempts[i].node
           f == Failed(n, retryable)
<1>1. Works(Q) /\ core \in CoreType(Q) /\ n \in Nodes(Q)
  <2>1. attempts[i] \in Attempt
    BY DEF GraphInv, TypeFits, Live
  <2> QED BY <2>1 DEF GraphInv, TypeFits, Attempt
<1>2. /\ f.core \in CoreType(Q) /\ f.chosen \subseteq From(n)
      /\ f.core.selected \subseteq core.selected \cup f.chosen
      /\ \A e \in f.chosen : e.type \in {"ON_RETRYABLE_FAILURE", "ON_FALLBACK", "ON_FAILURE"}
      /\ f.core.status = core.status /\ f.core.count = core.count
      /\ \E end \in Ends : Moves(Q, core, f.core, n, f.chosen, end)
      /\ Effects(Q, core, f.core, n, f.chosen)
      /\ n = "CHECKPOINT" => Closing(f.chosen)
      /\ Carries(Q, core, f.core.state, f.core.selected, n, f.chosen)
      /\ n = "FINALIZE" => f.core.state[n] = "FAILED"
  BY <1>1, FailedFacts
<1>3. LET closed == ClosedAttempts(f.chosen, n)
      IN  /\ \/ w = Persisted(closed, i) /\ Pending = {}
             \/ w = Persisted(closed, i) \o <<Settling>>
          /\ Commit(f.core, Over(i, "FAILED", closed), w)
  OBVIOUS
<1> HIDE DEF f
<1>4. PICK end \in Ends : Moves(Q, core, f.core, n, f.chosen, end)
  BY <1>2
<1>5. EndStep(i, f.chosen, f.core, "FAILED", end, w)
  BY <1>2, <1>3, <1>4 DEF EndStep
<1> QED BY <1>5

\* fail_attempt ends an attempt.
LEMMA FailIsEnd ==
    ASSUME GraphInv, NEW i \in Live, NEW retryable \in BOOLEAN, Fail(i, retryable)
    PROVE  \E chosen, c, end, w : EndStep(i, chosen, c, "FAILED", end, w)
<1> DEFINE n == attempts[i].node
           f == Failed(n, retryable)
           w == Persisted(ClosedAttempts(f.chosen, n), i)
<1>1. loaded /\ Pending = {}
  BY DEF Fail, Idle, Pending, Range
<1>2. Commit(f.core, Over(i, "FAILED", ClosedAttempts(f.chosen, n)), w)
  BY DEF Fail
<1>3. \E chosen, c, end : EndStep(i, chosen, c, "FAILED", end, w)
  BY <1>1, <1>2, FailEnds
<1> QED BY <1>3

\* finish_attempt
LEMMA FinishKeeps ==
    ASSUME GraphInv, NEW i \in Live, NEW outcome \in Outcomes, NEW fresh \in BOOLEAN,
           NEW status \in Statuses \cup {"none"}, Finish(i, outcome, fresh, status)
    PROVE  GraphInv'
BY FinishEnds, EndKeepsAll

\* fail_attempt
LEMMA FailKeeps ==
    ASSUME GraphInv, NEW i \in Live, NEW retryable \in BOOLEAN, Fail(i, retryable)
    PROVE  GraphInv'
BY FailIsEnd, EndKeepsAll

-----------------------------------------------------------------------------
(***************************************************************************)
(* The calls one by one                                                    *)
(***************************************************************************)
\* A non-empty set of natural numbers has a least element, which Min is,
LEMMA Smallest ==
    ASSUME NEW S, S \subseteq Nat, S # {}
    PROVE  Min(S) \in S /\ \A k \in S : Min(S) <= k
<1>1. \E m \in S : \A y \in S : <<y, m>> \notin OpToRel(<, Nat)
  BY NatLessThanWellFounded, WFMin, Zenon
<1>2. PICK m \in S : \A y \in S : ~(y < m)
  BY <1>1 DEF OpToRel
<1>3. \A y \in S : m <= y
  BY <1>2
<1> QED BY <1>3 DEF Min

\* and a bounded one a greatest, which Max is.
LEMMA Largest ==
    ASSUME NEW S, NEW b \in Nat, S \subseteq 1..b, S # {}
    PROVE  Max(S) \in S /\ \A k \in S : k <= Max(S)
<1> DEFINE T == {k \in Nat : \A j \in S : j <= k}
           m == Min(T)
<1>1. T \subseteq Nat /\ b \in T
  OBVIOUS
<1>2. m \in T /\ \A k \in T : m <= k
  BY <1>1, Smallest
<1> HIDE DEF m
<1>3. m \in S
  <2> SUFFICES ASSUME m \notin S PROVE FALSE
    OBVIOUS
  <2>1. m \in Nat /\ \A j \in S : j \in Nat /\ 1 <= j /\ j <= m /\ j # m
    BY <1>2
  <2>2. m - 1 \in Nat /\ \A j \in S : j <= m - 1
    <3>1. PICK j \in S : TRUE
      OBVIOUS
    <3> QED BY <2>1, <3>1
  <2>3. m - 1 \in T
    BY <2>2
  <2> QED BY <1>2, <2>1, <2>3
<1> QED BY <1>2, <1>3 DEF Max

\* cancel ends everything that is live and opens the terminal node.
CancelStep(from) ==
    /\ loaded /\ Pending = {} /\ ~Final(core) /\ CallStep(Live)
    /\ from \in Nodes(Q) \ {"FINALIZE"}
    /\ from = "CLASSIFY" \/ \E i \in Live : from = attempts[i].node
    /\ core'.selected = core.selected \cup {Edge(from, "ON_FAILURE", "FINALIZE")}
    /\ core'.status = core.status /\ core'.count = core.count /\ core'.traversed = core.traversed
    /\ \A n \in Nodes(Q) :
          core'.state[n] = IF n = "FINALIZE" THEN "WAITING_DEPENDENCY"
                           ELSE IF core.state[n] \in DoneStates THEN core.state[n] ELSE "CANCELLED"

\* cancel is such a step, and a call that ends all live attempts.
LEMMA CancelIsCall ==
    ASSUME GraphInv, Cancel
    PROVE  \E from : CancelStep(from)
<1> DEFINE newest == IF Live = {} THEN "CLASSIFY" ELSE attempts[Max(Live)].node
           from   == IF newest = "FINALIZE" THEN "CLASSIFY" ELSE newest
           e      == Edge(from, "ON_FAILURE", "FINALIZE")
           st     == [n \in Nodes(Q) |->
                        IF n = "FINALIZE" THEN "WAITING_DEPENDENCY"
                        ELSE IF core.state[n] \in DoneStates THEN core.state[n] ELSE "CANCELLED"]
           c      == [core EXCEPT !.selected = core.selected \cup {e}, !.state = st]
           over   == [i \in Live |-> "CANCELLED"]
           w      == SetToSeq(Live) \o <<Snapshot>>
<1>1. loaded /\ Pending = {} /\ Works(Q) /\ core \in CoreType(Q) /\ TypeFits
      /\ Live \subseteq Positions /\ attempts \in Seq(Attempt) /\ Len(attempts) \in Nat
  BY DEF Cancel, Idle, Pending, Range, GraphInv, TypeFits, Live, Positions
<1>2. Commit(c, over, w)
  <2>1. DOMAIN core.state = Nodes(Q)
    BY <1>1 DEF CoreType
  <2> QED BY <2>1 DEF Cancel
<1>3. from = "CLASSIFY" \/ \E i \in Live : from = attempts[i].node
  <2>1. Live # {} => Max(Live) \in Live
    BY <1>1, Largest DEF Positions
  <2> QED BY <2>1
<1>4. from \in Nodes(Q) \ {"FINALIZE"}
  <2>1. ASSUME NEW i \in Live PROVE attempts[i].node \in Nodes(Q)
    <3>1. attempts[i] \in Attempt
      BY <1>1 DEF Positions
    <3> QED BY <3>1 DEF Attempt
  <2> HIDE DEF newest
  <2> QED BY <1>3, <2>1, NodeFacts
<1> HIDE DEF newest, from
<1>5. e \in Edges(Q) /\ e.from = from /\ e.type = "ON_FAILURE" /\ e.to = "FINALIZE"
  BY <1>4 DEF Edges, FailurePart, EdgesTo, Edge
<1> HIDE DEF e
<1>6. st \in [Nodes(Q) -> NodeStates]
  BY <1>1 DEF CoreType, NodeStates
<1>7. c \in CoreType(Q) /\ c.state = st /\ c.selected = core.selected \cup {e}
  <2> HIDE DEF st
  <2> QED BY <1>1, <1>5, <1>6 DEF CoreType
<1> HIDE DEF c
<1>8. w \in Seq(Int) /\ Range(w) = Live \cup {Snapshot} /\ Orderly(attempts, w)
  <2>1. CASE Positions = {}
    <3>1. IsFiniteSet(Live) /\ Live = {}
      BY <1>1, <2>1, FS_EmptySet
    <3>2. SetToSeq(Live) \in Seq(Live) /\ Range(SetToSeq(Live)) = {}
      BY <3>1, Listed
    <3>3. SetToSeq(Live) = <<>>
      BY <3>1, <3>2
    <3>4. w = <<Snapshot>>
      BY <3>3
    <3> HIDE DEF w
    <3> QED BY <3>1, <3>4, Tuples, Marks DEF Orderly
  <2>2. CASE Positions # {}
    BY <1>1, <2>2, WritesOf
  <2> QED BY <2>1, <2>2
<1> HIDE DEF w
<1>9. CallStep(Live) /\ core' = c
  <2>1. DOMAIN over = Live /\ \A i \in Live : over[i] \in NodeStates \ LiveStates
    BY DEF NodeStates, LiveStates
  <2> HIDE DEF over
  <2> QED BY <1>1, <1>2, <1>7, <1>8, <2>1, CommitEnds
<1>10. CancelStep(from)
  <2>1. /\ c.status = core.status /\ c.count = core.count /\ c.traversed = core.traversed
        /\ ~Final(core)
    BY <1>1 DEF Cancel, CoreType, c
  <2> QED BY <1>1, <1>3, <1>4, <1>7, <1>9, <2>1 DEF CancelStep, e
<1> QED BY <1>10

\* cancel
LEMMA CancelKeeps ==
    ASSUME GraphInv, Cancel
    PROVE  GraphInv'
<1>1. PICK from : CancelStep(from)
  BY CancelIsCall
<1> DEFINE e == Edge(from, "ON_FAILURE", "FINALIZE")
<1>2. /\ loaded /\ Pending = {} /\ CallStep(Live) /\ from \in Nodes(Q) \ {"FINALIZE"}
      /\ from = "CLASSIFY" \/ \E i \in Live : from = attempts[i].node
      /\ core'.selected = core.selected \cup {e}
  BY <1>1 DEF CancelStep
<1>3. e.from = from /\ e.type = "ON_FAILURE" /\ e.to = "FINALIZE"
  BY DEF Edge
<1> HIDE DEF e
<1>4. \A n \in Branches \cup {"JOIN"} : n \in Nodes(Q) =>
          IF core.state[n] \in DoneStates THEN core'.state[n] = core.state[n] ELSE core'.state[n] = "CANCELLED"
  <2>1. "FINALIZE" \notin Branches \cup {"JOIN"}
    BY BranchNames DEF Branches
  <2> QED BY <1>1, <2>1 DEF CancelStep
<1>5. JoinedUp(core)'
  <2>1. Branches' = Branches /\ Branches \subseteq Nodes(Q) /\ (Branches # {} => "JOIN" \in Nodes(Q))
    BY <1>2, NodeFacts DEF CallStep, Branches, Q
  <2>2. \A n \in Branches : core.state[n] = "SUCCEEDED" => core'.state[n] = "SUCCEEDED"
    BY <1>4, <2>1 DEF DoneStates
  <2>3. \A n \in Branches : Edge(n, "ON_SUCCESS", "JOIN") \in core'.selected =>
        Edge(n, "ON_SUCCESS", "JOIN") \in core.selected
    BY <1>2, <1>3 DEF Edge
  <2>4. \A n \in Branches : core'.state["JOIN"] \in {"RUNNING", "SUCCEEDED"} =>
        core.state["JOIN"] \in {"RUNNING", "SUCCEEDED"}
    BY <1>4, <2>1
  <2> QED BY <2>1, <2>2, <2>3, <2>4 DEF GraphInv, JoinFits, JoinedUp
<1>6. JoinStep(Live)
  BY <1>5 DEF JoinStep
<1>7. ApprovalStep
  <2> SUFFICES ASSUME HasApproval(Q), GoneOn(core)', ~GoneOn(core) PROVE Given(attempts)'
    BY DEF ApprovalStep
  <2>1. Q' = Q /\ Len(attempts') = Len(attempts)
    BY <1>2 DEF CallStep, Ending, Q
  <2>2. Later(from)
    BY <1>2, <1>3, <2>1 DEF GoneOn, Later
  <2>3. \E i \in Live : from = attempts[i].node
    BY <1>2, <2>2 DEF Later, Ahead
  <2>4. Given(attempts)
    BY <1>2, <2>2, <2>3 DEF GraphInv, ApprovalFits, Live, Positions
  <2>5. PICK j \in Positions : Approves(attempts[j])
    BY <2>4 DEF Given, Positions
  <2>6. j \notin Live
    BY <2>5 DEF Live, Approves, LiveStates
  <2>7. attempts'[j] = attempts[j]
    BY <1>2, <2>5, <2>6 DEF CallStep, Ending
  <2> QED BY <2>1, <2>5, <2>7 DEF Given, Positions
<1> QED BY <1>2, <1>6, <1>7, CallKeepsAll

\* A call that ends no attempt.
LEMMA QuietCommit ==
    ASSUME TypeFits, loaded, NEW c \in CoreType(Q), Commit(c, <<>>, <<Snapshot>>)
    PROVE  CallStep({}) /\ core' = c /\ writes' = <<Snapshot>>
<1>1. DOMAIN <<>> = {}
  OBVIOUS
<1>2. /\ <<Snapshot>> \in Seq(Int) /\ Range(<<Snapshot>>) = {Snapshot}
      /\ Orderly(attempts, <<Snapshot>>)
  BY Tuples, Marks DEF Orderly
<1> QED BY <1>1, <1>2, CommitEnds

\* partial_rerun of the Executor's evidence ends no attempt.
RerunStep ==
    LET n == "EXECUTOR_EVIDENCE"
    IN  /\ loaded /\ Pending = {} /\ ~Final(core) /\ CallStep({})
        /\ n \in Branches /\ {n, "JOIN"} \subseteq Below(n) /\ Below(n) \cap Branches = {n}
        /\ Into("FINALIZE") \cap core.selected = {} /\ LiveNodes \subseteq {"EXECUTOR_PRIMARY"}
        /\ ~Final(core') /\ core'.selected \subseteq core.selected
        /\ \A e \in core'.selected : e.from \notin Below(n)
        /\ \A e \in core.selected : e.from \notin Below(n) => e \in core'.selected
        /\ "TOOL" \notin Below(n)
        /\ \A m \in Nodes(Q) \ Below(n) : core'.state[m] = core.state[m]
        /\ \A m \in Nodes(Q) : m \in Below(n) => core'.state[m] \in {"QUEUED", "WAITING_DEPENDENCY"}
        /\ core'.state["JOIN"] = "WAITING_DEPENDENCY"

\* partial_rerun is such a step, and a call that ends no attempt.
LEMMA RerunIsCall ==
    ASSUME GraphInv, PartialRerun
    PROVE  RerunStep
<1> DEFINE n == "EXECUTOR_EVIDENCE"
           r == Reopened(core, n, "QUEUED")
           s == IF "FINALIZE" \in Below(n) THEN "none" ELSE r.status
           c == [r EXCEPT !.status = s]
<1>1. /\ loaded /\ Pending = {} /\ Works(Q) /\ core \in CoreType(Q) /\ TypeFits /\ ~Final(core)
      /\ Into("FINALIZE") \cap core.selected = {}
  BY DEF PartialRerun, Idle, Pending, Range, GraphInv, TypeFits
<1>2. n \in Branches
  <2>1. n \in Nodes(Q)
    BY <1>1, GraphFacts DEF PartialRerun
  <2> QED BY <2>1 DEF Nodes, ProviderNodes, Executors, Branches
<1>3. "QUEUED" \in NodeStates /\ n \in Nodes(Q) /\ "JOIN" \in Nodes(Q) /\ Branches \subseteq Nodes(Q)
  BY <1>2, NodeFacts DEF NodeStates, Branches
<1>4. Commit(c, <<>>, <<Snapshot>>) /\ LiveNodes \subseteq {"EXECUTOR_PRIMARY"}
  BY DEF PartialRerun
<1>5. /\ r \in CoreType(Q) /\ r.selected \subseteq core.selected
      /\ \A e \in r.selected : e.from \notin Below(n)
      /\ \A e \in core.selected : e.from \notin Below(n) => e \in r.selected
      /\ \A m \in Nodes(Q) \ (Below(n) \cup {n}) : r.state[m] = core.state[m]
      /\ r.state[n] = "QUEUED" /\ r.status = core.status
      /\ \A m \in Nodes(Q) : m # n /\ m \in Below(n) => r.state[m] = "WAITING_DEPENDENCY"
  BY <1>1, <1>3, ReopenedFacts
<1> HIDE DEF r
<1>6. c \in CoreType(Q) /\ c.state = r.state /\ c.selected = r.selected /\ c.status = "none"
  <2>1. s \in Statuses \cup {"none"} /\ s = "none"
    BY <1>1, <1>5 DEF CoreType, Final
  <2> HIDE DEF s
  <2> QED BY <1>5, <2>1 DEF CoreType
<1> HIDE DEF c
<1>7. CallStep({}) /\ core' = c
  BY <1>1, <1>4, <1>6, QuietCommit
<1>8. {n, "JOIN"} \subseteq Below(n) /\ Below(n) \cap Branches = {n}
  BY <1>1, <1>2, <1>3, GraphFacts, BelowEvidence DEF Branches
<1>9. "TOOL" \notin Below(n)
  BY <1>1, <1>3, GraphFacts, BelowTool
<1> QED BY <1>1, <1>2, <1>3, <1>4, <1>5, <1>6, <1>7, <1>8, <1>9 DEF RerunStep, Final

\* partial_rerun
LEMMA RerunKeeps ==
    ASSUME GraphInv, PartialRerun
    PROVE  GraphInv'
<1> DEFINE n == "EXECUTOR_EVIDENCE"
<1>1. RerunStep
  BY RerunIsCall
<1>2. CallStep({}) /\ Branches \subseteq Nodes(Q) /\ loaded /\ Pending = {}
  BY <1>1, NodeFacts DEF RerunStep, Branches
<1>3. JoinedUp(core)'
  <2>1. Branches' = Branches
    BY <1>2 DEF CallStep, Branches, Q
  <2>2. core'.state["JOIN"] = "WAITING_DEPENDENCY"
    BY <1>1 DEF RerunStep
  <2>3. ASSUME NEW m \in Branches, Edge(m, "ON_SUCCESS", "JOIN") \in core'.selected
        PROVE  core'.state[m] = "SUCCEEDED"
    <3>1. m \notin Below(n)
      BY <1>1, <2>3 DEF RerunStep, Edge
    <3>2. core'.state[m] = core.state[m] /\ core'.selected \subseteq core.selected
      BY <1>1, <1>2, <3>1 DEF RerunStep
    <3> QED BY <2>3, <3>2 DEF GraphInv, JoinFits, JoinedUp
  <2> QED BY <2>1, <2>2, <2>3 DEF JoinedUp
<1>4. JoinStep({})
  <2>1. \A i \in Live : attempts[i].node = "EXECUTOR_PRIMARY"
    BY <1>1 DEF RerunStep, LiveNodes
  <2>2. "EXECUTOR_PRIMARY" \notin Branches
    BY BranchNames DEF Branches
  <2> QED BY <1>3, <2>1, <2>2 DEF JoinStep
<1>5. ApprovalStep
  <2>1. GoneOn(core)' => GoneOn(core)
    <3>1. Q' = Q
      BY <1>2 DEF CallStep, Q
    <3> QED BY <1>1, <3>1 DEF RerunStep, GoneOn, Later
  <2> QED BY <2>1 DEF ApprovalStep
<1> QED BY <1>2, <1>4, <1>5, CallKeepsAll

-----------------------------------------------------------------------------
(***************************************************************************)
(* Recovery, leaving and loading                                           *)
(***************************************************************************)
\* resume fails the oldest attempt that the restart interrupted.
LEMMA SettleIsEnd ==
    ASSUME GraphInv, Settle, Interrupted # {}
    PROVE  \E i \in Live : \E chosen, c, end, w : EndStep(i, chosen, c, "FAILED", end, w)
<1> DEFINE i == Min(Interrupted)
           n == attempts[i].node
           f == Failed(n, TRUE)
           w == Persisted(ClosedAttempts(f.chosen, n), i) \o <<Settling>>
<1>1. loaded /\ Pending = {Settling} /\ Len(attempts) \in Nat
  BY Tuples, Marks DEF Settle, Pending, GraphInv, TypeFits
<1>2. i \in Live
  <2>1. Interrupted \subseteq Nat
    BY <1>1 DEF Interrupted, Live
  <2>2. i \in Interrupted
    BY <2>1, Smallest
  <2> QED BY <2>2 DEF Interrupted
<1>3. Commit(f.core, Over(i, "FAILED", ClosedAttempts(f.chosen, n)), w)
  BY DEF Settle
<1> HIDE DEF i
<1>4. \E chosen, c, end : EndStep(i, chosen, c, "FAILED", end, w)
  BY <1>1, <1>2, <1>3, FailEnds
<1> QED BY <1>2, <1>4

\* resume: one interrupted attempt fails, or the recovery is over
LEMMA SettleKeeps ==
    ASSUME GraphInv, Settle
    PROVE  GraphInv'
<1>1. loaded /\ writes = <<Settling>> /\ Pending = {Settling} /\ Works(Q) /\ core \in CoreType(Q)
      /\ TypeFits /\ attempts \in Seq(Attempt) /\ Len(attempts) \in Nat
  BY Tuples, Marks DEF Settle, Pending, GraphInv, TypeFits
<1>2. Positions \cap Pending = {} /\ Snapshot \notin Pending /\ saved = core
  BY <1>1, Marks DEF Positions, GraphInv, DiskFits
<1>3. CASE Interrupted = {} /\ Usable
  <2>1. CallStep({}) /\ core' = core
    BY <1>1, <1>3, QuietCommit DEF Settle
  <2>2. JoinStep({})
    <3>1. JoinedUp(core)'
      BY <2>1 DEF GraphInv, JoinFits, JoinedUp, CallStep, Branches, Q
    <3>2. \A i \in Live : Behind(attempts[i], core) /\ IsLive(attempts[i])
      BY DEF GraphInv, JoinFits, Live, Positions, IsLive
    <3>3. ASSUME NEW i \in Live PROVE attempts[i].node \notin Branches
      <4>1. attempts[i].state \in LiveStates \ {"RUNNING"} /\ WaitsWell(attempts[i])
        BY <1>3 DEF Interrupted, Live, GraphInv, DiskFits, Positions
      <4>2. attempts[i].node \in {"HUMAN_APPROVAL", "TOOL"}
        BY <4>1 DEF WaitsWell, LiveStates, IsLive
      <4> QED BY <4>2, BranchNames DEF Branches
    <3> QED BY <2>1, <3>1, <3>2, <3>3 DEF JoinStep, Behind
  <2>3. ApprovalStep
    BY <2>1 DEF ApprovalStep, GoneOn, Later, CallStep, Q
  <2> QED BY <1>1, <2>1, <2>2, <2>3, CallKeepsAll
<1>4. CASE Interrupted = {} /\ ~Usable
  <2>1. /\ saved' = core /\ loaded' = FALSE /\ writes' = <<>> /\ attempts' = <<>>
        /\ UNCHANGED <<graph, core, rows, loads>>
    BY <1>4 DEF Settle
  <2>2. /\ Q' = Q /\ Branches' = Branches /\ Pending' = {} /\ Positions' = {} /\ Live' = {}
    BY <2>1 DEF Q, Branches, Pending, Positions, Live, Range
  <2>3. TypeFits'
    <3>1. attempts' \in Seq(Attempt') /\ writes' \in Seq(Int) /\ Attempt' = Attempt
      BY <2>1, <2>2 DEF Attempt
    <3> QED BY <1>1, <2>1, <2>2, <3>1 DEF TypeFits, Works
  <2>4. DiskFits'
    BY <2>1, <2>2 DEF GraphInv, DiskFits, Orderly
  <2>5. JoinFits'
    <3>1. JoinedUp(core)' /\ JoinedUp(saved)'
      BY <2>1, <2>2 DEF GraphInv, JoinFits, JoinedUp
    <3>2. ASSUME NEW r \in 1..Len(rows) PROVE Behind(rows[r], core)
      <4>1. PICK j \in Positions : Same(attempts[j], rows[r]) /\ attempts[j].state = rows[r].state
        BY <1>1, <1>2 DEF GraphInv, DiskFits
      <4>2. Behind(attempts[j], core)
        BY DEF GraphInv, JoinFits
      <4> QED BY <4>1, <4>2 DEF Behind, Same, IsLive
    <3>3. \A r \in 1..Len(rows') : Behind(rows[r], saved)'
      BY <2>1, <2>2, <3>2 DEF Behind
    <3> QED BY <2>2, <3>1, <3>3 DEF JoinFits
  <2>6. ApprovalFits'
    <3> SUFFICES ASSUME HasApproval(Q)' PROVE ApprovalFits'
      BY DEF ApprovalFits
    <3>1. ~Given(attempts)' /\ (Given(rows)' <=> Given(rows))
      BY <2>1 DEF Given
    <3>2. (GoneOn(saved) => Given(rows))'
      <4>1. GoneOn(core) => Given(rows)
        BY <1>1, <1>2, <2>2 DEF GraphInv, ApprovalFits
      <4> QED BY <2>1, <2>2, <3>1, <4>1 DEF GoneOn, Later
    <3>3. (\A r \in 1..Len(rows) : Later(rows[r].node) => Given(rows))'
      BY <2>1, <2>2, <3>1 DEF GraphInv, ApprovalFits, Later
    <3>4. OneApproval(rows)' /\ OneApproval(attempts)'
      BY <2>1, <2>2 DEF GraphInv, ApprovalFits, OneApproval, Given
    <3> QED BY <2>1, <2>2, <3>1, <3>2, <3>3, <3>4 DEF ApprovalFits
  <2> QED BY <2>3, <2>4, <2>5, <2>6 DEF GraphInv
<1>5. CASE Interrupted # {}
  BY <1>5, SettleIsEnd, EndKeepsAll
<1> QED BY <1>3, <1>4, <1>5

\* The request is over or the process dies.
LEMMA LeaveKeeps ==
    ASSUME GraphInv, Leave
    PROVE  GraphInv'
<1>1. /\ loaded' = FALSE /\ writes' = <<>> /\ attempts' = <<>> /\ core' = saved
      /\ UNCHANGED <<graph, rows, saved, loads>>
  BY DEF Leave
<1>2. /\ Q' = Q /\ Branches' = Branches /\ Pending' = {} /\ Positions' = {} /\ Live' = {}
  BY <1>1 DEF Q, Branches, Pending, Positions, Live, Range
<1>3. TypeFits'
  <2>1. attempts' \in Seq(Attempt') /\ writes' \in Seq(Int) /\ Attempt' = Attempt
    BY <1>1, <1>2 DEF Attempt
  <2> QED BY <1>1, <1>2, <2>1 DEF GraphInv, TypeFits, Works
<1>4. DiskFits'
  BY <1>1, <1>2 DEF GraphInv, DiskFits, Orderly
<1>5. JoinFits'
  <2>1. JoinedUp(core)' /\ JoinedUp(saved)'
    BY <1>1, <1>2 DEF GraphInv, JoinFits, JoinedUp
  <2>2. \A r \in 1..Len(rows') : Behind(rows[r], saved)'
    BY <1>1, <1>2 DEF GraphInv, JoinFits, Behind
  <2> QED BY <1>2, <2>1, <2>2 DEF JoinFits
<1>6. ApprovalFits'
  <2> SUFFICES ASSUME HasApproval(Q)' PROVE ApprovalFits'
    BY DEF ApprovalFits
  <2>1. ~Given(attempts)' /\ (Given(rows)' <=> Given(rows))
    BY <1>1 DEF Given
  <2>2. (GoneOn(saved) => Given(rows))'
    BY <1>1, <1>2, <2>1 DEF GraphInv, ApprovalFits, GoneOn, Later
  <2>3. (\A r \in 1..Len(rows) : Later(rows[r].node) => Given(rows))'
    BY <1>1, <1>2, <2>1 DEF GraphInv, ApprovalFits, Later
  <2>4. OneApproval(rows)' /\ OneApproval(attempts)'
    BY <1>1, <1>2 DEF GraphInv, ApprovalFits, OneApproval, Given
  <2> QED BY <1>1, <1>2, <2>1, <2>2, <2>3, <2>4 DEF ApprovalFits
<1> QED BY <1>3, <1>4, <1>5, <1>6 DEF GraphInv

\* load_runtime
LEMMA LoadKeeps ==
    ASSUME GraphInv, Load
    PROVE  GraphInv'
<1>1. /\ ~loaded /\ loads < MaxLoads /\ loads' = loads + 1 /\ loaded' = TRUE
      /\ core' = saved /\ attempts' = rows /\ writes' = <<Settling>>
      /\ UNCHANGED <<graph, rows, saved>>
  BY DEF Load
<1>2. Len(rows) \in Nat /\ rows \in Seq(Attempt) /\ Works(Q) /\ saved \in CoreType(Q)
      /\ loads \in 0..MaxLoads
  BY DEF GraphInv, TypeFits
<1>3. /\ Q' = Q /\ Branches' = Branches /\ Pending' = {Settling} /\ Positions' = 1..Len(rows)
      /\ Attempt' = Attempt /\ writes' \in Seq(Int)
  BY <1>1, Tuples, Marks DEF Q, Branches, Pending, Positions, Attempt
<1>4. Positions' \cap Pending' = {} /\ Snapshot \notin Pending'
  BY <1>2, <1>3, Marks
<1>5. TypeFits'
  <2>1. loads' \in 0..MaxLoads
    BY <1>1, <1>2, GraphAssumption
  <2> QED BY <1>1, <1>2, <1>3, <2>1 DEF TypeFits, Works
<1>6. DiskFits'
  <2>1. Orderly(attempts, writes)'
    BY <1>1, Tuples, Marks DEF Orderly
  <2> QED BY <1>1, <1>3, <2>1 DEF GraphInv, DiskFits, Same, WaitsWell
<1>7. JoinFits'
  <2>1. JoinedUp(core)' /\ JoinedUp(saved)'
    BY <1>1, <1>3 DEF GraphInv, JoinFits, JoinedUp
  <2>2. \A r \in 1..Len(rows') : Behind(rows[r], saved)'
    BY <1>1, <1>3 DEF GraphInv, JoinFits, Behind
  <2>3. \A r \in Positions' : Behind(attempts[r], core)'
    BY <1>1, <1>3 DEF GraphInv, JoinFits, Behind
  <2> QED BY <1>3, <1>4, <2>1, <2>2, <2>3 DEF JoinFits
<1>8. ApprovalFits'
  <2> SUFFICES ASSUME HasApproval(Q)' PROVE ApprovalFits'
    BY DEF ApprovalFits
  <2>1. (Given(attempts)' <=> Given(rows)) /\ (Given(rows)' <=> Given(rows))
    BY <1>1 DEF Given
  <2>2. (GoneOn(saved) => Given(rows))' /\ (GoneOn(core) => Given(attempts))'
    BY <1>1, <1>3, <2>1 DEF GraphInv, ApprovalFits, GoneOn, Later
  <2>3. /\ (\A r \in 1..Len(rows) : Later(rows[r].node) => Given(rows))'
        /\ (\A i \in Positions : Later(attempts[i].node) => Given(attempts))'
    BY <1>1, <1>3, <2>1 DEF GraphInv, ApprovalFits, Later
  <2>4. OneApproval(rows)' /\ OneApproval(attempts)'
    BY <1>1, <1>3 DEF GraphInv, ApprovalFits, OneApproval, Given
  <2> QED BY <1>1, <1>4, <2>1, <2>2, <2>3, <2>4 DEF ApprovalFits
<1> QED BY <1>5, <1>6, <1>7, <1>8 DEF GraphInv

-----------------------------------------------------------------------------
(***************************************************************************)
(* The writes                                                              *)
(***************************************************************************)
\* save_attempt replaces the row with the attempt's id or adds one.
LEMMA UpsertFacts ==
    ASSUME rows \in Seq(Attempt), NEW row \in Attempt,
           \A r, s \in 1..Len(rows) : Same(rows[r], rows[s]) => r = s
    PROVE  LET new == Upsert(row)
           IN  /\ new \in Seq(Attempt)
               /\ \A r \in 1..Len(new) :
                     \/ new[r] = row
                     \/ r \in 1..Len(rows) /\ new[r] = rows[r] /\ ~Same(rows[r], row)
               /\ \A r \in 1..Len(rows) :
                     r \in 1..Len(new) /\ (new[r] = rows[r] \/ (Same(rows[r], row) /\ new[r] = row))
               /\ \E r \in 1..Len(new) : new[r] = row
               /\ \A r, s \in 1..Len(new) : Same(new[r], new[s]) => r = s
<1> DEFINE same == {j \in 1..Len(rows) : rows[j].node = row.node /\ rows[j].k = row.k}
           new  == Upsert(row)
<1>1. Len(rows) \in Nat
  OBVIOUS
<1>2. \A j \in 1..Len(rows) : j \in same <=> Same(rows[j], row)
  BY DEF Same
<1>3. CASE same = {}
  <2>1. new = Append(rows, row)
    BY <1>3 DEF Upsert
  <2>2. new \in Seq(Attempt) /\ Len(new) = Len(rows) + 1 /\ new[Len(rows) + 1] = row
        /\ \A r \in 1..Len(rows) : new[r] = rows[r]
    BY <2>1
  <2> HIDE DEF new, same
  <2>3. \A r \in 1..Len(new) : r = Len(rows) + 1 \/ r \in 1..Len(rows)
    BY <1>1, <2>2
  <2>4. \A r \in 1..Len(rows) : ~Same(rows[r], row)
    BY <1>2, <1>3
  <2>5. Len(rows) + 1 \in 1..Len(new) /\ \A r \in 1..Len(rows) : r \in 1..Len(new)
    BY <1>1, <2>2
  <2>6. \A r, s \in 1..Len(new) : Same(new[r], new[s]) => r = s
    <3> TAKE r, s \in 1..Len(new)
    <3> HAVE Same(new[r], new[s])
    <3>1. CASE r \in 1..Len(rows) /\ s \in 1..Len(rows)
      BY <2>2, <3>1
    <3>2. CASE r = Len(rows) + 1 /\ s \in 1..Len(rows)
      BY <2>2, <2>4, <3>2 DEF Same
    <3>3. CASE r \in 1..Len(rows) /\ s = Len(rows) + 1
      BY <2>2, <2>4, <3>3 DEF Same
    <3>4. CASE r = Len(rows) + 1 /\ s = Len(rows) + 1
      BY <3>4
    <3> QED BY <2>3, <3>1, <3>2, <3>3, <3>4
  <2> QED BY <2>2, <2>3, <2>4, <2>5, <2>6 DEF new
<1>4. CASE same # {}
  <2>1. new = [j \in 1..Len(rows) |-> IF j \in same THEN row ELSE rows[j]]
    BY <1>4 DEF Upsert
  <2> HIDE DEF new, same
  <2>2. \A j \in 1..Len(rows) : new[j] \in Attempt
        /\ new[j] = IF Same(rows[j], row) THEN row ELSE rows[j]
    BY <1>2, <2>1
  <2>3. new \in Seq(Attempt) /\ Len(new) = Len(rows)
    BY <1>1, <2>1, <2>2
  <2>4. \E j \in 1..Len(rows) : Same(rows[j], row)
    BY <1>2, <1>4 DEF same
  <2>5. \A r, s \in 1..Len(rows) : Same(new[r], new[s]) => Same(rows[r], rows[s])
    BY <2>2 DEF Same
  <2> QED BY <2>2, <2>3, <2>4, <2>5 DEF new
<1> QED BY <1>3, <1>4

\* A list of writes without its first.
LEMMA TailFacts ==
    ASSUME NEW w \in Seq(Int), w # <<>>
    PROVE  /\ Tail(w) \in Seq(Int) /\ Head(w) \in Range(w) /\ w[1] = Head(w) /\ 1 \in 1..Len(w)
           /\ Range(Tail(w)) \subseteq Range(w) /\ Range(w) \subseteq Range(Tail(w)) \cup {Head(w)}
           /\ \A x \in Range(Tail(w)) : \E p \in 2..Len(w) : w[p] = x
           /\ \A p \in 1..Len(Tail(w)) : p + 1 \in 1..Len(w) /\ Tail(w)[p] = w[p + 1]
<1> DEFINE t == Tail(w)
<1>1. /\ t \in Seq(Int) /\ Len(w) \in Nat /\ Len(w) >= 1 /\ Len(t) = Len(w) - 1
      /\ Head(w) = w[1] /\ \A p \in 1..Len(t) : t[p] = w[p + 1]
  OBVIOUS
<1> HIDE DEF t
<1>2. DOMAIN w = 1..Len(w) /\ DOMAIN t = 1..Len(t)
  BY <1>1
<1>3. \A p \in 1..Len(t) : p + 1 \in 2..Len(w) /\ p + 1 \in 1..Len(w)
  BY <1>1
<1>4. \A p \in 1..Len(w) : p = 1 \/ (p - 1 \in 1..Len(t) /\ w[p] = t[p - 1])
  BY <1>1
<1>5. \A x \in Range(t) : x \in Range(w) /\ \E p \in 2..Len(w) : w[p] = x
  <2> TAKE x \in Range(t)
  <2>1. PICK p \in 1..Len(t) : x = t[p]
    BY <1>2 DEF Range
  <2>2. x = w[p + 1]
    BY <1>1, <2>1
  <2> QED BY <1>2, <1>3, <2>2 DEF Range
<1>6. \A x \in Range(w) : x \in Range(t) \/ x = Head(w)
  <2> TAKE x \in Range(w)
  <2>1. PICK p \in 1..Len(w) : x = w[p]
    BY <1>2 DEF Range
  <2> QED BY <1>1, <1>2, <1>4, <2>1 DEF Range
<1>7. 1 \in 1..Len(w) /\ Head(w) \in Range(w)
  BY <1>1, <1>2 DEF Range
<1> QED BY <1>1, <1>3, <1>5, <1>6, <1>7 DEF t

\* What a write leaves alone, and what is left to be written after it.
LEMMA WriteFacts ==
    ASSUME GraphInv, Write
    PROVE  /\ loaded /\ UNCHANGED <<graph, core, attempts, loaded, loads>>
           /\ Q' = Q /\ Branches' = Branches /\ Positions' = Positions /\ Live' = Live
                /\ Attempt' = Attempt
           /\ writes' \in Seq(Int) /\ Orderly(attempts, writes)'
           /\ Head(writes) \in Pending /\ Head(writes) # Settling
           /\ Pending' \subseteq Pending /\ Pending \subseteq Pending' \cup {Head(writes)}
           /\ Head(writes) = Snapshot =>
                 /\ saved' = core /\ rows' = rows
                 /\ \A i \in Positions \cap Pending : i \in Pending' /\ attempts[i].node = "CHECKPOINT"
<1> DEFINE h == Head(writes)
<1>1. /\ loaded /\ writes # <<>> /\ h # Settling /\ writes' = Tail(writes)
      /\ UNCHANGED <<graph, core, attempts, loaded, loads>>
  BY DEF Write
<1>2. /\ Q' = Q /\ Branches' = Branches /\ Positions' = Positions /\ Live' = Live /\ Attempt' = Attempt
      /\ Pending' = Range(Tail(writes))
  BY <1>1 DEF Q, Branches, Positions, Live, Attempt, Pending
<1>3. /\ Len(attempts) \in Nat /\ writes \in Seq(Int) /\ Works(Q) /\ core \in CoreType(Q) /\ saved \in CoreType(Q)
      /\ attempts \in Seq(Attempt) /\ rows \in Seq(Attempt)
      /\ Pending \subseteq {Snapshot, Settling} \cup Positions
  BY DEF GraphInv, TypeFits
<1>4. /\ writes' \in Seq(Int) /\ h \in Pending /\ writes[1] = h /\ 1 \in 1..Len(writes)
      /\ Pending' \subseteq Pending /\ Pending \subseteq Pending' \cup {h}
      /\ \A x \in Pending' : \E p \in 2..Len(writes) : writes[p] = x
      /\ \A p \in 1..Len(writes') : p + 1 \in 1..Len(writes) /\ writes'[p] = writes[p + 1]
  BY <1>1, <1>2, <1>3, TailFacts DEF Pending
<1>5. Orderly(attempts, writes)'
  <2>1. Orderly(attempts, writes)
    BY DEF GraphInv, DiskFits
  <2>2. ASSUME NEW m \in 1..Len(writes'), NEW p \in 1..Len(writes'), m < p, writes'[m] = Snapshot
        PROVE  writes'[p] = Settling \/ (writes'[p] \in 1..Len(attempts)
             /\ attempts[writes'[p]].node = "CHECKPOINT")
    <3>1. m + 1 < p + 1 /\ m + 1 \in 1..Len(writes) /\ p + 1 \in 1..Len(writes)
          /\ writes'[m] = writes[m + 1] /\ writes'[p] = writes[p + 1]
      BY <1>4, <2>2
    <3> QED BY <2>1, <2>2, <3>1 DEF Orderly
  <2> QED BY <1>1, <2>2 DEF Orderly
<1>6. ASSUME h = Snapshot
      PROVE  /\ saved' = core /\ rows' = rows
             /\ \A i \in Positions \cap Pending : i \in Pending' /\ attempts[i].node = "CHECKPOINT"
  <2>1. saved' = core /\ rows' = rows
    BY <1>6 DEF Write
  <2>2. \A i \in Positions \cap Pending' : attempts[i].node = "CHECKPOINT"
    <3> TAKE i \in Positions \cap Pending'
    <3>1. PICK p \in 2..Len(writes) : writes[p] = i
      BY <1>4
    <3>2. 1 < p /\ p \in 1..Len(writes)
      BY <1>4, <3>1
    <3>3. Orderly(attempts, writes)
      BY DEF GraphInv, DiskFits
    <3>4. i # Settling
      BY <1>3, Marks DEF Positions
    <3> QED BY <1>4, <1>6, <3>1, <3>2, <3>3, <3>4 DEF Orderly
  <2>3. \A i \in Positions \cap Pending : i \in Pending'
    BY <1>3, <1>4, <1>6, Marks DEF Positions
  <2> QED BY <2>1, <2>2, <2>3
<1> QED BY <1>1, <1>2, <1>4, <1>5, <1>6

\* The rows after a row was written: that row, and those of other attempts.
LEMMA RowFacts ==
    ASSUME GraphInv, Write, NEW h, h = Head(writes), h # Snapshot
    PROVE  /\ h \in Positions \cap Pending /\ saved' = saved /\ attempts[h] \in Attempt
           /\ rows' \in Seq(Attempt)
           /\ \A r \in 1..Len(rows') :
                 \/ rows'[r] = attempts[h]
                 \/ r \in 1..Len(rows) /\ rows'[r] = rows[r] /\ ~Same(rows[r], attempts[h])
           /\ \A r \in 1..Len(rows) :
                 r \in 1..Len(rows') /\ (rows'[r] = rows[r] \/ (Same(rows[r], attempts[h])
                    /\ rows'[r] = attempts[h]))
           /\ \E r \in 1..Len(rows') : rows'[r] = attempts[h]
           /\ \A r, s \in 1..Len(rows') : Same(rows'[r], rows'[s]) => r = s
           /\ Snapshot \in Pending => Snapshot \in Pending'
           /\ \A r \in 1..Len(rows') : rows'[r] # attempts[h] =>
                 \E j \in Positions : /\ j # h /\ Same(attempts[j], rows'[r]) /\ rows'[r] = rows[r] /\ r \in 1..Len(rows)
                                      /\ (attempts[j].state = rows'[r].state \/ (j \in Pending
                                           /\ j \in Pending'))
<1>1. /\ loaded /\ h \in Pending /\ h # Settling
      /\ Pending' \subseteq Pending /\ Pending \subseteq Pending' \cup {h}
  BY WriteFacts
<1>2. /\ attempts \in Seq(Attempt) /\ rows \in Seq(Attempt) /\ Len(attempts) \in Nat
      /\ Pending \subseteq {Snapshot, Settling} \cup Positions
  BY DEF GraphInv, TypeFits
<1>3. h \in Positions \cap Pending /\ saved' = saved /\ rows' = Upsert(attempts[h])
      /\ attempts[h] \in Attempt
  <2>1. h \in Positions
    BY <1>1, <1>2
  <2>2. attempts[h] \in Attempt
    BY <1>2, <2>1 DEF Positions
  <2> QED BY <1>1, <2>1, <2>2 DEF Write
<1>4. /\ rows' \in Seq(Attempt)
      /\ \A r \in 1..Len(rows') :
            \/ rows'[r] = attempts[h]
            \/ r \in 1..Len(rows) /\ rows'[r] = rows[r] /\ ~Same(rows[r], attempts[h])
      /\ \A r \in 1..Len(rows) :
            r \in 1..Len(rows') /\ (rows'[r] = rows[r] \/ (Same(rows[r], attempts[h])
               /\ rows'[r] = attempts[h]))
      /\ \E r \in 1..Len(rows') : rows'[r] = attempts[h]
      /\ \A r, s \in 1..Len(rows') : Same(rows'[r], rows'[s]) => r = s
  <2>1. \A r, s \in 1..Len(rows) : Same(rows[r], rows[s]) => r = s
    BY DEF GraphInv, DiskFits
  <2> DEFINE row == attempts[h]
  <2>2. row \in Attempt /\ rows' = Upsert(row)
    BY <1>3
  <2> HIDE DEF row
  <2>3. /\ rows' \in Seq(Attempt)
        /\ \A r \in 1..Len(rows') :
              \/ rows'[r] = row
              \/ r \in 1..Len(rows) /\ rows'[r] = rows[r] /\ ~Same(rows[r], row)
        /\ \A r \in 1..Len(rows) :
              r \in 1..Len(rows') /\ (rows'[r] = rows[r] \/ (Same(rows[r], row) /\ rows'[r] = row))
        /\ \E r \in 1..Len(rows') : rows'[r] = row
        /\ \A r, s \in 1..Len(rows') : Same(rows'[r], rows'[s]) => r = s
    BY <1>2, <2>1, <2>2, UpsertFacts
  <2> QED BY <2>3 DEF row
<1>5. \A i \in Pending : i # h => i \in Pending'
  BY <1>1
<1>6. Snapshot \in Pending => Snapshot \in Pending'
  BY <1>5
<1>7. \A r \in 1..Len(rows') : rows'[r] # attempts[h] =>
         \E j \in Positions : /\ j # h /\ Same(attempts[j], rows'[r]) /\ rows'[r] = rows[r] /\ r \in 1..Len(rows)
                              /\ (attempts[j].state = rows'[r].state \/ (j \in Pending
                                   /\ j \in Pending'))
  <2> TAKE r \in 1..Len(rows')
  <2> HAVE rows'[r] # attempts[h]
  <2>1. r \in 1..Len(rows) /\ rows'[r] = rows[r] /\ ~Same(rows[r], attempts[h])
    BY <1>4
  <2>2. PICK j \in Positions : Same(attempts[j], rows[r]) /\ (attempts[j].state = rows[r].state
        \/ j \in Pending)
    BY <1>1, <2>1 DEF GraphInv, DiskFits
  <2>3. j # h
    BY <2>1, <2>2 DEF Same
  <2> QED BY <1>5, <2>1, <2>2, <2>3
<1> QED BY <1>3, <1>4, <1>6, <1>7

\* The next write of the list is made.
LEMMA WriteKeeps ==
    ASSUME GraphInv, Write
    PROVE  GraphInv'
<1> DEFINE h == Head(writes)
<1>1. loaded /\ h # Settling /\ UNCHANGED <<graph, core, attempts, loaded, loads>>
  BY WriteFacts
<1>2. /\ Q' = Q /\ Branches' = Branches /\ Positions' = Positions /\ Live' = Live /\ Attempt' = Attempt
  BY WriteFacts
<1>3. /\ Len(attempts) \in Nat /\ Works(Q) /\ core \in CoreType(Q) /\ saved \in CoreType(Q)
      /\ attempts \in Seq(Attempt) /\ rows \in Seq(Attempt)
      /\ Pending \subseteq {Snapshot, Settling} \cup Positions
  BY DEF GraphInv, TypeFits
<1>4. /\ writes' \in Seq(Int) /\ h \in Pending
      /\ Pending' \subseteq Pending /\ Pending \subseteq Pending' \cup {h}
  BY WriteFacts
<1>5. Orderly(attempts, writes)'
  BY WriteFacts
<1>6. CASE h = Snapshot
  <2>1. saved' = core /\ rows' = rows
    BY <1>6, WriteFacts
  <2>2. \A i \in Positions \cap Pending' : attempts[i].node = "CHECKPOINT"
    BY <1>4, <1>6, WriteFacts
  <2>3. \A i \in Positions \cap Pending : i \in Pending'
    BY <1>6, WriteFacts
  <2>4. TypeFits'
    BY <1>1, <1>2, <1>3, <1>4, <2>1 DEF GraphInv, TypeFits, Works
  <2>5. DiskFits'
    <3>1. \A r \in 1..Len(rows) : \E j \in Positions : /\ Same(attempts[j], rows[r])
                               /\ (attempts[j].state = rows[r].state \/ j \in Pending')
      BY <1>1, <2>3 DEF GraphInv, DiskFits
    <3>2. /\ \A i \in Positions : WaitsWell(attempts[i])
          /\ \A r \in 1..Len(rows) : WaitsWell(rows[r])
          /\ \A r, s \in 1..Len(rows) : Same(rows[r], rows[s]) => r = s
      BY DEF GraphInv, DiskFits
    <3> QED BY <1>1, <1>2, <1>5, <2>1, <3>1, <3>2 DEF DiskFits
  <2>6. JoinFits'
    <3>1. JoinedUp(core)' /\ JoinedUp(saved)' /\ \A i \in Positions' : Behind(attempts[i], core)'
      BY <1>1, <1>2, <2>1 DEF GraphInv, JoinFits, JoinedUp, Behind
    <3>2. ASSUME NEW r \in 1..Len(rows) PROVE Behind(rows[r], core)
      <4>1. PICK j \in Positions : Same(attempts[j], rows[r])
            /\ (attempts[j].state = rows[r].state \/ j \in Pending)
        BY <1>1 DEF GraphInv, DiskFits
      <4>2. CASE attempts[j].state = rows[r].state
        <5>1. Behind(attempts[j], core)
          BY DEF GraphInv, JoinFits
        <5> QED BY <4>1, <4>2, <5>1 DEF Behind, Same, IsLive
      <4>3. CASE j \in Pending
        <5>1. rows[r].node = "CHECKPOINT"
          BY <2>2, <2>3, <4>1, <4>3 DEF Same
        <5> QED BY <5>1, BranchNames DEF Behind, Branches
      <4> QED BY <4>1, <4>2, <4>3
    <3>3. \A r \in 1..Len(rows') : Behind(rows[r], saved)'
      BY <1>2, <2>1, <3>2 DEF Behind
    <3>4. \A i \in Positions' \cap Pending' : Behind(attempts[i], saved)'
      BY <1>1, <1>2, <2>1 DEF GraphInv, JoinFits, Behind
    <3>5. Settling \notin Pending' => Settling \notin Pending
      BY <1>1, <1>4
    <3>6. Settling \notin Pending' =>
             \A i, j \in Live' : attempts'[i].node \in Branches' =>
                /\ core'.state[attempts'[i].node] \in LiveStates
                /\ attempts'[j].node = attempts'[i].node => i = j
      BY <1>1, <1>2, <3>5 DEF GraphInv, JoinFits
    <3> QED BY <3>1, <3>3, <3>4, <3>6 DEF JoinFits
  <2>7. ApprovalFits'
    <3> SUFFICES ASSUME HasApproval(Q) PROVE ApprovalFits'
      BY <1>2 DEF ApprovalFits
    <3>1. (Given(attempts)' <=> Given(attempts)) /\ (Given(rows)' <=> Given(rows))
          /\ (GoneOn(core)' <=> GoneOn(core)) /\ (GoneOn(saved)' <=> GoneOn(core))
      BY <1>1, <1>2, <2>1 DEF Given, GoneOn, Later
    <3>2. \A i \in Positions \cap Pending : ~Approves(attempts[i])
      BY <2>2, <2>3 DEF Approves, IsApproval
    <3>3. Given(attempts) => Given(rows)
      BY <3>2 DEF GraphInv, ApprovalFits
    <3>4. GoneOn(core) => Given(attempts)
      BY <1>1 DEF GraphInv, ApprovalFits
    <3>5. /\ (\A i \in Positions : Later(attempts[i].node) => Given(attempts))'
          /\ (\A r \in 1..Len(rows) : Later(rows[r].node) => Given(rows))'
          /\ (\A i \in Positions \cap Pending : Later(attempts[i].node) => Given(rows))'
      BY <1>1, <1>2, <1>4, <2>1, <3>1 DEF GraphInv, ApprovalFits, Later
    <3>6. OneApproval(attempts)' /\ OneApproval(rows)'
      BY <1>1, <2>1 DEF GraphInv, ApprovalFits, OneApproval, Given
    <3>7. (loaded /\ Given(rows) => Given(attempts))'
      BY <1>1, <3>1 DEF GraphInv, ApprovalFits
    <3>8. /\ (\A i, j \in Positions \cap Pending :
                IsApproval(attempts[i]) /\ IsApproval(attempts[j]) => i = j)'
          /\ (Given(attempts) => \A i \in Positions \cap Pending :
                IsApproval(attempts[i]) => Approves(attempts[i]))'
      BY <1>1, <1>2, <1>4, <3>1 DEF GraphInv, ApprovalFits, IsApproval, Approves
    <3> QED BY <3>1, <3>3, <3>4, <3>5, <3>6, <3>7, <3>8 DEF ApprovalFits
  <2> QED BY <2>4, <2>5, <2>6, <2>7 DEF GraphInv
<1>7. CASE h # Snapshot
  <2>1. h \in Positions \cap Pending /\ saved' = saved /\ attempts[h] \in Attempt
    BY <1>7, RowFacts
  <2>2. /\ rows' \in Seq(Attempt)
        /\ \A r \in 1..Len(rows') :
              \/ rows'[r] = attempts[h]
              \/ r \in 1..Len(rows) /\ rows'[r] = rows[r] /\ ~Same(rows[r], attempts[h])
        /\ \A r \in 1..Len(rows) :
              r \in 1..Len(rows') /\ (rows'[r] = rows[r] \/ (Same(rows[r], attempts[h])
                 /\ rows'[r] = attempts[h]))
        /\ \E r \in 1..Len(rows') : rows'[r] = attempts[h]
        /\ \A r, s \in 1..Len(rows') : Same(rows'[r], rows'[s]) => r = s
    BY <1>7, RowFacts
  <2>3. \A i \in Pending : i # h => i \in Pending'
    BY <1>4
  <2>4. Snapshot \in Pending => Snapshot \in Pending'
    BY <1>7, RowFacts
  <2>5. \A r \in 1..Len(rows') : rows'[r] # attempts[h] =>
           \E j \in Positions : /\ j # h /\ Same(attempts[j], rows'[r]) /\ rows'[r] = rows[r] /\ r \in 1..Len(rows)
                                /\ (attempts[j].state = rows'[r].state \/ (j \in Pending
                                     /\ j \in Pending'))
    BY <1>7, RowFacts
  <2> HIDE DEF h
  <2>6. TypeFits'
    BY <1>1, <1>2, <1>3, <1>4, <2>1, <2>2 DEF GraphInv, TypeFits, Works
  <2>7. DiskFits'
    <3>1. \A r \in 1..Len(rows') : \E j \in Positions : /\ Same(attempts[j], rows'[r])
                               /\ (attempts[j].state = rows'[r].state \/ j \in Pending')
      <4> TAKE r \in 1..Len(rows')
      <4>1. CASE rows'[r] = attempts[h]
        BY <2>1, <4>1 DEF Same
      <4> QED BY <2>5, <4>1
    <3>2. /\ \A i \in Positions : WaitsWell(attempts[i])
          /\ \A r \in 1..Len(rows') : WaitsWell(rows'[r])
      BY <2>1, <2>2 DEF GraphInv, DiskFits
    <3>3. saved' = core' \/ Snapshot \in Pending'
      BY <1>1, <2>1, <2>4 DEF GraphInv, DiskFits
    <3> QED BY <1>1, <1>2, <1>5, <2>2, <3>1, <3>2, <3>3 DEF DiskFits
  <2>8. JoinFits'
    <3>1. JoinedUp(core)' /\ JoinedUp(saved)' /\ \A i \in Positions' : Behind(attempts[i], core)'
      BY <1>1, <1>2, <2>1 DEF GraphInv, JoinFits, JoinedUp, Behind
    <3>2. Behind(attempts[h], saved)
      <4>1. CASE Snapshot \in Pending
        BY <2>1, <4>1 DEF GraphInv, JoinFits
      <4>2. CASE Snapshot \notin Pending
        BY <2>1, <4>2 DEF GraphInv, JoinFits, DiskFits
      <4> QED BY <4>1, <4>2
    <3>3. \A r \in 1..Len(rows') : Behind(rows'[r], saved)
      BY <2>2, <3>2 DEF GraphInv, JoinFits
    <3>4. \A r \in 1..Len(rows') : Behind(rows[r], saved)'
      BY <1>2, <2>1, <3>3 DEF Behind
    <3>5. \A i \in Positions' \cap Pending' : Behind(attempts[i], saved)' \/ Snapshot \notin Pending'
      BY <1>1, <1>2, <1>4, <2>1 DEF GraphInv, JoinFits, Behind
    <3>6. Settling \notin Pending' => Settling \notin Pending
      BY <1>1, <1>4 DEF h
    <3>7. Settling \notin Pending' =>
             \A i, j \in Live' : attempts'[i].node \in Branches' =>
                /\ core'.state[attempts'[i].node] \in LiveStates
                /\ attempts'[j].node = attempts'[i].node => i = j
      BY <1>1, <1>2, <3>6 DEF GraphInv, JoinFits
    <3> QED BY <3>1, <3>4, <3>5, <3>7 DEF JoinFits
  <2>9. ApprovalFits'
    <3> SUFFICES ASSUME HasApproval(Q) PROVE ApprovalFits'
      BY <1>2 DEF ApprovalFits
    <3>0. ApprovalFits /\ loaded
      BY <1>1 DEF GraphInv
    <3>1. (Given(attempts)' <=> Given(attempts)) /\ (GoneOn(core)' <=> GoneOn(core))
          /\ (GoneOn(saved)' <=> GoneOn(saved))
      BY <1>1, <1>2, <2>1 DEF Given, GoneOn, Later
    <3>2. Given(rows) => Given(attempts)
      BY <3>0 DEF ApprovalFits
    <3>3. Given(attempts) /\ IsApproval(attempts[h]) => Approves(attempts[h])
      BY <2>1, <3>0 DEF ApprovalFits
    <3>4. Given(rows) => Given(rows)'
      <4> HAVE Given(rows)
      <4>1. PICK r \in 1..Len(rows) : Approves(rows[r])
        BY DEF Given
      <4>2. CASE rows'[r] = rows[r]
        BY <2>2, <4>1, <4>2 DEF Given
      <4>3. CASE Same(rows[r], attempts[h]) /\ rows'[r] = attempts[h]
        <5>1. Approves(attempts[h])
          BY <3>2, <3>3, <4>1, <4>3 DEF Approves, IsApproval, Same
        <5> QED BY <2>2, <4>3, <5>1 DEF Given
      <4> QED BY <2>2, <4>2, <4>3
    <3>5. Given(rows)' => Given(attempts)
      <4> HAVE Given(rows)'
      <4>1. PICK r \in 1..Len(rows') : Approves(rows'[r])
        BY DEF Given
      <4>2. CASE rows'[r] = attempts[h]
        BY <2>1, <4>1, <4>2 DEF Given, Positions
      <4>3. CASE rows'[r] # attempts[h]
        BY <2>2, <3>2, <4>1, <4>3 DEF Given
      <4> QED BY <4>2, <4>3
    <3>6. Approves(attempts[h]) => Given(rows)'
      BY <2>2 DEF Given
    <3>7. (GoneOn(core) => Given(attempts))' /\ (GoneOn(saved) => Given(rows))'
      BY <1>1, <3>0, <3>1, <3>4 DEF ApprovalFits
    <3>8. /\ (\A i \in Positions : Later(attempts[i].node) => Given(attempts))'
          /\ (\A i \in Positions \cap Pending : Later(attempts[i].node) => Given(rows))'
      BY <1>1, <1>2, <1>4, <3>0, <3>1, <3>4 DEF ApprovalFits, Later
    <3>9. \A r \in 1..Len(rows') : Later(rows'[r].node) => Given(rows)'
      <4> TAKE r \in 1..Len(rows')
      <4>1. CASE rows'[r] = attempts[h]
        BY <2>1, <3>0, <3>4, <4>1 DEF ApprovalFits
      <4>2. CASE rows'[r] # attempts[h]
        BY <2>2, <3>0, <3>4, <4>2 DEF ApprovalFits
      <4> QED BY <4>1, <4>2
    <3>10. Given(attempts) => Given(rows)' \/ \E i \in Positions \cap Pending' : Approves(attempts[i])
      <4> HAVE Given(attempts)
      <4>1. CASE Given(rows)
        BY <3>4, <4>1
      <4>2. CASE \E i \in Positions \cap Pending : Approves(attempts[i])
        BY <2>3, <3>6, <4>2
      <4> QED BY <3>0, <4>1, <4>2 DEF ApprovalFits
    <3>11. \A i, j \in Positions : IsApproval(attempts[i]) /\ IsLive(attempts[i])
          /\ IsApproval(attempts[j]) /\ IsLive(attempts[j]) => i = j
      BY <3>0 DEF ApprovalFits, OneApproval, Positions
    <3>12. Given(attempts) => \A i \in Positions : IsApproval(attempts[i]) => ~IsLive(attempts[i])
      BY <3>0 DEF ApprovalFits, OneApproval, Positions
    <3>13. \A i, j \in Positions \cap Pending : IsApproval(attempts[i]) /\ IsApproval(attempts[j]) =>
          i = j
      BY <3>0 DEF ApprovalFits
    <3>14. ASSUME NEW r \in 1..Len(rows'), rows'[r] # attempts[h], IsApproval(rows'[r]),
          IsLive(rows'[r]), IsApproval(attempts[h])
           PROVE  ~IsLive(attempts[h]) /\ ~Approves(attempts[h])
      <4>1. PICK j \in Positions : j # h /\ Same(attempts[j], rows'[r])
            /\ (attempts[j].state = rows'[r].state \/ j \in Pending)
        BY <2>5, <3>14
      <4>2. IsApproval(attempts[j])
        BY <3>14, <4>1 DEF IsApproval, Same
      <4>3. j \notin Pending
        BY <2>1, <3>13, <3>14, <4>1, <4>2
      <4>4. IsLive(attempts[j])
        BY <3>14, <4>1, <4>3 DEF IsLive
      <4>5. ~Given(attempts)
        BY <3>12, <4>2, <4>4
      <4>6. ~Approves(attempts[h])
        BY <2>1, <4>5 DEF Given, Positions
      <4> QED BY <2>1, <3>11, <3>14, <4>1, <4>2, <4>4, <4>6
    <3>15. \A r, s \in 1..Len(rows') : IsApproval(rows'[r]) /\ IsLive(rows'[r])
          /\ IsApproval(rows'[s]) /\ IsLive(rows'[s]) => r = s
      <4> TAKE r, s \in 1..Len(rows')
      <4> HAVE IsApproval(rows'[r]) /\ IsLive(rows'[r]) /\ IsApproval(rows'[s]) /\ IsLive(rows'[s])
      <4>1. CASE rows'[r] = attempts[h] /\ rows'[s] = attempts[h]
        BY <2>2, <4>1 DEF Same
      <4>2. CASE rows'[r] = attempts[h] /\ rows'[s] # attempts[h]
        BY <3>14, <4>2
      <4>3. CASE rows'[r] # attempts[h] /\ rows'[s] = attempts[h]
        BY <3>14, <4>3
      <4>4. CASE rows'[r] # attempts[h] /\ rows'[s] # attempts[h]
        BY <2>2, <3>0, <4>4 DEF ApprovalFits, OneApproval
      <4> QED BY <4>1, <4>2, <4>3, <4>4
    <3>16. Given(rows)' => \A r \in 1..Len(rows') : IsApproval(rows'[r]) => ~IsLive(rows'[r])
      <4> HAVE Given(rows)'
      <4>0. Given(attempts)
        BY <3>5
      <4> TAKE r \in 1..Len(rows')
      <4> HAVE IsApproval(rows'[r])
      <4>1. CASE rows'[r] = attempts[h]
        BY <2>1, <3>12, <4>0, <4>1
      <4>2. CASE rows'[r] # attempts[h] /\ IsApproval(attempts[h])
        BY <3>3, <3>14, <4>0, <4>2
      <4>3. CASE rows'[r] # attempts[h] /\ ~IsApproval(attempts[h])
        <5>1. Given(rows)
          <6>1. PICK s \in 1..Len(rows') : Approves(rows'[s])
            BY DEF Given
          <6>2. rows'[s] # attempts[h]
            BY <4>3, <6>1 DEF Approves
          <6> QED BY <2>2, <6>1, <6>2 DEF Given
        <5> QED BY <2>2, <3>0, <4>3, <5>1 DEF ApprovalFits, OneApproval
      <4> QED BY <4>1, <4>2, <4>3
    <3>17. OneApproval(attempts)' /\ OneApproval(rows)'
      BY <1>1, <3>0, <3>15, <3>16 DEF ApprovalFits, OneApproval, Given
    <3>18. /\ (\A i, j \in Positions \cap Pending :
                IsApproval(attempts[i]) /\ IsApproval(attempts[j]) => i = j)'
           /\ (Given(attempts) => \A i \in Positions \cap Pending :
                IsApproval(attempts[i]) => Approves(attempts[i]))'
      BY <1>1, <1>2, <1>4, <3>0, <3>1 DEF ApprovalFits, IsApproval, Approves
    <3>19. (Given(attempts) => Given(rows) \/ \E i \in Positions \cap Pending : Approves(attempts[i]))'
      BY <1>1, <1>2, <3>1, <3>10 DEF Approves, IsApproval
    <3>20. (\A r \in 1..Len(rows) : Later(rows[r].node) => Given(rows))'
      BY <1>2, <3>9 DEF Later
    <3>21. (loaded /\ Given(rows) => Given(attempts))'
      BY <3>1, <3>5
    <3> QED BY <1>1, <3>7, <3>8, <3>17, <3>18, <3>19, <3>20, <3>21 DEF ApprovalFits
  <2> QED BY <2>6, <2>7, <2>8, <2>9 DEF GraphInv
<1> QED BY <1>6, <1>7

-----------------------------------------------------------------------------
(***************************************************************************)
(* Starting an attempt, and the first theorem                              *)
(***************************************************************************)
\* A newly compiled graph.
LEMMA InitHolds ==
    ASSUME Init
    PROVE  GraphInv
<1>1. PICK q \in Compiled : graph = Compile(q) /\ core = Fresh(q)
  BY DEF Init
<1>2. /\ saved = core /\ attempts = <<>> /\ rows = <<>> /\ writes = <<>> /\ loaded = TRUE /\ loads = 0
  BY DEF Init
<1>3. Q = q /\ Works(q) /\ core \in CoreType(q)
  BY <1>1, FreshTyped DEF Q, Works, Compile
<1>4. Positions = {} /\ Pending = {} /\ Live = {} /\ Branches = Parallel(q) /\ 1..Len(rows) = {}
  BY <1>2, <1>3 DEF Positions, Pending, Live, Branches, Range
<1>5. TypeFits
  <2>1. 0 \in 0..MaxLoads
    BY GraphAssumption
  <2>2. attempts \in Seq(Attempt) /\ rows \in Seq(Attempt) /\ writes \in Seq(Int)
    BY <1>2
  <2> QED BY <1>2, <1>3, <1>4, <2>1, <2>2 DEF TypeFits
<1>6. DiskFits
  BY <1>2, <1>4 DEF DiskFits, Orderly
<1>7. core.selected = {} /\ \A n \in Nodes(q) : core.state[n] \notin {"RUNNING", "SUCCEEDED"}
  BY <1>1 DEF Fresh
<1>8. JoinFits
  <2>1. JoinedUp(core)
    <3>1. Branches # {} => "JOIN" \in Nodes(q)
      BY <1>4, NodeFacts
    <3> QED BY <1>7, <3>1 DEF JoinedUp
  <2> QED BY <1>2, <1>4, <2>1 DEF JoinFits
<1>9. ApprovalFits
  <2>1. ~GoneOn(core) /\ ~Given(attempts) /\ ~Given(rows)
    BY <1>2, <1>7 DEF GoneOn, Given
  <2> QED BY <1>2, <1>4, <2>1 DEF ApprovalFits, OneApproval
<1> QED BY <1>5, <1>6, <1>8, <1>9 DEF GraphInv

\* What the start of an attempt `a` of a node `n` does: nothing is left to write,
\* the attempt comes last, and only the node's own state and count change.
StartStep(n, a) ==
    /\ loaded /\ Pending = {} /\ Between = {} /\ ~Final(core) /\ Ready(core, n) /\ Alone(n)
    /\ n \in Nodes(Q) /\ core.state[n] \in Startable
    /\ a \in Attempt /\ a.node = n /\ a.state \in LiveStates
    /\ a.state = "WAITING_APPROVAL" <=> n = "HUMAN_APPROVAL"
    /\ a.state = "WAITING_TOOL" <=> n = "TOOL"
    /\ core' \in CoreType(Q)
    /\ core'.selected = core.selected /\ core'.status = core.status /\ core'.traversed = core.traversed
    /\ core'.state[n] = a.state /\ core'.count[n] = core.count[n] + 1
    /\ \A m \in Nodes(Q) : m # n => core'.state[m] = core.state[m] /\ core'.count[m] = core.count[m]
    /\ attempts' \in Seq(Attempt) /\ attempts'[Len(attempts) + 1] = a
    /\ \A i \in Positions : attempts'[i] = attempts[i]
    /\ Positions' = Positions \cup {Len(attempts) + 1} /\ Len(attempts) + 1 \notin Positions
    /\ writes' = <<Len(attempts) + 1, Snapshot>> /\ writes' \in Seq(Int)
    /\ Pending' = {Len(attempts) + 1, Snapshot} /\ Settling \notin Pending'
    /\ Positions' \cap Pending' = {Len(attempts) + 1}
    /\ saved = core
    /\ UNCHANGED <<graph, loaded, rows, saved, loads>>
    /\ Q' = Q /\ Branches' = Branches /\ Attempt' = Attempt

\* start_attempt is such a step.
LEMMA StartFacts ==
    ASSUME TypeFits, DiskFits, NEW n \in DOMAIN core.state, Start(n)
    PROVE  \E a : StartStep(n, a)
<1> DEFINE state == CASE n = "HUMAN_APPROVAL" -> "WAITING_APPROVAL"
                      [] n = "TOOL"           -> "WAITING_TOOL"
                      [] OTHER                -> "RUNNING"
           k == core.count[n] + 1
           L == Len(attempts)
           a == [node |-> n, k |-> k, state |-> state]
           cs == [core.count EXCEPT ![n] = k]
           st == [core.state EXCEPT ![n] = state]
<1>1. /\ loaded /\ writes = <<>> /\ Ready(core, n) /\ Alone(n) /\ k <= MaxAttempts[graph.input]
      /\ Between = {} /\ ~Final(core)
      /\ core' = [core EXCEPT !.count[n] = k, !.state[n] = state]
      /\ attempts' = Append(attempts, a)
      /\ writes' = <<L + 1, Snapshot>>
      /\ UNCHANGED <<graph, loaded, rows, saved, loads>>
  BY DEF Start, Idle
<1>2. Works(Q) /\ core \in CoreType(Q) /\ n \in Nodes(Q) /\ L \in Nat /\ attempts \in Seq(Attempt)
  BY DEF TypeFits, CoreType
<1>3. Q' = Q /\ Branches' = Branches /\ Attempt' = Attempt /\ Pending = {}
  BY <1>1 DEF Q, Branches, Attempt, Pending, Range
<1>4. /\ state \in LiveStates /\ state \in NodeStates
      /\ state = "WAITING_APPROVAL" <=> n = "HUMAN_APPROVAL"
      /\ state = "WAITING_TOOL" <=> n = "TOOL"
  BY DEF LiveStates, NodeStates
<1> HIDE DEF state
<1>5. a \in Attempt /\ cs \in [Nodes(Q) -> 0..MaxAttempts[Q]]
  <2>1. core.count \in [Nodes(Q) -> 0..MaxAttempts[Q]] /\ MaxAttempts[Q] \in Nat
    BY <1>2, LimitFacts DEF CoreType, Works
  <2>2. core.count[n] \in Nat
    BY <1>2, <2>1
  <2>3. k \in 1..MaxAttempts[Q]
    BY <1>1, <2>1, <2>2 DEF Q
  <2> HIDE DEF k
  <2> QED BY <1>2, <1>4, <2>1, <2>3 DEF Attempt
<1>6. /\ core' \in CoreType(Q) /\ core'.selected = core.selected
      /\ core'.status = core.status /\ core'.traversed = core.traversed
      /\ core'.state = st /\ core'.count = cs
  <2>1. core' = [core EXCEPT !.count = cs, !.state = st]
    BY <1>1, <1>2 DEF CoreType
  <2>2. st \in [Nodes(Q) -> NodeStates]
    BY <1>2, <1>4 DEF CoreType
  <2> HIDE DEF st, cs
  <2> QED BY <1>2, <1>5, <2>1, <2>2 DEF CoreType
<1>7. /\ core'.state[n] = state /\ core'.count[n] = k
      /\ \A m \in Nodes(Q) : m # n => core'.state[m] = core.state[m] /\ core'.count[m] = core.count[m]
  BY <1>2, <1>6 DEF CoreType
<1>8. /\ attempts' \in Seq(Attempt) /\ Len(attempts') = L + 1 /\ attempts'[L + 1] = a
      /\ \A i \in Positions : attempts'[i] = attempts[i]
  <2> HIDE DEF a
  <2> QED BY <1>1, <1>2, <1>5 DEF Positions
<1>9. Positions' = Positions \cup {L + 1} /\ L + 1 \notin Positions
  BY <1>2, <1>8 DEF Positions
<1>10. /\ writes' \in Seq(Int) /\ Pending' = {L + 1, Snapshot}
       /\ Positions' \cap Pending' = {L + 1} /\ Settling \notin Pending'
  <2>1. L + 1 \in Int /\ L + 1 # Snapshot /\ L + 1 # Settling
    BY <1>2 DEF Snapshot, Settling
  <2>2. L + 1 \in Nat
    BY <1>2
  <2>3. writes' \in Seq(Int) /\ Pending' = {L + 1, Snapshot}
    BY <1>1, <2>1, Tuples, Marks DEF Pending
  <2>4. Snapshot \notin Positions' /\ L + 1 \in Positions'
    BY <1>9, <1>8, <2>2, Marks DEF Positions
  <2> QED BY <2>1, <2>3, <2>4, Marks
<1>11. core.state[n] \in Startable
  BY <1>1 DEF Ready, Startable
<1>12. saved = core
  BY <1>3 DEF DiskFits
<1>13. a.node = n /\ a.state = state
  OBVIOUS
<1> HIDE DEF a, k, cs, st, L
<1> QED BY <1>1, <1>2, <1>3, <1>4, <1>5, <1>6, <1>7, <1>8, <1>9, <1>10, <1>11, <1>12,
      <1>13 DEF StartStep, L, k

\* start_attempt
LEMMA StartKeeps ==
    ASSUME GraphInv, NEW n \in DOMAIN core.state, Start(n)
    PROVE  GraphInv'
<1> DEFINE L == Len(attempts)
<1>1. PICK a : StartStep(n, a)
  BY StartFacts DEF GraphInv
<1>2. /\ loaded /\ Ready(core, n) /\ Alone(n)
      /\ writes' = <<L + 1, Snapshot>> /\ saved = core
      /\ UNCHANGED <<graph, loaded, rows, saved, loads>>
      /\ TypeFits /\ Works(Q) /\ core \in CoreType(Q) /\ n \in Nodes(Q) /\ L \in Nat
  BY <1>1 DEF StartStep, GraphInv, TypeFits
<1>3. /\ Q' = Q /\ Branches' = Branches /\ Attempt' = Attempt /\ Branches \subseteq Nodes(Q)
      /\ Pending = {}
      /\ Branches # {} => "JOIN" \in Nodes(Q)
  BY <1>1, NodeFacts DEF StartStep, Branches
<1>4. /\ a.node = n /\ a.state \in LiveStates
      /\ a.state = "WAITING_APPROVAL" <=> n = "HUMAN_APPROVAL"
      /\ a.state = "WAITING_TOOL" <=> n = "TOOL"
      /\ n \notin {"HUMAN_APPROVAL", "TOOL"} => a.state = "RUNNING"
  BY <1>1 DEF StartStep, LiveStates
<1>6. /\ core' \in CoreType(Q) /\ core'.selected = core.selected
      /\ core'.state[n] = a.state /\ \A m \in Nodes(Q) : m # n => core'.state[m] = core.state[m]
  BY <1>1 DEF StartStep
<1>7. /\ attempts' \in Seq(Attempt) /\ attempts'[L + 1] = a
      /\ \A i \in Positions : attempts'[i] = attempts[i]
      /\ Positions' = Positions \cup {L + 1} /\ L + 1 \notin Positions
  BY <1>1 DEF StartStep
<1>9. /\ writes' \in Seq(Int) /\ Pending' = {L + 1, Snapshot} /\ Settling \notin Pending'
      /\ Positions' \cap Pending' = {L + 1}
  BY <1>1 DEF StartStep
<1>10. core.state[n] \notin LiveStates \cup DoneStates
  BY <1>1 DEF StartStep, Startable, LiveStates, DoneStates
<1>12. TypeFits'
  <2>1. Works(Q)' /\ saved' \in CoreType(Q) /\ rows' \in Seq(Attempt) /\ loaded' \in BOOLEAN
        /\ loads' \in 0..MaxLoads
    BY <1>2, <1>2 DEF TypeFits, Works, Q
  <2>2. Pending' \subseteq {Snapshot, Settling} \cup Positions'
    BY <1>7, <1>9
  <2> QED BY <1>3, <1>6, <1>7, <1>9, <2>1, <2>2 DEF TypeFits
<1>13. DiskFits'
  <2>1. Orderly(attempts, writes)'
    <3>1. Len(writes') = 2 /\ writes'[1] = L + 1 /\ writes'[2] = Snapshot
      BY <1>2
    <3>2. \A m, p \in 1..2 : m < p => m = 1
      OBVIOUS
    <3> QED BY <1>2, <3>1, <3>2 DEF Orderly, Snapshot
  <2>2. \A i \in Positions' : WaitsWell(attempts'[i])
    <3>1. WaitsWell(a)
      BY <1>4 DEF WaitsWell
    <3> QED BY <1>7, <3>1 DEF GraphInv, DiskFits
  <2>3. \A r \in 1..Len(rows) : \E j \in Positions : Same(attempts'[j], rows[r])
        /\ attempts'[j].state = rows[r].state
    <3> TAKE r \in 1..Len(rows)
    <3>1. PICK j \in Positions : Same(attempts[j], rows[r]) /\ attempts[j].state = rows[r].state
      BY <1>2, <1>3 DEF GraphInv, DiskFits
    <3> QED BY <1>7, <3>1
  <2>4. /\ \A r \in 1..Len(rows) : WaitsWell(rows[r])
        /\ \A r, s \in 1..Len(rows) : Same(rows[r], rows[s]) => r = s
    BY DEF GraphInv, DiskFits
  <2>5. \A r \in 1..Len(rows) : \E j \in Positions' : Same(attempts'[j], rows[r])
        /\ attempts'[j].state = rows[r].state
    BY <1>7, <2>3
  <2> QED BY <1>2, <1>9, <2>1, <2>2, <2>4, <2>5 DEF DiskFits
<1>14. JoinFits'
  <2>0. JoinFits
    BY DEF GraphInv
  <2>1. n = "JOIN" => \A m \in Branches : core.state[m] = "SUCCEEDED"
    <3> HAVE n = "JOIN"
    <3> TAKE m \in Branches
    <3> DEFINE e == Edge(m, "ON_SUCCESS", "JOIN")
    <3>1. e \in Edges(Q)
      BY DEF Edges, LeadIn, EdgesTo, Branches
    <3>2. e.to = "JOIN" /\ e.type = "ON_SUCCESS"
      BY DEF Edge
    <3>3. e \in Into(n)
      BY <1>2, <3>1, <3>2, GraphFacts
    <3> HIDE DEF e
    <3>4. e \in core.selected
      BY <1>2, <3>2, <3>3 DEF Ready
    <3> QED BY <2>0, <3>4 DEF JoinFits, JoinedUp, e
  <2>2. n \in Branches => n # "JOIN" /\ n \notin {"HUMAN_APPROVAL", "TOOL"}
    BY BranchNames DEF Branches
  <2>3. \A m \in Branches : core.state[m] = "SUCCEEDED" => core'.state[m] = "SUCCEEDED"
    BY <1>3, <1>6, <1>10 DEF DoneStates
  <2>4. JoinedUp(core)'
    <3>1. ASSUME NEW m \in Branches, Edge(m, "ON_SUCCESS",
          "JOIN") \in core'.selected PROVE core'.state[m] = "SUCCEEDED"
      BY <1>6, <2>0, <2>3, <3>1 DEF JoinFits, JoinedUp
    <3>2. ASSUME NEW m \in Branches, core'.state["JOIN"] \in {"RUNNING",
          "SUCCEEDED"} PROVE core'.state[m] = "SUCCEEDED"
      <4>1. CASE n = "JOIN"
        BY <2>1, <2>3, <4>1
      <4>2. CASE n # "JOIN"
        <5>1. core'.state["JOIN"] = core.state["JOIN"]
          BY <1>3, <1>6, <4>2
        <5> QED BY <2>0, <2>3, <3>2, <5>1 DEF JoinFits, JoinedUp
      <4> QED BY <4>1, <4>2
    <3> QED BY <1>3, <3>1, <3>2 DEF JoinedUp
  <2>5. JoinedUp(saved)'
    BY <1>2, <1>3, <2>0 DEF JoinFits, JoinedUp
  <2>6. Behind(a, core) /\ Behind(a, core')
    <3>1. n \in Branches => core.state[n] # "SUCCEEDED" /\ core'.state[n] # "SUCCEEDED"
      BY <1>4, <1>6, <1>10 DEF DoneStates, LiveStates
    <3> QED BY <1>4, <2>1, <2>3, <3>1 DEF Behind
  <2>7. \A i \in Positions : Behind(attempts[i], core')
    <3> TAKE i \in Positions
    <3>1. Behind(attempts[i], core)
      BY <2>0 DEF JoinFits
    <3>2. n \in Branches => core'.state[n] # "SUCCEEDED"
      BY <1>4, <1>6 DEF LiveStates
    <3> QED BY <1>3, <1>6, <2>3, <3>1, <3>2 DEF Behind
  <2>8. \A i \in Positions' : Behind(attempts[i], core)'
    <3>1. \A i \in Positions' : Behind(attempts'[i], core')
      BY <1>7, <2>6, <2>7
    <3> QED BY <1>3, <3>1 DEF Behind
  <2>9. \A i \in Positions' \cap Pending' : Behind(attempts[i], saved)'
    <3>1. \A i \in Positions' \cap Pending' : attempts'[i] = a
      BY <1>7, <1>9
    <3>2. \A i \in Positions' \cap Pending' : Behind(attempts'[i], saved')
      BY <1>2, <1>2, <2>6, <3>1
    <3> QED BY <1>3, <3>2 DEF Behind
  <2>10. \A r \in 1..Len(rows') : Behind(rows[r], saved)'
    BY <1>2, <1>3, <2>0 DEF JoinFits, Behind
  <2>11. \A i \in Live : attempts[i].node \in Branches => attempts[i].node # n
        /\ core'.state[attempts[i].node] \in LiveStates
    <3> TAKE i \in Live
    <3> HAVE attempts[i].node \in Branches
    <3>1. core.state[attempts[i].node] \in LiveStates
      BY <1>3, <2>0 DEF JoinFits
    <3>2. attempts[i].node # n
      BY <1>10, <3>1
    <3> QED BY <1>3, <1>6, <3>1, <3>2
  <2>12. \A i \in Live' : (i \in Live /\ attempts'[i] = attempts[i]) \/ (i = L + 1 /\ attempts'[i] = a)
    <3>1. \A i \in Live' : i \in Positions' /\ attempts'[i].state \in LiveStates
      BY DEF Live, Positions
    <3> QED BY <1>7, <3>1 DEF Live, Positions
  <2>13. \A i, j \in Live' : attempts'[i].node \in Branches' =>
             /\ core'.state[attempts'[i].node] \in LiveStates
             /\ attempts'[j].node = attempts'[i].node => i = j
    <3> TAKE i, j \in Live'
    <3> HAVE attempts'[i].node \in Branches'
    <3>1. CASE i \in Live /\ attempts'[i] = attempts[i] /\ j \in Live /\ attempts'[j] = attempts[j]
      BY <1>3, <2>0, <2>11, <3>1 DEF JoinFits
    <3>2. CASE i \in Live /\ attempts'[i] = attempts[i] /\ j = L + 1 /\ attempts'[j] = a
      BY <1>3, <1>4, <2>11, <3>2
    <3>3. CASE i = L + 1 /\ attempts'[i] = a /\ j \in Live /\ attempts'[j] = attempts[j]
      <4>1. attempts[j].node # n
        BY <1>3, <1>4, <2>11, <3>3
      <4> QED BY <1>4, <1>6, <3>3, <4>1
    <3>4. CASE i = L + 1 /\ attempts'[i] = a /\ j = L + 1
      BY <1>4, <1>6, <3>4
    <3> QED BY <2>12, <3>1, <3>2, <3>3, <3>4
  <2> QED BY <2>4, <2>5, <2>8, <2>9, <2>10, <2>13 DEF JoinFits
<1>15. ApprovalFits'
  <2> SUFFICES ASSUME HasApproval(Q) PROVE ApprovalFits'
    BY <1>3 DEF ApprovalFits
  <2>0. ApprovalFits
    BY DEF GraphInv
  <2>1. ~Approves(a) /\ IsLive(a)
    BY <1>4 DEF Approves, LiveStates, IsLive
  <2>2. Given(attempts)' <=> Given(attempts)
    <3>1. Given(attempts) <=> \E i \in Positions : Approves(attempts[i])
      BY DEF Given, Positions
    <3>2. Given(attempts)' <=> \E i \in Positions' : Approves(attempts'[i])
      BY DEF Given, Positions
    <3> QED BY <1>7, <2>1, <3>1, <3>2
  <2>3. (Given(rows)' <=> Given(rows)) /\ (GoneOn(core)' <=> GoneOn(core)) /\ (GoneOn(saved)' <=>
        GoneOn(saved))
    BY <1>2, <1>3, <1>6 DEF Given, GoneOn, Later
  <2>4. Given(attempts) <=> Given(rows)
    BY <1>2, <1>3, <2>0 DEF ApprovalFits
  <2>5. Later(n) => Given(attempts)
    <3> HAVE Later(n)
    <3>1. n \notin {"CLASSIFY", "JOIN"}
      BY DEF Later, Ahead
    <3>2. PICK e \in Into(n) : e \in core.selected
      BY <1>2, <3>1 DEF Ready
    <3>3. WellMade(Q, e) /\ e.to = n
      BY <1>2, <3>2, GraphFacts, EdgesMade
    <3>4. Later(e.from) \/ (e.from = "HUMAN_APPROVAL" /\ e.to = "EXECUTOR_SELECT")
      BY <3>3 DEF Later, WellMade, Sound
    <3>5. GoneOn(core)
      BY <3>2, <3>4 DEF GoneOn
    <3> QED BY <1>2, <2>0, <3>5 DEF ApprovalFits
  <2>6. n = "HUMAN_APPROVAL" => ~Given(attempts) /\ \A i \in Positions : ~(IsApproval(attempts[i])
        /\ IsLive(attempts[i]))
    <3> HAVE n = "HUMAN_APPROVAL"
    <3>1. ~Given(attempts)
      BY <1>2 DEF Alone, ApprovalGiven, Given, Approves, IsApproval
    <3>2. \A i \in Live : attempts[i].state = "RUNNING"
      BY <1>2 DEF Alone
    <3>3. \A i \in Positions : WaitsWell(attempts[i])
      BY DEF GraphInv, DiskFits
    <3>4. \A i \in Positions : IsLive(attempts[i]) => i \in Live
      BY DEF Live, Positions, IsLive
    <3> QED BY <3>1, <3>2, <3>3, <3>4 DEF WaitsWell, IsApproval
  <2>7. (GoneOn(core) => Given(attempts))' /\ (GoneOn(saved) => Given(rows))'
    BY <1>2, <2>0, <2>2, <2>3 DEF ApprovalFits
  <2>8. (\A i \in Positions : Later(attempts[i].node) => Given(attempts))'
    <3>1. \A i \in Positions' : Later(attempts'[i].node) => Given(attempts)
      BY <1>4, <1>7, <2>0, <2>5 DEF ApprovalFits
    <3> QED BY <1>3, <2>2, <3>1 DEF Later
  <2>9. (\A r \in 1..Len(rows) : Later(rows[r].node) => Given(rows))'
    BY <1>2, <1>3, <2>0, <2>3 DEF ApprovalFits, Later
  <2>10. (\A i \in Positions \cap Pending : Later(attempts[i].node) => Given(rows))'
    BY <1>9, <2>2, <2>3, <2>4, <2>8, <1>7
  <2>11. OneApproval(attempts)'
    <3>1. /\ \A i, j \in Positions :
                IsApproval(attempts[i]) /\ IsLive(attempts[i])
                  /\ IsApproval(attempts[j]) /\ IsLive(attempts[j]) => i = j
          /\ Given(attempts) => \A i \in Positions : IsApproval(attempts[i]) => ~IsLive(attempts[i])
      BY <2>0 DEF ApprovalFits, OneApproval, Positions
    <3>2. IsApproval(a) <=> n = "HUMAN_APPROVAL"
      BY <1>4 DEF IsApproval
    <3>3. \A i, j \in Positions' : IsApproval(attempts'[i]) /\ IsLive(attempts'[i])
          /\ IsApproval(attempts'[j]) /\ IsLive(attempts'[j]) => i = j
      BY <1>7, <2>6, <3>1, <3>2
    <3>4. Given(attempts) => \A i \in Positions' : IsApproval(attempts'[i]) => ~IsLive(attempts'[i])
      BY <1>7, <2>6, <3>1, <3>2
    <3> QED BY <2>2, <3>3, <3>4 DEF OneApproval, Positions
  <2>12. OneApproval(rows)'
    BY <1>2, <2>0 DEF ApprovalFits, OneApproval, Given
  <2>13. (\A i, j \in Positions \cap Pending : IsApproval(attempts[i]) /\ IsApproval(attempts[j]) =>
        i = j)'
    BY <1>9
  <2>14. (Given(attempts) => \A i \in Positions \cap Pending : IsApproval(attempts[i]) =>
        Approves(attempts[i]))'
    <3>1. \A i \in Positions' \cap Pending' : attempts'[i] = a
      BY <1>7, <1>9
    <3> QED BY <1>4, <2>2, <2>6, <3>1 DEF IsApproval
  <2> QED BY <2>2, <2>3, <2>4, <2>7, <2>8, <2>9, <2>10, <2>11, <2>12, <2>13, <2>14 DEF ApprovalFits
<1> QED BY <1>12, <1>13, <1>14, <1>15 DEF GraphInv

\* Every step.
LEMMA StepKeeps ==
    ASSUME GraphInv, [Next]_vars
    PROVE  GraphInv'
<1>1. CASE \E n \in DOMAIN core.state : Start(n)
  BY <1>1, StartKeeps
<1>2. CASE \E i \in Live, outcome \in Outcomes, fresh \in BOOLEAN,
              status \in Statuses \cup {"none"} : Finish(i, outcome, fresh, status)
  BY <1>2, FinishKeeps
<1>3. CASE \E i \in Live, retryable \in BOOLEAN : Fail(i, retryable)
  BY <1>3, FailKeeps
<1>4. CASE UNCHANGED vars
  <2>1. /\ UNCHANGED <<graph, core, attempts, loaded, writes, rows, saved, loads>>
    BY <1>4 DEF vars
  <2>2. Q' = Q /\ Branches' = Branches /\ Positions' = Positions /\ Pending' = Pending
        /\ Attempt' = Attempt /\ Live' = Live
    BY <2>1 DEF Q, Branches, Positions, Pending, Attempt, Live
  <2>3. TypeFits'
    BY <2>1, <2>2 DEF GraphInv, TypeFits, Works
  <2>4. DiskFits'
    BY <2>1, <2>2 DEF GraphInv, DiskFits, Orderly
  <2>5. JoinFits'
    BY <2>1, <2>2 DEF GraphInv, JoinFits, JoinedUp, Behind
  <2>6. ApprovalFits'
    BY <2>1, <2>2 DEF GraphInv, ApprovalFits, GoneOn, Given, Later, OneApproval
  <2> QED BY <2>3, <2>4, <2>5, <2>6 DEF GraphInv
<1> QED BY <1>1, <1>2, <1>3, <1>4, CancelKeeps, RerunKeeps, WriteKeeps, LeaveKeeps, LoadKeeps,
      SettleKeeps DEF Next

\* The inductive invariant gives what is claimed.
LEMMA InvariantSuffices ==
    ASSUME GraphInv
    PROVE  PrerequisitesHold
<1>1. JoinHasAllBranches
  BY DEF GraphInv, JoinFits, JoinedUp, JoinHasAllBranches, Branches, Q
<1>2. ApprovalFirst
  <2> SUFFICES ASSUME HasApproval(Q), NEW i \in Positions, attempts[i].node \in graph.executors
               PROVE  ApprovalGiven
    BY DEF ApprovalFirst, Q, Positions
  <2>1. attempts[i].node \in Executors(Q)
    BY GraphFacts DEF GraphInv, TypeFits
  <2>2. Later(attempts[i].node)
    BY <2>1, BranchNames DEF Executors, Later, Ahead
  <2>3. Given(attempts)
    BY <2>2 DEF GraphInv, ApprovalFits
  <2> QED BY <2>3 DEF Given, Approves, IsApproval, ApprovalGiven
<1> QED BY <1>1, <1>2 DEF PrerequisitesHold

\* No node runs before what it waits for (ready_nodes, resume): a join has all its
\* branches behind it, and no Executor attempt exists before the approval does,
\* whatever is retried, repaired, cancelled or lost in a restart between two writes.
THEOREM NobodyRunsAheadOfTheGraph == Spec => []PrerequisitesHold
<1>1. Init => GraphInv
  BY InitHolds
<1>2. GraphInv /\ [Next]_vars => GraphInv'
  BY StepKeeps
<1>3. GraphInv => PrerequisitesHold
  BY InvariantSuffices
<1> QED BY <1>1, <1>2, <1>3, PTL DEF Spec

-----------------------------------------------------------------------------
(***************************************************************************)
(* Sums                                                                    *)
(* A sum over a set is a fold of the community modules, and a choice of an *)
(* element at each step: what it computes is shown from that definition.   *)
(***************************************************************************)
\* The sum of a function over a finite set, as AttemptsArePaidFor takes it.
Total(f, S) == MapThenSumSet(LAMBDA e : f[e], S)

\* What the fold of the community module computes, as a function of the subsets.
First(s) == CHOOSE x \in s : TRUE
Adds(g, f, D) == g = [s \in D |-> IF s = {} THEN 0 ELSE f[First(s)] + g[s \ {First(s)}]]

\* A non-empty subset loses one element with its first.
LEMMA Smaller ==
    ASSUME NEW S, IsFiniteSet(S)
    PROVE  /\ Cardinality(S) \in Nat
           /\ \A s \in SUBSET S :
                 /\ Cardinality(s) \in Nat /\ Cardinality(s) <= Cardinality(S)
                 /\ s # {} => /\ First(s) \in s /\ s \ {First(s)} \in SUBSET S
                              /\ Cardinality(s \ {First(s)}) = Cardinality(s) - 1
                              /\ Cardinality(s) > 0
<1>1. Cardinality(S) \in Nat
  BY FS_CardinalityType
<1>2. ASSUME NEW s \in SUBSET S
      PROVE  IsFiniteSet(s) /\ Cardinality(s) \in Nat /\ Cardinality(s) <= Cardinality(S)
  BY FS_Subset, FS_CardinalityType
<1>3. ASSUME NEW s \in SUBSET S, s # {}
      PROVE  /\ First(s) \in s /\ s \ {First(s)} \in SUBSET S
             /\ Cardinality(s \ {First(s)}) = Cardinality(s) - 1
             /\ Cardinality(s) > 0
  <2>1. First(s) \in s
    BY <1>3 DEF First
  <2>2. Cardinality(s \ {First(s)}) = Cardinality(s) - 1
    BY <1>2, <2>1, FS_RemoveElement
  <2>3. Cardinality(s \ {First(s)}) \in Nat
    BY <1>2
  <2> QED BY <1>2, <2>1, <2>2, <2>3
<1> QED BY <1>1, <1>2, <1>3

\* There is such a function over the subsets, and the sum is its value.
LEMMA TotalIs ==
    ASSUME NEW S, IsFiniteSet(S), NEW f
    PROVE  \E g : Adds(g, f, SUBSET S) /\ Total(f, S) = g[S]
<1> DEFINE Up(n) == {s \in SUBSET S : Cardinality(s) <= n}
           T == {n \in Nat : \E g : Adds(g, f, Up(n))}
<1>0. /\ Cardinality(S) \in Nat
      /\ \A s \in SUBSET S :
            /\ Cardinality(s) \in Nat /\ Cardinality(s) <= Cardinality(S)
            /\ s # {} => /\ s \ {First(s)} \in SUBSET S
                         /\ Cardinality(s \ {First(s)}) = Cardinality(s) - 1
                         /\ Cardinality(s) > 0
  BY Smaller
<1>1. 0 \in T
  <2>1. ASSUME NEW s \in Up(0), s # {} PROVE FALSE
    <3>1. Cardinality(s) \in Nat /\ Cardinality(s) > 0 /\ Cardinality(s) <= 0
      BY <1>0, <2>1
    <3> QED BY <3>1
  <2>2. Adds([s \in Up(0) |-> 0], f, Up(0))
    BY <2>1 DEF Adds
  <2> QED BY <2>2
<1>2. ASSUME NEW n \in T PROVE n + 1 \in T
  <2>1. n \in Nat /\ \E g : Adds(g, f, Up(n))
    OBVIOUS
  <2>2. PICK g : Adds(g, f, Up(n))
    BY <2>1
  <2> DEFINE h == [s \in Up(n + 1) |-> IF s = {} THEN 0 ELSE f[First(s)] + g[s \ {First(s)}]]
  <2>3. \A s \in Up(n) : s \in Up(n + 1) /\ h[s] = g[s]
    <3>1. ASSUME NEW s \in Up(n) PROVE s \in Up(n + 1)
      <4>1. s \in SUBSET S /\ Cardinality(s) \in Nat /\ Cardinality(s) <= n
        BY <1>0
      <4>2. Cardinality(s) <= n + 1
        BY <2>1, <4>1
      <4> QED BY <4>1, <4>2
    <3>2. \A s \in Up(n) : g[s] = IF s = {} THEN 0 ELSE f[First(s)] + g[s \ {First(s)}]
      <4> HIDE DEF Up
      <4> QED BY <2>2 DEF Adds
    <3> HIDE DEF Up
    <3> QED BY <3>1, <3>2
  <2>4. \A s \in Up(n + 1) : s # {} => s \ {First(s)} \in Up(n)
    BY <1>0, <2>1
  <2>5. Adds(h, f, Up(n + 1))
    <3> HIDE DEF Up
    <3> QED BY <2>3, <2>4 DEF Adds
  <2>6. \E k : Adds(k, f, Up(n + 1))
    <3> HIDE DEF h, Up
    <3> QED BY <2>5
  <2> HIDE DEF Up
  <2> QED BY <2>1, <2>6
<1>3. T = Nat
  <2> HIDE DEF T
  <2> QED BY <1>1, <1>2, AllNumbers, T \subseteq Nat DEF T
<1>4. Cardinality(S) \in T
  BY <1>3, FS_CardinalityType
<1>5. Up(Cardinality(S)) = SUBSET S
  BY <1>0
<1>6. \E g : Adds(g, f, SUBSET S)
  <2> HIDE DEF Up
  <2> QED BY <1>4, <1>5
<1>7. \E g : /\ g = CHOOSE k : Adds(k, f, SUBSET S)
             /\ MapThenSumSet(LAMBDA e : f[e], S) = g[S]
  BY DEF MapThenSumSet, MapThenFoldSet, Adds, First
<1> QED BY <1>6, <1>7 DEF Total

\* The sum is a number, grows with its summands, and strictly with one of them.
LEMMA TotalGrows ==
    ASSUME NEW S, IsFiniteSet(S), NEW f, NEW k,
           \A x \in S : f[x] \in Nat /\ k[x] \in Nat /\ f[x] <= k[x]
    PROVE  /\ Total(f, S) \in Nat /\ Total(k, S) \in Nat /\ Total(f, S) <= Total(k, S)
           /\ (\E x \in S : f[x] < k[x]) => Total(f, S) + 1 <= Total(k, S)
<1>1. PICK g : Adds(g, f, SUBSET S) /\ Total(f, S) = g[S]
  BY TotalIs
<1>2. PICK h : Adds(h, k, SUBSET S) /\ Total(k, S) = h[S]
  BY TotalIs
<1> DEFINE Fits(s) == /\ g[s] \in Nat /\ h[s] \in Nat /\ g[s] <= h[s]
                      /\ (\E x \in s : f[x] < k[x]) => g[s] + 1 <= h[s]
           T == {n \in Nat : \A s \in SUBSET S : Cardinality(s) <= n => Fits(s)}
<1>3. /\ \A s \in SUBSET S : g[s] = IF s = {} THEN 0 ELSE f[First(s)] + g[s \ {First(s)}]
      /\ \A s \in SUBSET S : h[s] = IF s = {} THEN 0 ELSE k[First(s)] + h[s \ {First(s)}]
  BY <1>1, <1>2 DEF Adds
<1>4. Fits({})
  <2>1. {} \in SUBSET S
    OBVIOUS
  <2>2. g[{}] = 0 /\ h[{}] = 0
    BY <1>3, <2>1
  <2> QED BY <2>2
<1>5. 0 \in T
  <2>1. ASSUME NEW s \in SUBSET S, Cardinality(s) <= 0, s # {} PROVE FALSE
    <3>1. Cardinality(s) \in Nat /\ Cardinality(s) > 0
      BY <2>1, Smaller
    <3> QED BY <2>1, <3>1
  <2> HIDE DEF Fits
  <2> QED BY <1>4, <2>1
<1>6. ASSUME NEW n \in T PROVE n + 1 \in T
  <2> SUFFICES ASSUME NEW s \in SUBSET S, Cardinality(s) <= n + 1 PROVE Fits(s)
    BY n \in Nat
  <2>1. CASE s = {}
    BY <1>4, <2>1
  <2>2. CASE s # {}
    <3> DEFINE x == First(s)
               r == s \ {x}
    <3>1. x \in s /\ r \in SUBSET S /\ Cardinality(r) <= n
      BY <2>2, Smaller
    <3>2. Fits(r)
      BY <3>1
    <3>3. g[s] = f[x] + g[r] /\ h[s] = k[x] + h[r]
      BY <1>3, <2>2
    <3>4. f[x] \in Nat /\ k[x] \in Nat /\ f[x] <= k[x]
      BY <3>1
    <3>5. (\E y \in s : f[y] < k[y]) => f[x] < k[x] \/ \E y \in r : f[y] < k[y]
      OBVIOUS
    <3> HIDE DEF x, r, T
    <3> QED BY <3>2, <3>3, <3>4, <3>5
  <2> QED BY <2>1, <2>2
<1>7. T = Nat
  <2> HIDE DEF T
  <2> QED BY <1>5, <1>6, AllNumbers, T \subseteq Nat DEF T
<1>8. Cardinality(S) \in T
  BY <1>7, FS_CardinalityType
<1> QED BY <1>1, <1>2, <1>8, Smaller

-----------------------------------------------------------------------------
(***************************************************************************)
(* The invariant of the attempts                                           *)
(* Which attempts may be live beside each other and beside a core, and what *)
(* the core has paid for; with the disk, where a restart begins again.     *)
(***************************************************************************)
\* Attempts that may not be under way beside each other.
Exclusive(a, b) == a.node = b.node \/ a.node = "FINALIZE"

\* The nodes that come after the parallel group, and when it is done.
Outer(n) == n \notin {"CLASSIFY", "FINALIZE"} \cup Branches
BranchesDone(c) == \A m \in Branches \ {"EXECUTOR_EVIDENCE"} : c.state[m] = "SUCCEEDED"

\* A core whose graph ends by anything but a success, and one that is shut.
EndsBadly(c) == \E e \in c.selected : e.to = "FINALIZE" /\ e.type # "ON_SUCCESS"
Shut(c) == \A m \in Nodes(Q) \ {"FINALIZE"} : c.state[m] \in DoneStates \cup {"CANCELLED", "SKIPPED"}

\* A node has one live attempt, in memory and in the rows, and FINALIZE is alone;
\* while a start is being written, nothing else is.
ApartFits ==
    /\ \A i, j \in Live : Exclusive(attempts[i], attempts[j]) => i = j
    /\ \A r, s \in 1..Len(rows) :
          IsLive(rows[r]) /\ IsLive(rows[s]) /\ Exclusive(rows[r], rows[s]) => r = s
    /\ \A i \in Live \cap Pending : Pending \subseteq {i, Snapshot}

\* What a core selected says of its states: a closing edge shut all other nodes, an
\* edge from behind the parallel group came after the group, and a reviewer whose
\* approval ends the graph is done.
CoreFits(c) ==
    /\ EndsBadly(c) => Shut(c)
    /\ (\E e \in c.selected : Outer(e.from)) => BranchesDone(c)
    /\ Passed \in c.selected => c.state["REVIEWER"] \in DoneStates

\* An attempt beside the core that goes with it.
Goes(a, c) ==
    /\ Outer(a.node) => BranchesDone(c)
    /\ IsLive(a) /\ a.node # "CHECKPOINT" => c.state[a.node] \notin DoneStates

\* So it is in memory and in the checkpoint, and so the attempts and the rows go
\* with the core beside them: nothing is live in a shut graph but its end.
CloseFits ==
    /\ CoreFits(core) /\ CoreFits(saved)
    /\ \A i \in Positions : Goes(attempts[i], core)
    /\ \A i \in Positions \cap Pending :
          /\ Goes(attempts[i], saved)
          /\ IsLive(attempts[i]) /\ EndsBadly(saved) => attempts[i].node = "FINALIZE"
    /\ \A r \in 1..Len(rows) :
          /\ Goes(rows[r], saved)
          /\ IsLive(rows[r]) /\ EndsBadly(saved) => rows[r].node \in {"FINALIZE", "CHECKPOINT"}
    /\ EndsBadly(core) => \A i \in Live :
          \/ attempts[i].node = "FINALIZE"
          \/ attempts[i].node = "CHECKPOINT" /\ Settling \in Pending

\* Nothing is live once the graph is final, in memory or in the rows.
FinalFits ==
    /\ Final(saved) => Final(core)
    /\ Final(core) => Live = {} /\ \A i \in Positions \cap Pending : attempts[i].node # "CHECKPOINT"
    /\ Final(saved) => \A r \in 1..Len(rows) : ~IsLive(rows[r])

\* The Executor's attempts are paid for, with one to spare while it may start.
Back(c) == {e \in DOMAIN c.traversed : e.to = "EXECUTOR_PRIMARY"}
PaidFor(c) ==
    c.count["EXECUTOR_PRIMARY"]
        <= Total(c.traversed, Back(c)) + (IF c.state["EXECUTOR_PRIMARY"] \in Startable THEN 0 ELSE 1)

\* It is the checkpoint that is loaded after a restart: what it counts is paid for too.
PaidFits == Branches = {} => PaidFor(core) /\ PaidFor(saved)

\* The inductive invariant of the attempts.
AttemptInv == ApartFits /\ CloseFits /\ FinalFits /\ PaidFits

\* What a call that ends the attempts O may do to the core.
CloseStep(O) ==
    /\ CoreFits(core)'
    /\ BranchesDone(core) => BranchesDone(core)'
    /\ \A i \in Live \ O :
          attempts[i].node # "CHECKPOINT" => core'.state[attempts[i].node] \notin DoneStates
    /\ EndsBadly(core)' => \A i \in Live \ O :
          \/ attempts[i].node = "FINALIZE"
          \/ attempts[i].node = "CHECKPOINT" /\ Settling \in Pending'

\* And it ends all of them when it makes the graph final.
FinalStep(O) ==
    /\ ~Final(core)
    /\ Final(core)' => Live \subseteq O /\ \A i \in O : attempts[i].node # "CHECKPOINT"

\* What stays as it is in a call.
LEMMA CallFacts ==
    ASSUME TypeFits, DiskFits, Pending \subseteq {Settling}, NEW O, CallStep(O)
    PROVE  /\ Q' = Q /\ Branches' = Branches /\ Positions' = Positions /\ rows' = rows
           /\ saved' = saved /\ saved = core
           /\ Positions \cap Pending = {} /\ Positions' \cap Pending' = O
           /\ Live' = Live \ O /\ O \subseteq Positions /\ O \subseteq Live
           /\ \A i \in Positions : attempts'[i].node = attempts[i].node
           /\ \A i \in Live' : attempts'[i] = attempts[i]
           /\ \A i \in O : ~IsLive(attempts'[i])
           /\ \A i \in Positions : IsLive(attempts'[i]) <=> i \in Live'
<1>1. /\ Positions' = Positions /\ rows' = rows /\ saved' = saved /\ Q' = Q /\ Branches' = Branches
      /\ Pending' = Range(writes') /\ loaded /\ Len(attempts) \in Nat
  BY DEF CallStep, Ending, Positions, Pending, Q, Branches, TypeFits
<1>2. /\ \A i \in Positions : i \notin O => attempts'[i] = attempts[i]
      /\ \A i \in Positions : i \in O => ~IsLive(attempts'[i])
      /\ \A i \in Positions : attempts'[i].node = attempts[i].node
      /\ O \subseteq Live
  BY DEF CallStep, Ending, Same
<1>3. /\ \A i : i \in Live <=> i \in Positions /\ IsLive(attempts[i])
      /\ \A i : i \in Live' <=> i \in Positions /\ IsLive(attempts'[i])
  BY <1>1 DEF Live, IsLive, Positions
<1>4. Live' = Live \ O /\ O \subseteq Positions
  BY <1>2, <1>3
<1>5. Positions' \cap Pending' = O /\ Positions \cap Pending = {} /\ Snapshot \notin Pending
  <2>1. Pending' \subseteq {Snapshot, Settling} \cup O /\ O \subseteq Pending'
    BY <1>1 DEF CallStep
  <2> QED BY <1>1, <1>4, <2>1, Marks DEF Positions
<1>6. saved = core
  BY <1>5 DEF DiskFits
<1> QED BY <1>1, <1>2, <1>3, <1>4, <1>5, <1>6

\* A call that does so keeps the invariant of the attempts.
LEMMA CallKeepsAttempts ==
    ASSUME TypeFits, DiskFits, AttemptInv, Pending \subseteq {Settling}, NEW O, CallStep(O),
           CloseStep(O), FinalStep(O), Branches = {} => PaidFor(core')
    PROVE  AttemptInv'
<1>1. /\ Q' = Q /\ Branches' = Branches /\ Positions' = Positions /\ rows' = rows
      /\ saved' = saved /\ saved = core
      /\ Positions' \cap Pending' = O
      /\ Live' = Live \ O /\ O \subseteq Positions /\ O \subseteq Live
      /\ \A i \in Positions : attempts'[i].node = attempts[i].node
      /\ \A i \in Live' : attempts'[i] = attempts[i]
      /\ \A i \in O : ~IsLive(attempts'[i])
      /\ \A i \in Positions : IsLive(attempts'[i]) <=> i \in Live'
  BY CallFacts
<1>2. ApartFits'
  <2>1. \A i, j \in Live' : Exclusive(attempts'[i], attempts'[j]) => i = j
    BY <1>1 DEF AttemptInv, ApartFits
  <2>2. Live' \cap Pending' = {}
    <3>1. Live \subseteq Positions
      BY DEF Live, Positions
    <3> QED BY <1>1, <3>1
  <2> QED BY <1>1, <2>1, <2>2 DEF AttemptInv, ApartFits, Exclusive, IsLive
<1>3. CloseFits'
  <2>0. CloseFits
    BY DEF AttemptInv
  <2>1. CoreFits(core)' /\ CoreFits(saved)'
    <3>1. CoreFits(saved)'
      BY <1>1, <2>0 DEF CloseFits, CoreFits, EndsBadly, Shut, Outer, BranchesDone
    <3> QED BY <3>1 DEF CloseStep
  <2>2. \A i \in Positions' : Goes(attempts[i], core)'
    <3> TAKE i \in Positions'
    <3>1. Goes(attempts[i], core)
      BY <1>1, <2>0 DEF CloseFits
    <3>2. (Outer(attempts[i].node) => BranchesDone(core))'
      BY <1>1, <3>1 DEF Goes, Outer, CloseStep
    <3>3. IsLive(attempts'[i]) /\ attempts'[i].node # "CHECKPOINT" =>
          core'.state[attempts'[i].node] \notin DoneStates
      BY <1>1 DEF CloseStep
    <3> QED BY <3>2, <3>3 DEF Goes, Outer, IsLive, BranchesDone
  <2>3. \A i \in Positions' \cap Pending' :
          /\ Goes(attempts[i], saved)'
          /\ (IsLive(attempts[i]) /\ EndsBadly(saved) => attempts[i].node = "FINALIZE")'
    <3> TAKE i \in Positions' \cap Pending'
    <3>1. Goes(attempts[i], core) /\ i \in O
      BY <1>1, <2>0 DEF CloseFits
    <3> QED BY <1>1, <3>1 DEF Goes, Outer, IsLive, BranchesDone
  <2>4. \A r \in 1..Len(rows') :
          /\ Goes(rows[r], saved)'
          /\ (IsLive(rows[r]) /\ EndsBadly(saved) => rows[r].node \in {"FINALIZE", "CHECKPOINT"})'
    BY <1>1, <2>0 DEF CloseFits, Goes, Outer, IsLive, BranchesDone, EndsBadly
  <2>5. EndsBadly(core)' => \A i \in Live' :
          \/ attempts'[i].node = "FINALIZE"
          \/ attempts'[i].node = "CHECKPOINT" /\ Settling \in Pending'
    BY <1>1 DEF CloseStep
  <2> QED BY <2>1, <2>2, <2>3, <2>4, <2>5 DEF CloseFits
<1>4. FinalFits'
  BY <1>1 DEF AttemptInv, FinalFits, FinalStep, Final, IsLive
<1>5. PaidFits'
  BY <1>1 DEF AttemptInv, PaidFits
<1> QED BY <1>2, <1>3, <1>4, <1>5 DEF AttemptInv

-----------------------------------------------------------------------------
(***************************************************************************)
(* What is paid for                                                        *)
(***************************************************************************)
\* Finitely many counted edges lead back to the Executor.
LEMMA BackFinite ==
    ASSUME NEW q
    PROVE  IsFiniteSet({e \in Repeats(q) : e.to = "EXECUTOR_PRIMARY"})
<1> DEFINE back == {e \in Repeats(q) : e.to = "EXECUTOR_PRIMARY"}
           R(y) == {[from |-> f, type |-> y, to |-> "EXECUTOR_PRIMARY", max |-> RetryLimit] :
              f \in Names}
<1>1. \A y : IsFiniteSet(R(y))
  <2> TAKE y
  <2> DEFINE g == [f \in Names |-> [from |-> f, type |-> y, to |-> "EXECUTOR_PRIMARY",
        max |-> RetryLimit]]
  <2>1. g \in Surjection(Names, R(y))
    BY DEF Surjection
  <2> HIDE DEF g, R
  <2> QED BY <2>1, NamesFinite, FS_Surjection
<1>2. \A e \in back : \E y \in {"ON_RETRYABLE_FAILURE", "ON_FALLBACK", "ON_FINDING"} : e \in R(y)
  <2> TAKE e \in back
  <2>1. WellMade(q, e) /\ e.max > 0 /\ e.to = "EXECUTOR_PRIMARY"
    BY EdgesMade DEF Repeats
  <2>2. /\ e = [from |-> e.from, type |-> e.type, to |-> "EXECUTOR_PRIMARY", max |-> RetryLimit]
        /\ e.type \in {"ON_RETRYABLE_FAILURE", "ON_FALLBACK", "ON_FINDING"} /\ e.from \in Names
    BY <2>1, NamesFinite DEF WellMade, Sound
  <2> QED BY <2>2
<1> HIDE DEF R
<1>3. back \subseteq (R("ON_RETRYABLE_FAILURE") \cup R("ON_FALLBACK")) \cup R("ON_FINDING")
  BY <1>2
<1>4. IsFiniteSet((R("ON_RETRYABLE_FAILURE") \cup R("ON_FALLBACK")) \cup R("ON_FINDING"))
  BY <1>1, FS_Union
<1> QED BY <1>3, <1>4, FS_Subset

\* What is paid for stays so while the counts stand and the traversals grow, and
\* the Executor is sent round again only along an edge that is counted.
LEMMA StaysPaid ==
    ASSUME NEW q \in Compiled, NEW c \in CoreType(q), NEW d \in CoreType(q), PaidFor(c),
           \A e \in Repeats(q) : c.traversed[e] <= d.traversed[e],
           d.state["EXECUTOR_PRIMARY"] \in Startable =>
             \/ c.state["EXECUTOR_PRIMARY"] \in Startable
             \/ \E e \in Repeats(q) : e.to = "EXECUTOR_PRIMARY" /\ c.traversed[e] < d.traversed[e],
           d.count = c.count
    PROVE  PaidFor(d)
<1> DEFINE back == {e \in Repeats(q) : e.to = "EXECUTOR_PRIMARY"}
<1>1. /\ Back(c) = back /\ Back(d) = back
      /\ \A e \in back : c.traversed[e] \in Nat /\ d.traversed[e] \in Nat
           /\ c.traversed[e] <= d.traversed[e]
  BY LimitFacts DEF CoreType, Back
<1>2. IsFiniteSet(back)
  BY BackFinite
<1>3. /\ Total(c.traversed, back) \in Nat /\ Total(d.traversed, back) \in Nat
      /\ Total(c.traversed, back) <= Total(d.traversed, back)
      /\ (\E e \in back : c.traversed[e] < d.traversed[e]) =>
            Total(c.traversed, back) + 1 <= Total(d.traversed, back)
  BY <1>1, <1>2, TotalGrows
<1>4. c.count["EXECUTOR_PRIMARY"] \in Nat
  BY LimitFacts, NodeFacts DEF CoreType
<1> QED BY <1>1, <1>3, <1>4 DEF PaidFor

-----------------------------------------------------------------------------
(***************************************************************************)
(* The calls and the attempts                                              *)
(***************************************************************************)
\* An attempt ends: finish_attempt, fail_attempt, and resume for an interrupted one.
LEMMA EndKeepsAttempts ==
    ASSUME GraphInv, AttemptInv, NEW i \in Live, NEW chosen, NEW c, NEW state, NEW end, NEW w,
           EndStep(i, chosen, c, state, end, w)
    PROVE  AttemptInv'
<1> DEFINE n == attempts[i].node
           O == ClosedAttempts(chosen, n) \cup {i}
<1>1. /\ TypeFits /\ DiskFits /\ JoinFits /\ Pending \subseteq {Settling}
      /\ CallStep(O) /\ core' = c /\ (Settling \in Pending => Settling \in Pending')
  BY EndIsCall DEF GraphInv, EndStep
<1>2. /\ Q' = Q /\ Branches' = Branches /\ Branches \subseteq Nodes(Q) /\ Works(Q) /\ Q \in Compiled
      /\ core \in CoreType(Q) /\ c \in CoreType(Q)
  BY <1>1, NodeFacts DEF CallStep, Q, Branches, TypeFits, Works, EndStep
<1>3. /\ c.selected \subseteq core.selected \cup chosen
      /\ Moves(Q, core, c, n, chosen, end) /\ Effects(Q, core, c, n, chosen)
      /\ c.count = core.count /\ (c.status # core.status => n = "FINALIZE")
      /\ n = "CHECKPOINT" /\ Settling \in Pending => Closing(chosen)
  BY DEF EndStep
<1>4. \A j \in Live : /\ j \in Positions /\ IsLive(attempts[j]) /\ attempts[j].node \in Nodes(Q)
                      /\ Goes(attempts[j], core) /\ Behind(attempts[j], core)
                      /\ Exclusive(attempts[i], attempts[j]) => i = j
  <2> TAKE j \in Live
  <2>1. j \in Positions /\ IsLive(attempts[j]) /\ attempts[j] \in Attempt
    BY <1>1 DEF Live, Positions, IsLive, TypeFits
  <2> QED BY <1>1, <2>1 DEF AttemptInv, ApartFits, CloseFits, JoinFits, Attempt
<1>5. \A e \in chosen : e.from = n
  BY <1>2, <1>4, GraphFacts DEF EndStep
<1>6. \A j \in Live \ O : attempts[j].node # n /\ ~Closing(chosen)
  BY <1>4 DEF ClosedAttempts, Exclusive
<1>7. BranchesDone(core) => BranchesDone(c)
  <2> SUFFICES ASSUME BranchesDone(core), NEW m \in Branches \ {"EXECUTOR_EVIDENCE"}
               PROVE  c.state[m] = "SUCCEEDED"
    BY DEF BranchesDone
  <2>1. core.state[m] = "SUCCEEDED" /\ m \in Nodes(Q)
    BY <1>2 DEF BranchesDone
  <2>2. m # n
    BY <1>4, <2>1 DEF Behind
  <2> QED BY <1>3, <2>1, <2>2 DEF Moves, Branches, DoneStates
<1>8. EndsBadly(c) /\ ~Closing(chosen) => EndsBadly(core)
  BY <1>3 DEF EndsBadly, Closing
<1>9. EndsBadly(c) => Shut(c)
  <2> HAVE EndsBadly(c)
  <2>1. CASE Closing(chosen)
    BY <1>3, <2>1 DEF Effects, Shut
  <2>2. CASE ~Closing(chosen)
    <3>1. EndsBadly(core) /\ Shut(core)
      BY <1>8, <2>2 DEF AttemptInv, CloseFits, CoreFits
    <3>2. n = "FINALIZE"
      BY <1>3, <2>2, <3>1 DEF AttemptInv, CloseFits
    <3> QED BY <1>3, <3>1, <3>2 DEF Effects, Shut
  <2> QED BY <2>1, <2>2
<1>10. (\E e \in c.selected : Outer(e.from)) => BranchesDone(c)
  <2> SUFFICES ASSUME NEW e \in c.selected, Outer(e.from) PROVE BranchesDone(core)
    BY <1>7
  <2>1. CASE e \in core.selected
    BY <2>1 DEF AttemptInv, CloseFits, CoreFits
  <2>2. CASE e \in chosen
    BY <1>4, <1>5, <2>2 DEF Goes
  <2> QED BY <1>3, <2>1, <2>2
<1>11. Passed \in c.selected => c.state["REVIEWER"] \in DoneStates
  <2> SUFFICES ASSUME Passed \in c.selected, c.state["REVIEWER"] \notin DoneStates PROVE FALSE
    OBVIOUS
  <2>1. Passed \notin chosen /\ (n = "REVIEWER" \/ core.state["REVIEWER"] \notin DoneStates)
    BY <1>3 DEF Effects
  <2>2. core.state["REVIEWER"] \in DoneStates
    BY <1>3, <2>1 DEF AttemptInv, CloseFits, CoreFits
  <2> QED BY <1>4, <2>1, <2>2 DEF Goes
<1>12. CoreFits(c)
  BY <1>9, <1>10, <1>11 DEF CoreFits
<1>13. CloseStep(O)
  <2>1. CoreFits(core)' /\ (BranchesDone(core) => BranchesDone(core)')
    BY <1>1, <1>2, <1>7, <1>12 DEF CoreFits, EndsBadly, Shut, Outer, BranchesDone
  <2>2. \A j \in Live \ O : attempts[j].node # "CHECKPOINT" =>
        core'.state[attempts[j].node] \notin DoneStates
    BY <1>1, <1>3, <1>4, <1>6 DEF Effects, Goes
  <2>3. EndsBadly(core)' => \A j \in Live \ O :
          \/ attempts[j].node = "FINALIZE"
          \/ attempts[j].node = "CHECKPOINT" /\ Settling \in Pending'
    <3>1. EndsBadly(core)' <=> EndsBadly(c)
      BY <1>1 DEF EndsBadly
    <3> QED BY <1>1, <1>6, <1>8, <3>1 DEF AttemptInv, CloseFits
  <2> QED BY <2>1, <2>2, <2>3 DEF CloseStep
<1>14. FinalStep(O)
  <2>1. ~Final(core)
    BY DEF AttemptInv, FinalFits
  <2>2. ASSUME Final(core)' PROVE Live \subseteq O /\ \A j \in O : attempts[j].node # "CHECKPOINT"
    <3>1. n = "FINALIZE"
      BY <1>1, <1>3, <2>1, <2>2 DEF Final
    <3>2. Live = {i}
      BY <1>4, <3>1 DEF Exclusive
    <3>3. O \subseteq Live
      BY DEF ClosedAttempts
    <3> QED BY <3>1, <3>2, <3>3
  <2> QED BY <2>1, <2>2 DEF FinalStep
<1>15. Branches = {} => PaidFor(c)
  <2> HAVE Branches = {}
  <2>1. PaidFor(core)
    BY DEF AttemptInv, PaidFits
  <2> QED BY <1>2, <1>3, <2>1, StaysPaid DEF Effects
<1> HIDE DEF O
<1> QED BY <1>1, <1>13, <1>14, <1>15, CallKeepsAttempts

\* cancel
LEMMA CancelKeepsAttempts ==
    ASSUME GraphInv, AttemptInv, Cancel
    PROVE  AttemptInv'
<1>1. PICK from : CancelStep(from)
  BY CancelIsCall
<1> DEFINE e == Edge(from, "ON_FAILURE", "FINALIZE")
<1>2. /\ loaded /\ Pending = {} /\ CallStep(Live) /\ ~Final(core)
      /\ from = "CLASSIFY" \/ \E i \in Live : from = attempts[i].node
      /\ core'.selected = core.selected \cup {e}
      /\ core'.status = core.status /\ core'.count = core.count /\ core'.traversed = core.traversed
      /\ \A n \in Nodes(Q) :
            core'.state[n] = IF n = "FINALIZE" THEN "WAITING_DEPENDENCY"
                             ELSE IF core.state[n] \in DoneStates THEN core.state[n] ELSE "CANCELLED"
  BY <1>1 DEF CancelStep
<1>3. e.from = from /\ e.type = "ON_FAILURE" /\ e.to = "FINALIZE"
  BY DEF Edge
<1> HIDE DEF e
<1>4. /\ TypeFits /\ DiskFits /\ Q' = Q /\ Branches' = Branches /\ Branches \subseteq Nodes(Q)
      /\ "FINALIZE" \notin Branches /\ Q \in Compiled
      /\ core \in CoreType(Q) /\ core' \in CoreType(Q) /\ CoreFits(core)
  BY <1>2, NodeFacts, BranchNames
     DEF GraphInv, CallStep, Q, Branches, TypeFits, Works, AttemptInv, CloseFits
<1>5. Shut(core')
  BY <1>2 DEF Shut
<1>6. BranchesDone(core) => BranchesDone(core')
  BY <1>2, <1>4 DEF BranchesDone, DoneStates
<1>7. (\E d \in core'.selected : Outer(d.from)) => BranchesDone(core')
  <2> SUFFICES ASSUME NEW d \in core'.selected, Outer(d.from) PROVE BranchesDone(core)
    BY <1>6
  <2>1. CASE d \in core.selected
    BY <1>4, <2>1 DEF CoreFits
  <2>2. CASE d = e
    <3>1. PICK i \in Live : from = attempts[i].node
      BY <1>2, <1>3, <2>2 DEF Outer
    <3>2. Goes(attempts[i], core)
      BY DEF AttemptInv, CloseFits, Live, Positions
    <3> QED BY <1>3, <2>2, <3>1, <3>2 DEF Goes
  <2> QED BY <1>2, <2>1, <2>2
<1>8. Passed \in core'.selected => core'.state["REVIEWER"] \in DoneStates
  <2> HAVE Passed \in core'.selected
  <2>1. Passed.type = "ON_SUCCESS" /\ Passed.from = "REVIEWER"
    BY DEF Passed, Edge
  <2>2. Passed \in core.selected
    BY <1>2, <1>3, <2>1
  <2>3. "REVIEWER" \in Nodes(Q)
    BY <1>4, <2>1, <2>2, EdgesMade DEF CoreType, WellMade, Sound
  <2> QED BY <1>2, <1>4, <2>2, <2>3 DEF CoreFits
<1>9. CloseStep(Live)
  <2>1. CoreFits(core') /\ (CoreFits(core)' <=> CoreFits(core'))
    BY <1>4, <1>5, <1>7, <1>8 DEF CoreFits, EndsBadly, Shut, Outer, BranchesDone
  <2>2. BranchesDone(core) => BranchesDone(core)'
    BY <1>4, <1>6 DEF BranchesDone
  <2> QED BY <2>1, <2>2 DEF CloseStep
<1>10. FinalStep(Live)
  BY <1>2 DEF FinalStep, Final
<1>11. Branches = {} => PaidFor(core')
  <2> HAVE Branches = {}
  <2>1. PaidFor(core)
    BY DEF AttemptInv, PaidFits
  <2>2. core'.state["EXECUTOR_PRIMARY"] \notin Startable
    BY <1>2, NodeFacts DEF Startable, DoneStates
  <2>3. \A d \in Repeats(Q) : core.traversed[d] \in Nat
    BY <1>4, LimitFacts DEF CoreType
  <2> QED BY <1>2, <1>4, <2>1, <2>2, <2>3, StaysPaid
<1> QED BY <1>2, <1>4, <1>9, <1>10, <1>11, CallKeepsAttempts

\* partial_rerun
LEMMA RerunKeepsAttempts ==
    ASSUME GraphInv, AttemptInv, PartialRerun
    PROVE  AttemptInv'
<1> DEFINE n == "EXECUTOR_EVIDENCE"
<1>1. RerunStep
  BY RerunIsCall
<1>2. /\ loaded /\ Pending = {} /\ ~Final(core) /\ CallStep({}) /\ n \in Branches
      /\ Below(n) \cap Branches = {n} /\ ~Final(core') /\ core'.selected \subseteq core.selected
      /\ Into("FINALIZE") \cap core.selected = {} /\ LiveNodes \subseteq {"EXECUTOR_PRIMARY"}
      /\ \A m \in Nodes(Q) \ Below(n) : core'.state[m] = core.state[m]
      /\ \A m \in Nodes(Q) : m \in Below(n) => core'.state[m] \in {"QUEUED", "WAITING_DEPENDENCY"}
  BY <1>1 DEF RerunStep
<1>3. /\ TypeFits /\ DiskFits /\ Q' = Q /\ Branches' = Branches /\ Branches \subseteq Nodes(Q)
      /\ Works(Q) /\ core \in CoreType(Q) /\ CoreFits(core)
  BY <1>2, NodeFacts DEF GraphInv, CallStep, Q, Branches, TypeFits, AttemptInv, CloseFits
<1>4. \A e \in core'.selected : e.to # "FINALIZE"
  <2>1. \A e \in core.selected : e \in Edges(Q)
    BY <1>3 DEF CoreType
  <2>2. "FINALIZE" \in Nodes(Q)
    BY NodeFacts
  <2> QED BY <1>2, <1>3, <2>1, <2>2, GraphFacts
<1>5. ~EndsBadly(core') /\ Passed \notin core'.selected
  BY <1>4 DEF EndsBadly, Passed, Edge
<1>6. BranchesDone(core) => BranchesDone(core')
  BY <1>2, <1>3 DEF BranchesDone
<1>7. (\E e \in core'.selected : Outer(e.from)) => BranchesDone(core')
  BY <1>2, <1>3, <1>6 DEF CoreFits
<1>8. CloseStep({})
  <2>1. CoreFits(core') /\ (CoreFits(core)' <=> CoreFits(core'))
    BY <1>3, <1>5, <1>7 DEF CoreFits, EndsBadly, Shut, Outer, BranchesDone
  <2>2. (BranchesDone(core) => BranchesDone(core)') /\ ~EndsBadly(core)'
    BY <1>3, <1>5, <1>6 DEF BranchesDone, EndsBadly
  <2>3. ASSUME NEW i \in Live PROVE core'.state[attempts[i].node] \notin DoneStates
    <3>1. attempts[i].node = "EXECUTOR_PRIMARY" /\ "EXECUTOR_PRIMARY" \in Nodes(Q)
      BY <1>2, NodeFacts DEF LiveNodes
    <3>2. Goes(attempts[i], core) /\ IsLive(attempts[i])
      BY DEF AttemptInv, CloseFits, Live, Positions, IsLive
    <3> QED BY <1>2, <3>1, <3>2 DEF Goes, DoneStates
  <2> QED BY <2>1, <2>2, <2>3 DEF CloseStep
<1>9. FinalStep({})
  BY <1>2 DEF FinalStep, Final
<1> QED BY <1>2, <1>3, <1>8, <1>9, CallKeepsAttempts

\* Nothing is left in memory but a core that is on disk.
LEMMA GoneKeepsAttempts ==
    ASSUME AttemptInv, graph' = graph, core' = saved, saved' = saved, rows' = rows, attempts' = <<>>
    PROVE  AttemptInv'
<1>1. Q' = Q /\ Branches' = Branches /\ Positions' = {} /\ Live' = {}
  BY DEF Q, Branches, Positions, Live
<1>2. ApartFits'
  BY <1>1 DEF AttemptInv, ApartFits
<1>3. CloseFits'
  <2>1. CoreFits(core)' /\ CoreFits(saved)'
    BY <1>1 DEF AttemptInv, CloseFits, CoreFits, EndsBadly, Shut, Outer, BranchesDone
  <2>2. \A r \in 1..Len(rows') :
          /\ Goes(rows[r], saved)'
          /\ (IsLive(rows[r]) /\ EndsBadly(saved) => rows[r].node \in {"FINALIZE", "CHECKPOINT"})'
    BY <1>1 DEF AttemptInv, CloseFits, Goes, Outer, BranchesDone, EndsBadly
  <2> QED BY <1>1, <2>1, <2>2 DEF CloseFits
<1>4. FinalFits'
  BY <1>1 DEF AttemptInv, FinalFits, Final
<1>5. PaidFits'
  BY <1>1 DEF AttemptInv, PaidFits
<1> QED BY <1>2, <1>3, <1>4, <1>5 DEF AttemptInv

\* resume
LEMMA SettleKeepsAttempts ==
    ASSUME GraphInv, AttemptInv, Settle
    PROVE  AttemptInv'
<1>1. loaded /\ Pending = {Settling} /\ TypeFits /\ DiskFits /\ core \in CoreType(Q)
      /\ Len(attempts) \in Nat
  BY Tuples, Marks DEF Settle, Pending, GraphInv, TypeFits
<1>2. saved = core
  BY <1>1, Marks DEF DiskFits
<1>3. CASE Interrupted = {} /\ Usable
  <2>1. CallStep({}) /\ core' = core
    BY <1>1, <1>3, QuietCommit DEF Settle
  <2>2. Q' = Q /\ Branches' = Branches
    BY <2>1 DEF CallStep, Branches, Q
  <2>3. ASSUME NEW i \in Live
        PROVE  attempts[i].node \notin {"FINALIZE", "CHECKPOINT"} /\ Goes(attempts[i], core)
             /\ IsLive(attempts[i])
    <3>1. attempts[i].state \in LiveStates \ {"RUNNING"} /\ WaitsWell(attempts[i])
      BY <1>1, <1>3 DEF Interrupted, Live, DiskFits, Positions
    <3>2. attempts[i].node \in {"HUMAN_APPROVAL", "TOOL"} /\ IsLive(attempts[i])
      BY <3>1 DEF WaitsWell, LiveStates, IsLive
    <3>3. Goes(attempts[i], core)
      BY DEF AttemptInv, CloseFits, Live, Positions
    <3> QED BY <3>2, <3>3
  <2>4. EndsBadly(core) => Live = {}
    BY <2>3 DEF AttemptInv, CloseFits
  <2>5. CloseStep({})
    <3>1. CoreFits(core)' /\ (BranchesDone(core) => BranchesDone(core)') /\ (EndsBadly(core)' <=>
          EndsBadly(core))
      BY <2>1, <2>2 DEF AttemptInv, CloseFits, CoreFits, EndsBadly, Shut, Outer, BranchesDone
    <3> QED BY <2>1, <2>3, <2>4, <3>1 DEF CloseStep, Goes
  <2>6. FinalStep({})
    <3>1. ~Final(core)
      BY <1>3 DEF Usable, AttemptInv, FinalFits
    <3> QED BY <2>1, <3>1 DEF FinalStep, Final
  <2>7. Branches = {} => PaidFor(core')
    BY <2>1 DEF AttemptInv, PaidFits
  <2> QED BY <1>1, <2>1, <2>5, <2>6, <2>7, CallKeepsAttempts
<1>4. CASE Interrupted = {} /\ ~Usable
  <2>1. saved' = saved /\ core' = saved /\ rows' = rows /\ graph' = graph /\ attempts' = <<>>
    BY <1>2, <1>4 DEF Settle
  <2> QED BY <2>1, GoneKeepsAttempts
<1>5. CASE Interrupted # {}
  BY <1>5, SettleIsEnd, EndKeepsAttempts
<1> QED BY <1>3, <1>4, <1>5

\* load_runtime
LEMMA LoadKeepsAttempts ==
    ASSUME GraphInv, AttemptInv, Load
    PROVE  AttemptInv'
<1>1. /\ core' = saved /\ attempts' = rows /\ writes' = <<Settling>>
      /\ UNCHANGED <<graph, rows, saved>>
  BY DEF Load
<1>2. /\ Q' = Q /\ Branches' = Branches /\ Pending' = {Settling} /\ Positions' = 1..Len(rows)
      /\ Positions' \cap Pending' = {} /\ Len(rows) \in Nat
      /\ \A r : r \in Live' <=> r \in 1..Len(rows) /\ IsLive(rows[r])
  <2>1. Len(rows) \in Nat /\ Positions' = 1..Len(rows) /\ Q' = Q /\ Branches' = Branches
    BY <1>1 DEF GraphInv, TypeFits, Positions, Q, Branches
  <2>2. Pending' = {Settling}
    BY <1>1, Tuples, Marks DEF Pending
  <2>3. \A r : r \in Live' <=> r \in 1..Len(rows) /\ IsLive(rows[r])
    BY <1>1 DEF Live, IsLive
  <2> QED BY <2>1, <2>2, <2>3, Marks
<1>3. ApartFits'
  BY <1>1, <1>2 DEF AttemptInv, ApartFits, Exclusive, IsLive
<1>4. CloseFits'
  <2>1. CoreFits(core)' /\ CoreFits(saved)'
    BY <1>1, <1>2 DEF AttemptInv, CloseFits, CoreFits, EndsBadly, Shut, Outer, BranchesDone
  <2>2. \A r \in 1..Len(rows) :
          /\ Goes(rows[r], saved)' /\ Goes(rows[r], saved)
          /\ (IsLive(rows[r]) /\ EndsBadly(saved) => rows[r].node \in {"FINALIZE", "CHECKPOINT"})
    BY <1>1, <1>2 DEF AttemptInv, CloseFits, Goes, Outer, BranchesDone, EndsBadly, IsLive
  <2>3. \A i \in Positions' : Goes(attempts[i], core)'
    BY <1>1, <1>2, <2>2 DEF Goes, Outer, BranchesDone, IsLive
  <2> QED BY <1>1, <1>2, <2>1, <2>2, <2>3 DEF CloseFits, EndsBadly, IsLive
<1>5. FinalFits'
  BY <1>1, <1>2 DEF AttemptInv, FinalFits, Final, IsLive
<1>6. PaidFits'
  BY <1>1, <1>2 DEF AttemptInv, PaidFits
<1> QED BY <1>3, <1>4, <1>5, <1>6 DEF AttemptInv

\* The request is over or the process dies.
LEMMA LeaveKeepsAttempts ==
    ASSUME AttemptInv, Leave
    PROVE  AttemptInv'
BY GoneKeepsAttempts DEF Leave

\* A newly compiled graph.
LEMMA InitHasAttempts ==
    ASSUME Init
    PROVE  AttemptInv
<1>2. PICK q \in Compiled : graph = Compile(q) /\ core = Fresh(q)
  BY DEF Init
<1>3. Q = q /\ core \in CoreType(q) /\ saved = core /\ Positions = {} /\ Live = {} /\ 1..Len(rows) = {}
  BY <1>2, FreshTyped DEF Init, Q, Compile, Positions, Live
<1>4. core.selected = {} /\ core.status = "none" /\ core.count["EXECUTOR_PRIMARY"] = 0
  BY <1>2, NodeFacts DEF Fresh
<1>5. CoreFits(core)
  BY <1>4 DEF CoreFits, EndsBadly
<1>6. PaidFor(core)
  <2> DEFINE back == {e \in Repeats(q) : e.to = "EXECUTOR_PRIMARY"}
  <2>1. Back(core) = back /\ \A e \in back : core.traversed[e] \in Nat
    BY <1>3, LimitFacts DEF CoreType, Back
  <2>2. IsFiniteSet(back)
    BY BackFinite
  <2> HIDE DEF back
  <2>3. Total(core.traversed, back) \in Nat
    BY <2>1, <2>2, TotalGrows
  <2> QED BY <1>4, <2>1, <2>3 DEF PaidFor
<1> QED BY <1>3, <1>4, <1>5, <1>6 DEF AttemptInv, ApartFits, CloseFits, FinalFits, PaidFits, Final

-----------------------------------------------------------------------------
(***************************************************************************)
(* The writes and the attempts                                             *)
(***************************************************************************)
\* The next write of the list: a checkpoint, or a row.
LEMMA WriteKeepsAttempts ==
    ASSUME GraphInv, AttemptInv, Write
    PROVE  AttemptInv'
<1> DEFINE h == Head(writes)
<1>1. /\ loaded /\ core' = core /\ attempts' = attempts /\ h # Settling
      /\ Q' = Q /\ Branches' = Branches /\ Positions' = Positions /\ Live' = Live
      /\ Pending' \subseteq Pending /\ Pending \subseteq Pending' \cup {h}
  BY WriteFacts
<1>2. /\ ApartFits /\ CloseFits /\ FinalFits /\ PaidFits
      /\ \A i : i \in Live <=> i \in Positions /\ IsLive(attempts[i])
  BY DEF AttemptInv, Live, Positions, IsLive
<1>3. \A i \in Live' \cap Pending' : Pending' \subseteq {i, Snapshot}
  BY <1>1, <1>2 DEF ApartFits
<1>4. \A i, j \in Live' : Exclusive(attempts'[i], attempts'[j]) => i = j
  BY <1>1, <1>2 DEF ApartFits
<1>5. /\ CoreFits(core)' /\ \A i \in Positions' : Goes(attempts[i], core)'
      /\ EndsBadly(core)' => \A i \in Live' :
            \/ attempts'[i].node = "FINALIZE"
            \/ attempts'[i].node = "CHECKPOINT" /\ Settling \in Pending'
  BY <1>1, <1>2 DEF CloseFits, CoreFits, Goes, EndsBadly, Shut, Outer, BranchesDone, IsLive
<1>6. Final(core)' => Live' = {} /\ \A i \in Positions' \cap Pending' : attempts'[i].node # "CHECKPOINT"
  BY <1>1, <1>2 DEF FinalFits, Final
<1>7. CASE h = Snapshot
  <2>1. /\ saved' = core /\ rows' = rows
        /\ \A i \in Positions \cap Pending : attempts[i].node = "CHECKPOINT"
    BY <1>7, WriteFacts
  <2>2. ASSUME NEW r \in 1..Len(rows)
        PROVE  \E j \in Positions : /\ Same(attempts[j], rows[r]) /\ Goes(attempts[j], core)
                                    /\ attempts[j].state = rows[r].state \/ (j \in Pending
                                         /\ rows[r].node = "CHECKPOINT")
    <3>1. PICK j \in Positions : Same(attempts[j], rows[r]) /\ (attempts[j].state = rows[r].state
          \/ j \in Pending)
      BY <1>1 DEF GraphInv, DiskFits
    <3>2. Goes(attempts[j], core)
      BY <1>2 DEF CloseFits
    <3>3. j \in Pending => rows[r].node = "CHECKPOINT"
      BY <2>1, <3>1 DEF Same
    <3> QED BY <3>1, <3>2, <3>3
  <2>3. ApartFits'
    BY <1>2, <1>3, <1>4, <2>1 DEF ApartFits, IsLive, Exclusive
  <2>4. \A r \in 1..Len(rows) :
          /\ Goes(rows[r], core)
          /\ IsLive(rows[r]) /\ EndsBadly(core) => rows[r].node \in {"FINALIZE", "CHECKPOINT"}
    <3> TAKE r \in 1..Len(rows)
    <3>1. PICK j \in Positions : /\ Same(attempts[j], rows[r]) /\ Goes(attempts[j], core)
                                 /\ attempts[j].state = rows[r].state \/ (j \in Pending
                                      /\ rows[r].node = "CHECKPOINT")
      BY <2>2
    <3>2. Goes(rows[r], core)
      BY <3>1 DEF Goes, Same, IsLive
    <3>3. ASSUME IsLive(rows[r]), EndsBadly(core) PROVE rows[r].node \in {"FINALIZE", "CHECKPOINT"}
      <4>1. CASE attempts[j].state = rows[r].state
        <5>1. j \in Live /\ attempts[j].node = rows[r].node
          BY <1>2, <3>1, <3>3, <4>1 DEF IsLive, Same
        <5> QED BY <1>2, <3>3, <5>1 DEF CloseFits
      <4> QED BY <3>1, <4>1
    <3> QED BY <3>2, <3>3
  <2>5. \A i \in Positions \cap Pending :
          /\ Goes(attempts[i], core)
          /\ IsLive(attempts[i]) /\ EndsBadly(core) => attempts[i].node = "FINALIZE"
    <3> TAKE i \in Positions \cap Pending
    <3>1. Goes(attempts[i], core)
      BY <1>2 DEF CloseFits
    <3>2. ASSUME IsLive(attempts[i]), EndsBadly(core) PROVE attempts[i].node = "FINALIZE"
      <4>0. Len(attempts) \in Nat
        BY DEF GraphInv, TypeFits
      <4>1. i \in Live /\ Pending \subseteq {i, Snapshot} /\ i # Settling
        BY <1>2, <3>2, <4>0, Marks DEF ApartFits, Positions
      <4>2. Settling \notin Pending
        BY <4>1, Marks
      <4> QED BY <1>2, <3>2, <4>1, <4>2 DEF CloseFits
    <3> QED BY <3>1, <3>2
  <2>6. CloseFits'
    <3>1. CoreFits(saved)'
      BY <1>1, <1>2, <2>1 DEF CloseFits, CoreFits, EndsBadly, Shut, Outer, BranchesDone
    <3>2. \A i \in Positions' \cap Pending' :
            /\ Goes(attempts[i], saved)'
            /\ (IsLive(attempts[i]) /\ EndsBadly(saved) => attempts[i].node = "FINALIZE")'
      BY <1>1, <2>1, <2>5 DEF Goes, EndsBadly, Outer, BranchesDone, IsLive
    <3>3. \A r \in 1..Len(rows') :
            /\ Goes(rows[r], saved)'
            /\ (IsLive(rows[r]) /\ EndsBadly(saved) => rows[r].node \in {"FINALIZE", "CHECKPOINT"})'
      BY <1>1, <2>1, <2>4 DEF Goes, EndsBadly, Outer, BranchesDone, IsLive
    <3> QED BY <1>5, <3>1, <3>2, <3>3 DEF CloseFits
  <2>7. FinalFits'
    <3>1. ASSUME Final(core), NEW r \in 1..Len(rows) PROVE ~IsLive(rows[r])
      <4>1. Live = {} /\ \A i \in Positions \cap Pending : attempts[i].node # "CHECKPOINT"
        BY <1>2, <3>1 DEF FinalFits
      <4>2. PICK j \in Positions : attempts[j].state = rows[r].state
        BY <2>1, <2>2, <4>1
      <4> QED BY <1>2, <4>1, <4>2 DEF IsLive
    <3>2. (Final(saved)' <=> Final(core)) /\ (Final(core)' <=> Final(core))
      BY <1>1, <2>1 DEF Final
    <3> QED BY <1>6, <2>1, <3>1, <3>2 DEF FinalFits, IsLive
  <2>8. PaidFits'
    BY <1>1, <1>2, <2>1 DEF PaidFits
  <2> QED BY <2>3, <2>6, <2>7, <2>8 DEF AttemptInv
<1>8. CASE h # Snapshot
  <2>1. /\ h \in Positions \cap Pending /\ saved' = saved
        /\ \A r \in 1..Len(rows') :
              \/ rows'[r] = attempts[h]
              \/ r \in 1..Len(rows) /\ rows'[r] = rows[r]
        /\ \A r, s \in 1..Len(rows') : Same(rows'[r], rows'[s]) => r = s
        /\ \A r \in 1..Len(rows') : rows'[r] # attempts[h] =>
              \E j \in Positions : /\ j # h /\ Same(attempts[j], rows'[r])
                                   /\ attempts[j].state = rows'[r].state \/ j \in Pending
    BY <1>8, RowFacts
  <2> HIDE DEF h
  <2>2. ASSUME NEW r \in 1..Len(rows'), IsLive(attempts[h]), rows'[r] # attempts[h], IsLive(rows'[r])
        PROVE  ~Exclusive(rows'[r], attempts[h]) /\ ~Exclusive(attempts[h], rows'[r])
    <3>1. PICK j \in Positions : j # h /\ Same(attempts[j], rows'[r])
                                 /\ (attempts[j].state = rows'[r].state \/ j \in Pending)
      BY <2>1, <2>2
    <3>2. h \in Live /\ Pending \subseteq {h, Snapshot}
      BY <1>2, <2>1, <2>2 DEF ApartFits
    <3>3. j # Snapshot
      BY Marks DEF Positions, GraphInv, TypeFits
    <3>4. j \in Live
      BY <1>2, <2>2, <3>1, <3>2, <3>3 DEF IsLive
    <3> QED BY <1>2, <3>1, <3>2, <3>4 DEF ApartFits, Exclusive, Same
  <2>3. ApartFits'
    <3>1. ASSUME NEW r \in 1..Len(rows'), NEW s \in 1..Len(rows'), IsLive(rows'[r]), IsLive(rows'[s]),
                 Exclusive(rows'[r], rows'[s])
          PROVE  r = s
      <4>1. CASE rows'[r] = attempts[h] /\ rows'[s] = attempts[h]
        BY <2>1, <4>1 DEF Same
      <4>2. CASE rows'[r] = attempts[h] /\ rows'[s] # attempts[h]
        BY <2>2, <3>1, <4>2
      <4>3. CASE rows'[r] # attempts[h] /\ rows'[s] = attempts[h]
        BY <2>2, <3>1, <4>3
      <4>4. CASE rows'[r] # attempts[h] /\ rows'[s] # attempts[h]
        BY <1>2, <2>1, <3>1, <4>4 DEF ApartFits
      <4> QED BY <4>1, <4>2, <4>3, <4>4
    <3> QED BY <1>3, <1>4, <3>1 DEF ApartFits, IsLive, Exclusive
  <2>4. CloseFits'
    <3>1. CoreFits(saved)'
      BY <1>1, <1>2, <2>1 DEF CloseFits, CoreFits, EndsBadly, Shut, Outer, BranchesDone
    <3>2. \A i \in Positions \cap Pending :
            /\ Goes(attempts[i], saved)
            /\ (IsLive(attempts[i]) /\ EndsBadly(saved) => attempts[i].node = "FINALIZE")
      BY <1>2 DEF CloseFits
    <3>3. \A r \in 1..Len(rows') :
            /\ Goes(rows'[r], saved)
            /\ IsLive(rows'[r]) /\ EndsBadly(saved) => rows'[r].node \in {"FINALIZE", "CHECKPOINT"}
      BY <1>2, <2>1, <3>2 DEF CloseFits
    <3>4. \A i \in Positions' \cap Pending' :
            /\ Goes(attempts[i], saved)'
            /\ (IsLive(attempts[i]) /\ EndsBadly(saved) => attempts[i].node = "FINALIZE")'
      BY <1>1, <2>1, <3>2 DEF Goes, EndsBadly, Outer, BranchesDone, IsLive
    <3>5. \A r \in 1..Len(rows') :
            /\ Goes(rows[r], saved)'
            /\ (IsLive(rows[r]) /\ EndsBadly(saved) => rows[r].node \in {"FINALIZE", "CHECKPOINT"})'
      BY <1>1, <2>1, <3>3 DEF Goes, EndsBadly, Outer, BranchesDone, IsLive
    <3> QED BY <1>5, <3>1, <3>4, <3>5 DEF CloseFits
  <2>5. FinalFits'
    <3>1. ASSUME Final(saved), NEW r \in 1..Len(rows') PROVE ~IsLive(rows'[r])
      <4>1. Live = {}
        BY <1>2, <3>1 DEF FinalFits
      <4>2. ~IsLive(attempts[h])
        BY <1>2, <2>1, <4>1
      <4> QED BY <1>2, <2>1, <3>1, <4>2 DEF FinalFits
    <3>2. (Final(saved)' <=> Final(saved)) /\ (Final(core)' <=> Final(core))
      BY <1>1, <2>1 DEF Final
    <3> QED BY <1>2, <1>6, <3>1, <3>2 DEF FinalFits, IsLive
  <2>6. PaidFits'
    BY <1>1, <1>2, <2>1 DEF PaidFits
  <2> QED BY <2>3, <2>4, <2>5, <2>6 DEF AttemptInv
<1> QED BY <1>7, <1>8

-----------------------------------------------------------------------------
(***************************************************************************)
(* Starting beside other attempts                                          *)
(* What is live when an attempt starts, from the callers' order (Alone) and *)
(* from what the graph lets be ready.                                      *)
(***************************************************************************)
\* Where a closing edge was selected, nothing but the terminal node may start.
LEMMA StartsOpen ==
    ASSUME GraphInv, AttemptInv, NEW n, NEW a, StartStep(n, a), EndsBadly(core)
    PROVE  n = "FINALIZE" /\ Live = {}
<1>1. Shut(core) /\ n \in Nodes(Q) /\ core.state[n] \in Startable /\ Between = {} /\ Pending = {}
  BY DEF StartStep, AttemptInv, CloseFits, CoreFits
<1>2. n = "FINALIZE"
  BY <1>1 DEF Shut, Startable, DoneStates
<1>3. \A i \in Live : attempts[i].node \in Instant
  BY DEF AttemptInv, CloseFits, Instant
<1> QED BY <1>1, <1>2, <1>3 DEF Between

\* The terminal node starts alone.
LEMMA FinalizeAlone ==
    ASSUME GraphInv, AttemptInv, NEW a, StartStep("FINALIZE", a)
    PROVE  Live = {}
<1> SUFFICES ASSUME NEW j \in Live PROVE FALSE
  OBVIOUS
<1> DEFINE m == attempts[j].node
<1>1. /\ Ready(core, "FINALIZE") /\ Alone("FINALIZE") /\ Between = {} /\ Pending = {}
      /\ Works(Q) /\ core \in CoreType(Q) /\ "FINALIZE" \in Nodes(Q)
  BY DEF StartStep, GraphInv, TypeFits
<1>2. PICK e \in Into("FINALIZE") : e \in core.selected
  BY <1>1 DEF Ready
<1>3. /\ ~EndsBadly(core) /\ CoreFits(core) /\ Goes(attempts[j], core) /\ Behind(attempts[j], core)
      /\ j \in Positions /\ IsLive(attempts[j]) /\ WaitsWell(attempts[j])
  BY StartsOpen DEF AttemptInv, CloseFits, GraphInv, JoinFits, DiskFits, Live, Positions, IsLive
<1>4. e.to = "FINALIZE" /\ e.type = "ON_SUCCESS" /\ WellMade(Q, e)
  BY <1>1, <1>2, <1>3, GraphFacts, EdgesMade DEF EndsBadly
<1>5. ~HasCheckpoint(Q) /\ e.from \in Judged(Q) /\ e.max = 0
  BY <1>4, LimitFacts DEF WellMade, Sound
<1>6. ~HasJudge(Q) /\ ~HasFrontierB(Q) /\ Outer(e.from)
  BY <1>5, AnsweredFacts, BranchNames DEF HasJudge, HasCheckpoint, HasFrontierB, Outer, Ahead, Branches
<1>7. m \in Nodes(Q) /\ attempts[j].state = "RUNNING"
  <2>1. attempts[j] \in Attempt
    BY <1>3 DEF GraphInv, TypeFits, Positions
  <2> QED BY <1>1, <2>1 DEF Attempt, Alone
<1>8. m \notin Instant \cup Executors(Q)
  <2>1. m \notin Instant
    BY <1>1 DEF Between
  <2>2. m \in LiveNodes
    BY DEF LiveNodes
  <2> QED BY <1>1, <2>1, <2>2, GraphFacts DEF Alone
<1>9. m \notin {"TOOL", "HUMAN_APPROVAL"}
  BY <1>3, <1>7 DEF WaitsWell
<1>10. m \in Branches \ {"EXECUTOR_EVIDENCE"} \/ (m = "REVIEWER" /\ HasReviewer(Q))
  <2> HIDE DEF m
  <2> QED BY <1>6, <1>7, <1>8, <1>9, NodeFacts DEF Nodes, ProviderNodes, Instant, Branches
<1>11. m \notin Branches \ {"EXECUTOR_EVIDENCE"}
  BY <1>2, <1>3, <1>6 DEF CoreFits, BranchesDone, Behind
<1>12. m # "REVIEWER" \/ ~HasReviewer(Q)
  <2>0. SUFFICES ASSUME m = "REVIEWER", HasReviewer(Q) PROVE FALSE
    OBVIOUS
  <2>1. e.from = "REVIEWER"
    BY <1>5, <1>6, <2>0 DEF Judged, Reviewed
  <2>2. e = Passed
    BY <1>4, <1>5, <2>1 DEF WellMade, Passed, Edge
  <2> QED BY <1>2, <1>3, <2>0, <2>2 DEF CoreFits, Goes
<1> QED BY <1>10, <1>11, <1>12

\* A node starts only while no attempt of it is under way.
LEMMA StartsFree ==
    ASSUME GraphInv, AttemptInv, NEW n, NEW a, StartStep(n, a), NEW i \in Live
    PROVE  ~Exclusive(attempts[i], a) /\ ~Exclusive(a, attempts[i])
<1>1. /\ Alone(n) /\ Between = {} /\ Pending = {} /\ a.node = n /\ core.state[n] \in Startable
      /\ n \in Nodes(Q) /\ Works(Q)
  BY DEF StartStep, GraphInv, TypeFits
<1>2. /\ attempts[i].node \notin Instant /\ attempts[i].node \in LiveNodes
      /\ attempts[i].state = "RUNNING" /\ IsLive(attempts[i]) /\ WaitsWell(attempts[i])
      /\ attempts[i].node \in Branches => core.state[attempts[i].node] \in LiveStates
  BY <1>1 DEF Between, LiveNodes, Alone, GraphInv, DiskFits, JoinFits, Live, Positions, IsLive
<1>3. n # "FINALIZE" /\ attempts[i].node # "FINALIZE"
  BY <1>2, FinalizeAlone DEF Instant
<1>4. ASSUME attempts[i].node = n PROVE FALSE
  <2>1. n \notin Executors(Q) \cup Judges
    BY <1>1, <1>2, <1>4, GraphFacts DEF Alone
  <2>2. n \notin {"TOOL", "HUMAN_APPROVAL"}
    BY <1>2, <1>4 DEF WaitsWell
  <2>3. n \notin Branches
    BY <1>1, <1>2, <1>4 DEF Startable, LiveStates
  <2> QED BY <1>1, <1>2, <1>4, <2>1, <2>2, <2>3 DEF Nodes, ProviderNodes, Judges, Instant, Branches
<1> QED BY <1>1, <1>3, <1>4 DEF Exclusive

\* What comes after the parallel group starts only once the group is done.
LEMMA StartsAfter ==
    ASSUME GraphInv, AttemptInv, NEW n, NEW a, StartStep(n, a), Outer(n)
    PROVE  BranchesDone(core)
<1>1. /\ Ready(core, n) /\ n \in Nodes(Q) /\ Works(Q) /\ core \in CoreType(Q) /\ CoreFits(core)
      /\ JoinedUp(core)
  BY DEF StartStep, GraphInv, TypeFits, AttemptInv, CloseFits, JoinFits
<1> SUFFICES ASSUME NEW m \in Branches PROVE core.state[m] = "SUCCEEDED" \/ BranchesDone(core)
  BY DEF BranchesDone
<1>2. CASE n = "JOIN"
  <2> DEFINE e == Edge(m, "ON_SUCCESS", "JOIN")
  <2>1. e \in Edges(Q)
    BY DEF Edges, LeadIn, EdgesTo, Branches
  <2>2. e.to = "JOIN" /\ e.type = "ON_SUCCESS"
    BY DEF Edge
  <2>3. e \in Into(n)
    BY <1>1, <1>2, <2>1, <2>2, GraphFacts
  <2> HIDE DEF e
  <2>4. e \in core.selected
    BY <1>1, <1>2, <2>2, <2>3 DEF Ready
  <2> QED BY <1>1, <2>4 DEF JoinedUp, e
<1>3. CASE n # "JOIN"
  <2>1. PICK e \in Into(n) : e \in core.selected
    BY <1>1, <1>3 DEF Ready, Outer
  <2>2. WellMade(Q, e) /\ e.to = n
    BY <1>1, <2>1, GraphFacts, EdgesMade
  <2>3. Outer(e.from)
    BY <1>3, <2>2 DEF WellMade, Sound, Outer, Branches
  <2> QED BY <1>1, <2>1, <2>3 DEF CoreFits
<1> QED BY <1>2, <1>3

-----------------------------------------------------------------------------
(***************************************************************************)
(* The second theorem                                                      *)
(***************************************************************************)
\* start_attempt
LEMMA StartKeepsAttempts ==
    ASSUME GraphInv, AttemptInv, NEW n \in DOMAIN core.state, Start(n)
    PROVE  AttemptInv'
<1> DEFINE new == Len(attempts) + 1
<1>1. PICK a : StartStep(n, a)
  BY StartFacts DEF GraphInv
<1> HIDE DEF new
<1>2. /\ Pending = {} /\ ~Final(core) /\ n \in Nodes(Q) /\ core.state[n] \in Startable
      /\ core \in CoreType(Q) /\ core' \in CoreType(Q) /\ Q \in Compiled
      /\ core'.selected = core.selected /\ core'.status = core.status
           /\ core'.traversed = core.traversed
      /\ core'.state[n] = a.state /\ core'.count[n] = core.count[n] + 1
      /\ \A m \in Nodes(Q) : m # n => core'.state[m] = core.state[m] /\ core'.count[m] = core.count[m]
      /\ Q' = Q /\ Branches' = Branches /\ Branches \subseteq Nodes(Q)
      /\ saved' = core /\ saved = core /\ rows' = rows
  BY <1>1, NodeFacts DEF StartStep, GraphInv, TypeFits, Works, Branches
<1>3. /\ a.node = n /\ IsLive(a) /\ a.state \in LiveStates /\ a.state \notin DoneStates \cup Startable
      /\ core.state[n] \notin DoneStates /\ core.state[n] # "SUCCEEDED"
  BY <1>1 DEF StartStep, IsLive, LiveStates, DoneStates, Startable
<1>4. /\ attempts'[new] = a /\ \A i \in Positions : attempts'[i] = attempts[i]
      /\ Positions' = Positions \cup {new} /\ new \notin Positions
      /\ Pending' = {new, Snapshot} /\ Positions' \cap Pending' = {new}
  BY <1>1 DEF StartStep, new
<1>5. Live' = Live \cup {new} /\ Live \subseteq Positions
  <2>1. /\ \A i : i \in Live <=> i \in Positions /\ IsLive(attempts[i])
        /\ \A i : i \in Live' <=> i \in Positions' /\ IsLive(attempts'[i])
    BY DEF Live, Positions, IsLive
  <2> QED BY <1>3, <1>4, <2>1
<1>6. ApartFits /\ CloseFits /\ FinalFits /\ PaidFits
  BY DEF AttemptInv
<1>7. BranchesDone(core) => BranchesDone(core')
  BY <1>2, <1>3 DEF BranchesDone
<1>8. Outer(n) => BranchesDone(core)
  BY <1>1, StartsAfter
<1>9. EndsBadly(core) => n = "FINALIZE" /\ Live = {}
  BY <1>1, StartsOpen
<1>10. ApartFits'
  <2>1. ASSUME NEW i \in Live', NEW j \in Live', Exclusive(attempts'[i], attempts'[j]) PROVE i = j
    <3>1. CASE i \in Live /\ j \in Live
      BY <1>4, <1>5, <1>6, <2>1, <3>1 DEF ApartFits
    <3>2. CASE i \in Live /\ j = new
      BY <1>1, <1>4, <1>5, <2>1, <3>2, StartsFree
    <3>3. CASE i = new /\ j \in Live
      BY <1>1, <1>4, <1>5, <2>1, <3>3, StartsFree
    <3> QED BY <1>5, <3>1, <3>2, <3>3
  <2>2. \A i \in Live' \cap Pending' : Pending' \subseteq {i, Snapshot}
    BY <1>4, <1>5
  <2> QED BY <1>2, <1>6, <2>1, <2>2 DEF ApartFits, IsLive, Exclusive
<1>11. CloseFits'
  <2>1. CoreFits(core')
    <3>1. EndsBadly(core') => Shut(core')
      <4> HAVE EndsBadly(core')
      <4>1. EndsBadly(core)
        BY <1>2 DEF EndsBadly
      <4> QED BY <1>2, <1>6, <1>9, <4>1 DEF CloseFits, CoreFits, Shut
    <3>2. (\E e \in core'.selected : Outer(e.from)) => BranchesDone(core')
      BY <1>2, <1>6, <1>7 DEF CloseFits, CoreFits
    <3>3. Passed \in core'.selected => core'.state["REVIEWER"] \in DoneStates
      <4> HAVE Passed \in core'.selected
      <4>1. Passed \in core.selected /\ Passed.from = "REVIEWER"
        BY <1>2 DEF Passed, Edge
      <4>2. "REVIEWER" \in Nodes(Q)
        BY <1>2, <4>1, EdgesMade DEF CoreType, WellMade, Sound
      <4> QED BY <1>2, <1>3, <1>6, <4>1, <4>2 DEF CloseFits, CoreFits
    <3> QED BY <3>1, <3>2, <3>3 DEF CoreFits
  <2>2. /\ CoreFits(core)' <=> CoreFits(core')
        /\ CoreFits(saved)' <=> CoreFits(core)
    BY <1>2 DEF CoreFits, EndsBadly, Shut, Outer, BranchesDone
  <2>3. Goes(a, core) /\ Goes(a, core')
    BY <1>2, <1>3, <1>7, <1>8 DEF Goes
  <2>4. ASSUME NEW i \in Positions PROVE Goes(attempts[i], core')
    <3>1. Goes(attempts[i], core) /\ attempts[i].node \in Nodes(Q)
      <4>1. attempts[i] \in Attempt
        BY DEF GraphInv, TypeFits, Positions
      <4> QED BY <1>6, <4>1 DEF CloseFits, Attempt
    <3> QED BY <1>2, <1>3, <1>7, <3>1 DEF Goes
  <2>5. \A i \in Positions' : Goes(attempts[i], core)'
    <3>1. \A i \in Positions' : Goes(attempts'[i], core')
      BY <1>4, <2>3, <2>4
    <3> QED BY <1>2, <3>1 DEF Goes, Outer, BranchesDone, IsLive
  <2>6. \A i \in Positions' \cap Pending' :
          /\ Goes(attempts[i], saved)'
          /\ (IsLive(attempts[i]) /\ EndsBadly(saved) => attempts[i].node = "FINALIZE")'
    <3>1. Goes(attempts'[new], saved') /\ (EndsBadly(saved') => attempts'[new].node = "FINALIZE")
      BY <1>2, <1>3, <1>4, <1>9, <2>3
    <3> QED BY <1>2, <1>4, <3>1 DEF Goes, Outer, BranchesDone, IsLive, EndsBadly
  <2>7. \A r \in 1..Len(rows') :
          /\ Goes(rows[r], saved)'
          /\ (IsLive(rows[r]) /\ EndsBadly(saved) => rows[r].node \in {"FINALIZE", "CHECKPOINT"})'
    BY <1>2, <1>6 DEF CloseFits, Goes, Outer, IsLive, BranchesDone, EndsBadly
  <2>8. EndsBadly(core)' => \A i \in Live' : attempts'[i].node = "FINALIZE"
    <3> HAVE EndsBadly(core)'
    <3>1. EndsBadly(core)
      BY <1>2 DEF EndsBadly
    <3> QED BY <1>3, <1>4, <1>5, <1>9, <3>1
  <2> QED BY <1>2, <1>6, <2>1, <2>2, <2>5, <2>6, <2>7, <2>8 DEF CloseFits
<1>12. FinalFits'
  BY <1>2 DEF FinalFits, Final
<1>13. PaidFits'
  <2> SUFFICES ASSUME Branches = {} PROVE PaidFor(core') /\ PaidFor(saved')
    BY <1>2 DEF PaidFits, PaidFor, Back
  <2>1. PaidFor(core) /\ "EXECUTOR_PRIMARY" \in Nodes(Q)
    BY <1>2, <1>6, NodeFacts DEF PaidFits
  <2>2. PaidFor(core')
    <3> DEFINE back == {e \in Repeats(Q) : e.to = "EXECUTOR_PRIMARY"}
    <3>1. /\ Back(core) = back /\ Back(core') = back
          /\ \A e \in back : core.traversed[e] \in Nat
          /\ core.count["EXECUTOR_PRIMARY"] \in Nat
      BY <1>2, <2>1, LimitFacts DEF CoreType, Back
    <3>2. IsFiniteSet(back)
      BY BackFinite
    <3>3. \A e \in back : core.traversed[e] <= core.traversed[e]
      BY <3>1
    <3> HIDE DEF back
    <3>4. Total(core.traversed, back) \in Nat
      BY <3>1, <3>2, <3>3, TotalGrows
    <3>5. CASE n = "EXECUTOR_PRIMARY"
      BY <1>2, <1>3, <2>1, <3>1, <3>4, <3>5 DEF PaidFor
    <3>6. CASE n # "EXECUTOR_PRIMARY"
      BY <1>2, <2>1, <3>1, <3>6 DEF PaidFor
    <3> QED BY <3>5, <3>6
  <2>3. PaidFor(saved')
    BY <1>2, <2>1
  <2> QED BY <2>2, <2>3
<1> QED BY <1>10, <1>11, <1>12, <1>13 DEF AttemptInv

\* Every step.
LEMMA StepKeepsAttempts ==
    ASSUME GraphInv, AttemptInv, [Next]_vars
    PROVE  AttemptInv'
<1>1. CASE \E n \in DOMAIN core.state : Start(n)
  BY <1>1, StartKeepsAttempts
<1>2. CASE \E i \in Live, outcome \in Outcomes, fresh \in BOOLEAN,
              status \in Statuses \cup {"none"} : Finish(i, outcome, fresh, status)
  BY <1>2, FinishEnds, EndKeepsAttempts
<1>3. CASE \E i \in Live, retryable \in BOOLEAN : Fail(i, retryable)
  BY <1>3, FailIsEnd, EndKeepsAttempts
<1>4. CASE UNCHANGED vars
  <2>1. UNCHANGED <<graph, core, attempts, loaded, writes, rows, saved, loads>>
    BY <1>4 DEF vars
  <2>2. Q' = Q /\ Branches' = Branches /\ Positions' = Positions /\ Pending' = Pending /\ Live' = Live
    BY <2>1 DEF Q, Branches, Positions, Pending, Live
  <2>3. ApartFits'
    BY <2>1, <2>2 DEF AttemptInv, ApartFits, Exclusive, IsLive
  <2>4. CloseFits'
    BY <2>1, <2>2 DEF AttemptInv, CloseFits, CoreFits, Goes, EndsBadly, Shut, Outer, BranchesDone,
         IsLive
  <2>5. FinalFits' /\ PaidFits'
    BY <2>1, <2>2 DEF AttemptInv, FinalFits, Final, IsLive, PaidFits, PaidFor, Back
  <2> QED BY <2>3, <2>4, <2>5 DEF AttemptInv
<1> QED BY <1>1, <1>2, <1>3, <1>4, CancelKeepsAttempts, RerunKeepsAttempts, WriteKeepsAttempts,
           LeaveKeepsAttempts, LoadKeepsAttempts, SettleKeepsAttempts DEF Next

\* The two invariants give what is claimed.
LEMMA AttemptsSuffice ==
    ASSUME GraphInv, AttemptInv
    PROVE  AttemptsAreSound
<1>1. TypeFits /\ Works(Q) /\ Q \in Compiled /\ DOMAIN graph.from = Nodes(Q) /\ Cores = CoreType(Q)
  BY GraphFacts, CoresTyped DEF GraphInv, TypeFits, Works
<1>2. TypeOK
  <2>1. \A i \in 1..Len(attempts) : IsAttempt(attempts[i])
    <3> TAKE i \in 1..Len(attempts)
    <3>1. attempts[i] \in Attempt
      BY <1>1 DEF TypeFits
    <3> QED BY <1>1, <3>1 DEF Attempt, IsAttempt, Q
  <2>2. \A i \in 1..Len(rows) : IsAttempt(rows[i])
    <3> TAKE i \in 1..Len(rows)
    <3>1. rows[i] \in Attempt
      BY <1>1 DEF TypeFits
    <3> QED BY <1>1, <3>1 DEF Attempt, IsAttempt, Q
  <2>3. \A i \in 1..Len(writes) : writes[i] \in {Snapshot, Settling} \cup 1..Len(attempts)
    <3> TAKE i \in 1..Len(writes)
    <3>1. writes[i] \in Pending
      BY <1>1 DEF Pending, Range, TypeFits
    <3> QED BY <1>1, <3>1 DEF TypeFits, Positions
  <2> QED BY <1>1, <2>1, <2>2, <2>3 DEF TypeOK, TypeFits, Q
<1>3. OneLiveAttempt
  BY DEF AttemptInv, ApartFits, Exclusive, OneLiveAttempt
<1>4. FinalIsQuiet
  BY DEF AttemptInv, FinalFits, FinalIsQuiet
<1>5. AttemptsArePaidFor
  <2> SUFFICES ASSUME Parallel(graph.input) = {}
               PROVE  core.count["EXECUTOR_PRIMARY"] <= 1 + Total(core.traversed, Back(core))
    BY DEF AttemptsArePaidFor, Total, Back
  <2>1. PaidFor(core)
    BY DEF AttemptInv, PaidFits, Branches, Q
  <2>2. Back(core) = {e \in Repeats(Q) : e.to = "EXECUTOR_PRIMARY"}
    BY <1>1 DEF TypeFits, CoreType, Back
  <2>3. \A e \in Back(core) : core.traversed[e] \in Nat /\ core.traversed[e] <= core.traversed[e]
    <3>1. core.traversed \in [Repeats(Q) -> 0..RetryLimit]
      BY <1>1 DEF TypeFits, CoreType
    <3> QED BY <2>2, <3>1, LimitFacts
  <2>4. Total(core.traversed, Back(core)) \in Nat
    BY <2>2, <2>3, BackFinite, TotalGrows
  <2>5. core.count["EXECUTOR_PRIMARY"] \in Nat
    BY <1>1, NodeFacts, LimitFacts DEF TypeFits, CoreType
  <2> QED BY <2>1, <2>4, <2>5 DEF PaidFor
<1> QED BY <1>2, <1>3, <1>4, <1>5 DEF AttemptsAreSound

\* Attempts follow each other (start_attempt, finish_attempt, fail_attempt, resume): the
\* types hold, a node has at most one attempt under way, none is once the terminal
\* node has finished, and every attempt of the Executor but the first was paid for by
\* a traversal of a bounded edge back to it, whatever is retried, repaired, cancelled
\* or lost in a restart between two writes.
THEOREM AttemptsFollowEachOther == Spec => []AttemptsAreSound
<1>1. Init => GraphInv /\ AttemptInv
  BY InitHolds, InitHasAttempts
<1>2. GraphInv /\ AttemptInv /\ [Next]_vars => (GraphInv /\ AttemptInv)'
  BY StepKeeps, StepKeepsAttempts
<1>3. GraphInv /\ AttemptInv => AttemptsAreSound
  BY AttemptsSuffice
<1> QED BY <1>1, <1>2, <1>3, PTL DEF Spec

-----------------------------------------------------------------------------
(***************************************************************************)
(* The way to the end                                                      *)
(* Nothing that is done is a dead end: the invariant says which selected edges *)
(* lead on, and what may have been skipped.                                *)
(***************************************************************************)
\* What a core shows of the way to its terminal node, as long as it does not end
\* badly: every node that is done leads on, nothing was cancelled, what was
\* skipped is behind, and the branches were all opened at once.
OnTheWay(c) ==
    /\ \A n \in Nodes(Q) \ {"FINALIZE"} :
          c.state[n] \in DoneStates => LeadsFrom(c.state, c.selected, n)
    /\ \A n \in Nodes(Q) : c.state[n] # "CANCELLED"
    /\ \A n \in Nodes(Q) : c.state[n] = "SKIPPED" =>
          \/ n = "EXECUTOR_FALLBACK"
          \/ n = "EXECUTOR_PRIMARY" /\ "TOOL" \in Nodes(Q) /\ c.state["TOOL"] \in DoneStates
    /\ c.state["CLASSIFY"] \in DoneStates =>
          \A m \in Branches : Edge("CLASSIFY", "ON_SUCCESS", m) \in c.selected

\* The terminal node is neither given up nor done without an end of the graph, and
\* a graph that does not end badly is on the way to it.
Leads(c) ==
    /\ c.state["FINALIZE"] \notin {"CANCELLED", "SKIPPED"}
    /\ c.state["FINALIZE"] \in DoneStates => Final(c) \/ c.state["FINALIZE"] = "FAILED"
    /\ ~EndsBadly(c) => OnTheWay(c)

\* So it is in memory and in the checkpoint.
LeadFits == Leads(core) /\ Leads(saved)

\* The fallback is reached from the Executor alone.
LEMMA ToFallback ==
    ASSUME NEW q, NEW e \in Edges(q), e.to = "EXECUTOR_FALLBACK", Rank(e.from) < Rank(e.to)
    PROVE  e.from = "EXECUTOR_PRIMARY"
<1>1. WellMade(q, e) /\ Tied(e)
  BY EdgesMade, EdgesTied
<1>2. e.from # e.to
  BY RankFacts
<1> QED BY <1>1, <1>2 DEF WellMade, Sound, Tied

\* The core an attempt leaves when it ends still leads on.
LEMMA EndLeadsOn ==
    ASSUME GraphInv, AttemptInv, Leads(core),
           NEW i \in Live, NEW chosen, NEW c, NEW state, NEW end, NEW w,
           EndStep(i, chosen, c, state, end, w)
    PROVE  Leads(c)
<1> DEFINE n == attempts[i].node
<1>1. /\ core \in CoreType(Q) /\ c \in CoreType(Q) /\ n \in Nodes(Q) /\ Works(Q)
      /\ i \in Positions /\ IsLive(attempts[i]) /\ Goes(attempts[i], core)
  <2>1. i \in Positions /\ IsLive(attempts[i]) /\ attempts[i] \in Attempt
    BY DEF Live, Positions, IsLive, GraphInv, TypeFits
  <2> QED BY <2>1 DEF AttemptInv, CloseFits, Attempt, GraphInv, TypeFits, EndStep
<1>2. /\ Carries(Q, core, c.state, c.selected, n, chosen) /\ Effects(Q, core, c, n, chosen)
      /\ c.status # core.status => n = "FINALIZE"
      /\ n = "FINALIZE" => Final(c) \/ c.state[n] = "FAILED"
      /\ n = "CHECKPOINT" /\ Settling \in Pending => Closing(chosen)
      /\ \A e \in chosen : e.from = n
  BY <1>1, GraphFacts DEF EndStep
<1> HIDE DEF n
<1>3. c.state["FINALIZE"] \notin {"CANCELLED", "SKIPPED"}
  BY <1>2 DEF Carries, Leads
<1>4. c.state["FINALIZE"] \in DoneStates => Final(c) \/ c.state["FINALIZE"] = "FAILED"
  BY <1>2 DEF Carries, Leads, DoneStates, Final
<1>5. ASSUME ~EndsBadly(c) PROVE OnTheWay(c)
  <2>1. ~Closing(chosen)
    <3> SUFFICES ASSUME Closing(chosen) PROVE FALSE
      OBVIOUS
    <3>1. chosen \subseteq c.selected
      BY <1>2 DEF Carries
    <3> QED BY <1>5, <3>1 DEF Closing, EndsBadly
  <2>2. CASE n = "FINALIZE"
    <3>1. /\ c.selected = core.selected /\ c.state[n] \in {"SUCCEEDED", "FAILED"}
          /\ \A m \in Nodes(Q) \ {"FINALIZE"} : c.state[m] = core.state[m]
      BY <1>2, <2>2 DEF Carries, Effects
    <3>2. OnTheWay(core)
      BY <1>5, <3>1 DEF Leads, EndsBadly
    <3>3. \A m \in Nodes(Q) \ {"FINALIZE"} :
             c.state[m] \in DoneStates => LeadsFrom(c.state, c.selected, m)
      <4> SUFFICES ASSUME NEW m \in Nodes(Q) \ {"FINALIZE"}, core.state[m] \in DoneStates
                   PROVE  LeadsFrom(c.state, c.selected, m)
        BY <3>1
      <4>1. PICK e \in core.selected : /\ e.from = m /\ Rank(m) < Rank(e.to)
                                       /\ e.to = "EXECUTOR_FALLBACK" => core.state[e.to] # "SKIPPED"
        BY <3>2 DEF OnTheWay, LeadsFrom
      <4>2. e.to \in Nodes(Q)
        BY <1>1, EdgesMade DEF CoreType, WellMade, Sound
      <4>3. e.to = "EXECUTOR_FALLBACK" => c.state[e.to] # "SKIPPED"
        BY <3>1, <4>1, <4>2
      <4> QED BY <3>1, <4>1, <4>3 DEF LeadsFrom
    <3>4. "CLASSIFY" \in Nodes(Q)
      BY NodeFacts
    <3> QED BY <2>2, <3>1, <3>2, <3>3, <3>4 DEF OnTheWay
  <2>3. CASE n # "FINALIZE"
    <3>1. ~EndsBadly(core)
      <4> SUFFICES ASSUME EndsBadly(core) PROVE FALSE
        OBVIOUS
      <4>1. n = "CHECKPOINT" /\ Settling \in Pending
        BY <2>3 DEF AttemptInv, CloseFits, n
      <4> QED BY <1>2, <2>1, <4>1
    <3>2. OnTheWay(core)
      BY <3>1 DEF Leads
    <3>3. /\ \A m \in Nodes(Q) \ {n} : c.state[m] \in DoneStates =>
               /\ c.state[m] = core.state[m]
               /\ \A e \in core.selected : e.from = m => e \in c.selected
          /\ \A m \in Nodes(Q) : c.state[m] = "CANCELLED" => core.state[m] = "CANCELLED"
          /\ \A m \in Nodes(Q) : c.state[m] = "SKIPPED" =>
               \/ core.state[m] = "SKIPPED"
               \/ m = "EXECUTOR_FALLBACK" /\ n = "EXECUTOR_PRIMARY"
               \/ m = "EXECUTOR_PRIMARY" /\ n = "TOOL" /\ c.state[n] = "SUCCEEDED"
          /\ "TOOL" \in Nodes(Q) \ {n} => c.state["TOOL"] = core.state["TOOL"]
          /\ c.state[n] \in DoneStates => LeadsFrom(c.state, c.selected, n)
          /\ n = "CLASSIFY" /\ c.state[n] \in DoneStates =>
               \A m \in Branches : Edge(n, "ON_SUCCESS", m) \in c.selected
      BY <1>2, <2>1, <2>3 DEF Carries, Effects, Branches
    <3>4. ASSUME NEW m \in Nodes(Q) \ {"FINALIZE"}, c.state[m] \in DoneStates
          PROVE  LeadsFrom(c.state, c.selected, m)
      <4> SUFFICES ASSUME m # n PROVE LeadsFrom(c.state, c.selected, m)
        BY <3>3, <3>4
      <4>1. PICK e \in core.selected : /\ e.from = m /\ Rank(m) < Rank(e.to)
                                       /\ e.to = "EXECUTOR_FALLBACK" => core.state[e.to] # "SKIPPED"
        BY <3>2, <3>3, <3>4 DEF OnTheWay, LeadsFrom
      <4>2. e \in Edges(Q) /\ e.to \in Nodes(Q) /\ e \in c.selected
        BY <1>1, <3>3, <3>4, <4>1, EdgesMade DEF CoreType, WellMade, Sound
      <4>3. e.to = "EXECUTOR_FALLBACK" => c.state[e.to] # "SKIPPED"
        <5> HAVE e.to = "EXECUTOR_FALLBACK"
        <5>1. m = "EXECUTOR_PRIMARY"
          BY <4>1, <4>2, ToFallback
        <5> QED BY <3>3, <4>1, <4>2, <5>1
      <4> QED BY <4>1, <4>2, <4>3 DEF LeadsFrom
    <3>5. ASSUME NEW m \in Nodes(Q), c.state[m] = "SKIPPED"
          PROVE  \/ m = "EXECUTOR_FALLBACK"
                 \/ m = "EXECUTOR_PRIMARY" /\ "TOOL" \in Nodes(Q) /\ c.state["TOOL"] \in DoneStates
      <4>1. CASE core.state[m] = "SKIPPED"
        <5>1. \/ m = "EXECUTOR_FALLBACK"
              \/ m = "EXECUTOR_PRIMARY" /\ "TOOL" \in Nodes(Q) /\ core.state["TOOL"] \in DoneStates
          BY <3>2, <4>1 DEF OnTheWay
        <5>2. n = "TOOL" => core.state["TOOL"] \notin DoneStates
          BY <1>1 DEF Goes, n
        <5> QED BY <3>3, <5>1, <5>2
      <4>2. CASE m = "EXECUTOR_PRIMARY" /\ n = "TOOL" /\ c.state[n] = "SUCCEEDED"
        BY <1>1, <4>2 DEF DoneStates
      <4> QED BY <3>3, <3>5, <4>1, <4>2
    <3>6. c.state["CLASSIFY"] \in DoneStates =>
             \A m \in Branches : Edge("CLASSIFY", "ON_SUCCESS", m) \in c.selected
      <4>1. "CLASSIFY" \in Nodes(Q) /\ \A m : Edge("CLASSIFY", "ON_SUCCESS", m).from = "CLASSIFY"
        BY NodeFacts DEF Edge
      <4> QED BY <3>2, <3>3, <4>1 DEF OnTheWay
    <3>7. \A m \in Nodes(Q) : c.state[m] # "CANCELLED"
      BY <3>2, <3>3 DEF OnTheWay
    <3> QED BY <3>4, <3>5, <3>6, <3>7 DEF OnTheWay
  <2> QED BY <2>2, <2>3
<1> QED BY <1>3, <1>4, <1>5 DEF Leads

\* A core that leads on does so in the next state.
LEMMA LeadsStay ==
    ASSUME graph' = graph, NEW c, Leads(c)
    PROVE  (core' = c => Leads(core)') /\ (saved' = c => Leads(saved)')
<1>1. Q' = Q /\ Branches' = Branches
  BY DEF Q, Branches
<1> QED BY <1>1 DEF Leads, OnTheWay, EndsBadly, Final

\* cancel opens the terminal node by an edge that ends the graph badly.
LEMMA CancelKeepsLeads ==
    ASSUME GraphInv, LeadFits, Cancel
    PROVE  LeadFits'
<1>1. PICK from : CancelStep(from)
  BY CancelIsCall
<1> DEFINE e == Edge(from, "ON_FAILURE", "FINALIZE")
<1>2. graph' = graph /\ saved' = saved /\ e \in core'.selected /\ "FINALIZE" \in Nodes(Q)
  BY <1>1, NodeFacts DEF CancelStep, CallStep
<1>3. EndsBadly(core')
  <2>1. e.to = "FINALIZE" /\ e.type # "ON_SUCCESS"
    BY DEF Edge
  <2> QED BY <1>2, <2>1 DEF EndsBadly
<1>4. core'.state["FINALIZE"] = "WAITING_DEPENDENCY"
  BY <1>1, <1>2 DEF CancelStep
<1>5. Leads(core')
  BY <1>3, <1>4 DEF Leads, DoneStates
<1> QED BY <1>2, <1>5, LeadsStay DEF LeadFits

\* partial_rerun closes nothing: what it leaves done keeps its edges.
LEMMA RerunKeepsLeads ==
    ASSUME GraphInv, LeadFits, PartialRerun
    PROVE  LeadFits'
<1> DEFINE below == Below("EXECUTOR_EVIDENCE")
<1>1. /\ graph' = graph /\ saved' = saved /\ ~Final(core) /\ core \in CoreType(Q) /\ Works(Q)
      /\ Into("FINALIZE") \cap core.selected = {} /\ "TOOL" \notin below
      /\ core'.selected \subseteq core.selected
      /\ \A e \in core.selected : e.from \notin below => e \in core'.selected
      /\ \A m \in Nodes(Q) \ below : core'.state[m] = core.state[m]
      /\ \A m \in Nodes(Q) : m \in below => core'.state[m] \in {"QUEUED", "WAITING_DEPENDENCY"}
  BY RerunIsCall DEF RerunStep, CallStep, GraphInv, TypeFits
<1> HIDE DEF below
<1>2. \A m \in Nodes(Q) : core'.state[m] \in DoneStates \cup {"CANCELLED", "SKIPPED"} =>
         m \notin below /\ core'.state[m] = core.state[m]
  BY <1>1 DEF DoneStates
<1>3. {"FINALIZE", "CLASSIFY"} \subseteq Nodes(Q)
  BY NodeFacts
<1>4. OnTheWay(core) /\ Leads(core)
  <2>1. ~EndsBadly(core)
    <3>1. \A e \in core.selected : e.to = "FINALIZE" => e \in Into("FINALIZE")
      BY <1>1, <1>3, GraphFacts DEF CoreType
    <3> QED BY <1>1, <3>1 DEF EndsBadly
  <2> QED BY <2>1 DEF LeadFits, Leads
<1>5. ASSUME NEW m \in Nodes(Q) \ {"FINALIZE"}, core'.state[m] \in DoneStates
      PROVE  LeadsFrom(core'.state, core'.selected, m)
  <2>1. PICK e \in core.selected : /\ e.from = m /\ Rank(m) < Rank(e.to)
                                   /\ e.to = "EXECUTOR_FALLBACK" => core.state[e.to] # "SKIPPED"
    BY <1>2, <1>4, <1>5 DEF OnTheWay, LeadsFrom
  <2>2. e \in core'.selected /\ e.to \in Nodes(Q)
    BY <1>1, <1>2, <1>5, <2>1, EdgesMade DEF CoreType, WellMade, Sound
  <2>3. e.to = "EXECUTOR_FALLBACK" => core'.state[e.to] # "SKIPPED"
    BY <1>2, <2>1, <2>2
  <2> QED BY <2>1, <2>2, <2>3 DEF LeadsFrom
<1>6. \A m \in Nodes(Q) : core'.state[m] # "CANCELLED"
  BY <1>2, <1>4 DEF OnTheWay
<1>7. \A m \in Nodes(Q) : core'.state[m] = "SKIPPED" =>
          \/ m = "EXECUTOR_FALLBACK"
          \/ m = "EXECUTOR_PRIMARY" /\ "TOOL" \in Nodes(Q) /\ core'.state["TOOL"] \in DoneStates
  BY <1>1, <1>2, <1>4 DEF OnTheWay
<1>8. core'.state["CLASSIFY"] \in DoneStates =>
          \A m \in Branches : Edge("CLASSIFY", "ON_SUCCESS", m) \in core'.selected
  <2>1. \A m : Edge("CLASSIFY", "ON_SUCCESS", m).from = "CLASSIFY"
    BY DEF Edge
  <2> QED BY <1>1, <1>2, <1>3, <1>4, <2>1 DEF OnTheWay
<1>9. OnTheWay(core')
  BY <1>5, <1>6, <1>7, <1>8 DEF OnTheWay
<1>10. Leads(core')
  <2>1. core'.state["FINALIZE"] \notin {"CANCELLED", "SKIPPED"}
    BY <1>2, <1>3, <1>4 DEF Leads
  <2>2. core'.state["FINALIZE"] \in DoneStates => core'.state["FINALIZE"] = "FAILED"
    BY <1>1, <1>2, <1>3, <1>4 DEF Leads
  <2> QED BY <1>9, <2>1, <2>2 DEF Leads
<1> QED BY <1>1, <1>10, LeadsStay DEF LeadFits

\* start_attempt
LEMMA StartKeepsLeads ==
    ASSUME GraphInv, LeadFits, NEW n \in DOMAIN core.state, Start(n)
    PROVE  LeadFits'
<1>1. PICK a : StartStep(n, a)
  BY StartFacts DEF GraphInv
<1>2. /\ graph' = graph /\ saved' = saved /\ ~Final(core) /\ core \in CoreType(Q) /\ n \in Nodes(Q)
      /\ core'.selected = core.selected /\ core.state[n] \notin DoneStates
      /\ core'.state[n] \notin DoneStates \cup {"CANCELLED", "SKIPPED"}
      /\ \A m \in Nodes(Q) : m # n => core'.state[m] = core.state[m]
      /\ {"FINALIZE", "CLASSIFY"} \subseteq Nodes(Q)
  BY <1>1, NodeFacts DEF StartStep, GraphInv, TypeFits, Startable, DoneStates, LiveStates
<1>3. \A m \in Nodes(Q) : core'.state[m] \in DoneStates \cup {"CANCELLED", "SKIPPED"} =>
         core'.state[m] = core.state[m]
  BY <1>2
<1>4. Leads(core')
  <2>1. core'.state["FINALIZE"] \notin {"CANCELLED", "SKIPPED"}
    BY <1>2, <1>3 DEF LeadFits, Leads
  <2>2. core'.state["FINALIZE"] \in DoneStates => core'.state["FINALIZE"] = "FAILED"
    BY <1>2, <1>3 DEF LeadFits, Leads
  <2>3. ASSUME ~EndsBadly(core') PROVE OnTheWay(core')
    <3>1. OnTheWay(core)
      BY <1>2, <2>3 DEF EndsBadly, LeadFits, Leads
    <3>2. ASSUME NEW m \in Nodes(Q) \ {"FINALIZE"}, core'.state[m] \in DoneStates
          PROVE  LeadsFrom(core'.state, core'.selected, m)
      <4>1. PICK e \in core.selected : /\ e.from = m /\ Rank(m) < Rank(e.to)
                                       /\ e.to = "EXECUTOR_FALLBACK" => core.state[e.to] # "SKIPPED"
        BY <1>3, <3>1, <3>2 DEF OnTheWay, LeadsFrom
      <4>2. e.to \in Nodes(Q)
        BY <1>2, EdgesMade DEF CoreType, WellMade, Sound
      <4> QED BY <1>2, <1>3, <4>1, <4>2 DEF LeadsFrom
    <3>3. /\ \A m \in Nodes(Q) : core'.state[m] # "CANCELLED"
          /\ \A m \in Nodes(Q) : core'.state[m] = "SKIPPED" =>
                \/ m = "EXECUTOR_FALLBACK"
                \/ m = "EXECUTOR_PRIMARY" /\ "TOOL" \in Nodes(Q) /\ core'.state["TOOL"] \in DoneStates
          /\ core'.state["CLASSIFY"] \in DoneStates =>
                \A m \in Branches : Edge("CLASSIFY", "ON_SUCCESS", m) \in core'.selected
      BY <1>2, <1>3, <3>1 DEF OnTheWay
    <3> QED BY <3>2, <3>3 DEF OnTheWay
  <2> QED BY <2>1, <2>2, <2>3 DEF Leads
<1> QED BY <1>2, <1>4, LeadsStay DEF LeadFits

\* An attempt ends: finish_attempt, fail_attempt, and resume for an interrupted one.
LEMMA EndKeepsLeads ==
    ASSUME GraphInv, AttemptInv, LeadFits,
           NEW i \in Live, NEW chosen, NEW c, NEW state, NEW end, NEW w,
           EndStep(i, chosen, c, state, end, w)
    PROVE  LeadFits'
<1>1. Leads(c)
  BY EndLeadsOn DEF LeadFits
<1>2. graph' = graph /\ saved' = saved /\ core' = c
  BY EndIsCall DEF CallStep
<1> QED BY <1>1, <1>2, LeadsStay DEF LeadFits

\* resume
LEMMA SettleKeepsLeads ==
    ASSUME GraphInv, AttemptInv, LeadFits, Settle
    PROVE  LeadFits'
<1>1. CASE Interrupted = {}
  <2>1. graph' = graph /\ core' = core /\ (saved' = saved \/ saved' = core)
    BY <1>1 DEF Settle, Commit
  <2> QED BY <2>1, LeadsStay DEF LeadFits
<1>2. CASE Interrupted # {}
  BY <1>2, SettleIsEnd, EndKeepsLeads
<1> QED BY <1>1, <1>2

\* A newly compiled graph.
LEMMA InitLeads ==
    ASSUME Init
    PROVE  LeadFits
<1>1. PICK q \in Compiled : graph = Compile(q) /\ core = Fresh(q)
  BY DEF Init
<1>2. Q = q /\ saved = core
  BY <1>1 DEF Init, Q, Compile
<1>3. \A n \in Nodes(q) : core.state[n] \in {"QUEUED", "WAITING_DEPENDENCY"}
  BY <1>1 DEF Fresh
<1>4. {"FINALIZE", "CLASSIFY"} \subseteq Nodes(q)
  BY NodeFacts
<1> QED BY <1>2, <1>3, <1>4 DEF LeadFits, Leads, OnTheWay, DoneStates

\* Every step; a write copies one core to the disk, a load the other to memory.
LEMMA StepKeepsLeads ==
    ASSUME GraphInv, AttemptInv, LeadFits, [Next]_vars
    PROVE  LeadFits'
<1>1. CASE \E n \in DOMAIN core.state : Start(n)
  BY <1>1, StartKeepsLeads
<1>2. CASE \E i \in Live, outcome \in Outcomes, fresh \in BOOLEAN,
              status \in Statuses \cup {"none"} : Finish(i, outcome, fresh, status)
  BY <1>2, FinishEnds, EndKeepsLeads
<1>3. CASE \E i \in Live, retryable \in BOOLEAN : Fail(i, retryable)
  BY <1>3, FailIsEnd, EndKeepsLeads
<1>4. CASE Write \/ Leave \/ Load \/ UNCHANGED vars
  <2>1. /\ graph' = graph /\ (core' = core \/ core' = saved)
        /\ saved' = saved \/ saved' = core
    BY <1>4 DEF Write, Leave, Load, vars
  <2> QED BY <2>1, LeadsStay DEF LeadFits
<1> QED BY <1>1, <1>2, <1>3, <1>4, CancelKeepsLeads, RerunKeepsLeads, SettleKeepsLeads DEF Next

\* Of some nodes one is the last that an answer passes.
LEMMA Furthest ==
    ASSUME NEW S, S # {}
    PROVE  \E m \in S : \A n \in S : Rank(n) <= Rank(m)
<1> DEFINE left == {14 - Rank(n) : n \in S}
<1>1. left \subseteq Nat /\ left # {}
  BY RankFacts
<1> HIDE DEF left
<1>2. Min(left) \in left /\ \A k \in left : Min(left) <= k
  BY <1>1, Smallest
<1>3. PICK m \in S : Min(left) = 14 - Rank(m)
  BY <1>2 DEF left
<1>4. ASSUME NEW n \in S PROVE Rank(n) <= Rank(m)
  <2>1. 14 - Rank(m) <= 14 - Rank(n)
    BY <1>2, <1>3 DEF left
  <2> QED BY <2>1, RankFacts
<1> QED BY <1>4

\* When a node is ready, by its selected edges.
LEMMA ReadyWhen ==
    ASSUME Works(Q), NEW n \in Nodes(Q), core.state[n] \in Startable,
           \/ n = "CLASSIFY"
           \/ n # "JOIN" /\ \E e \in core.selected \cap Edges(Q) : e.to = n
           \/ /\ n = "JOIN" /\ Branches # {}
              /\ \A m \in Branches : Edge(m, "ON_SUCCESS", "JOIN") \in core.selected \cap Edges(Q)
    PROVE  Ready(core, n)
<1>1. Into(n) = {e \in Edges(Q) : e.to = n}
  BY GraphFacts
<1>2. CASE n = "CLASSIFY"
  BY <1>2 DEF Ready, Startable
<1>3. CASE n # "CLASSIFY" /\ n # "JOIN" /\ \E e \in core.selected \cap Edges(Q) : e.to = n
  BY <1>1, <1>3 DEF Ready, Startable
<1>4. CASE /\ n = "JOIN" /\ Branches # {}
           /\ \A m \in Branches : Edge(m, "ON_SUCCESS", "JOIN") \in core.selected \cap Edges(Q)
  <2> DEFINE awaited == {e \in Into(n) : e.type \notin {"ON_FAILURE", "ON_RETRYABLE_FAILURE"}}
  <2>1. ASSUME NEW e \in Into(n) PROVE e \in core.selected
    <3>1. WellMade(Q, e) /\ e.to = "JOIN"
      BY <1>1, <1>4, EdgesMade
    <3>2. e.from \in Branches /\ e = Edge(e.from, "ON_SUCCESS", "JOIN")
      BY <3>1 DEF WellMade, Sound, Edge, Branches
    <3> QED BY <1>4, <3>2
  <2>2. PICK m \in Branches : TRUE
    BY <1>4
  <2>3. Edge(m, "ON_SUCCESS", "JOIN") \in awaited
    <3>1. Edge(m, "ON_SUCCESS", "JOIN").to = "JOIN" /\ Edge(m, "ON_SUCCESS", "JOIN").type = "ON_SUCCESS"
      BY DEF Edge
    <3> QED BY <1>1, <1>4, <3>1
  <2>4. awaited # {} /\ awaited \subseteq core.selected
    BY <2>1, <2>3
  <2> HIDE DEF awaited
  <2> QED BY <1>4, <2>4 DEF Ready, Startable, awaited
<1> QED BY <1>2, <1>3, <1>4

\* When nothing is under way, some node is ready: the terminal node of a graph that
\* ends badly, the classification at the beginning, else the node the furthest done
\* one leads to, or a branch its join still waits for.
LEMMA LeadsSuffice ==
    ASSUME GraphInv, Leads(core)
    PROVE  NeverStuck
<1> SUFFICES ASSUME ~Final(core), core.state["FINALIZE"] # "FAILED", ~Unrecorded, Live = {}
             PROVE  \E n \in DOMAIN graph.from : Ready(core, n)
  BY DEF NeverStuck, Idle
<1>1. /\ Works(Q) /\ core \in CoreType(Q) /\ DOMAIN graph.from = Nodes(Q)
      /\ {"FINALIZE", "CLASSIFY"} \subseteq Nodes(Q)
      /\ core.selected \subseteq Edges(Q)
  BY GraphFacts, NodeFacts DEF GraphInv, TypeFits, CoreType
<1> SUFFICES \E n \in Nodes(Q) : Ready(core, n)
  BY <1>1
<1>2. \A n \in Nodes(Q) : core.state[n] \in Startable \cup DoneStates \cup {"CANCELLED", "SKIPPED"}
  <2>1. \A n \in Nodes(Q) : core.state[n] \in NodeStates \ LiveStates
    BY <1>1 DEF Unrecorded, LiveNodes, CoreType
  <2> QED BY <2>1 DEF NodeStates, Startable
<1>3. core.state["FINALIZE"] \in Startable
  BY <1>1, <1>2 DEF Leads
<1>4. CASE EndsBadly(core)
  <2>1. PICK e \in core.selected : e.to = "FINALIZE"
    BY <1>4 DEF EndsBadly
  <2> QED BY <1>1, <1>3, <2>1, ReadyWhen
<1>5. CASE ~EndsBadly(core)
  <2>1. OnTheWay(core)
    BY <1>5 DEF Leads
  <2>2. CASE core.state["CLASSIFY"] \notin DoneStates
    <3>1. core.state["CLASSIFY"] \in Startable
      BY <1>1, <1>2, <2>1, <2>2 DEF OnTheWay
    <3> QED BY <1>1, <3>1, ReadyWhen
  <2>3. CASE core.state["CLASSIFY"] \in DoneStates
    <3> DEFINE done == {n \in Nodes(Q) \ {"FINALIZE"} : core.state[n] \in DoneStates}
    <3>1. PICK m \in done : \A n \in done : Rank(n) <= Rank(m)
      BY <1>1, <2>3, Furthest
    <3>2. PICK e \in core.selected : /\ e.from = m /\ Rank(m) < Rank(e.to)
                                     /\ e.to = "EXECUTOR_FALLBACK" => core.state[e.to] # "SKIPPED"
      BY <2>1, <3>1 DEF OnTheWay, LeadsFrom
    <3>3. WellMade(Q, e) /\ e \in Edges(Q) /\ e.to \in Nodes(Q)
      BY <1>1, <3>2, EdgesMade DEF WellMade, Sound
    <3>4. core.state[e.to] \notin DoneStates
      <4>1. e.to \notin done
        BY <3>1, <3>2, RankFacts
      <4> QED BY <1>3, <3>3, <4>1 DEF Startable, DoneStates
    <3>5. core.state[e.to] # "SKIPPED"
      <4> SUFFICES ASSUME core.state[e.to] = "SKIPPED" PROVE FALSE
        OBVIOUS
      <4>1. e.to = "EXECUTOR_PRIMARY" /\ "TOOL" \in done
        BY <2>1, <3>2, <3>3 DEF OnTheWay
      <4>2. Rank("TOOL") <= Rank(m) /\ Rank(m) < Rank("EXECUTOR_PRIMARY")
        BY <3>1, <3>2, <4>1
      <4> QED BY <4>2, RankFacts
    <3>6. core.state[e.to] \in Startable
      BY <1>2, <2>1, <3>3, <3>4, <3>5 DEF OnTheWay
    <3>7. CASE e.to # "JOIN"
      BY <1>1, <3>2, <3>3, <3>6, <3>7, ReadyWhen
    <3>8. CASE e.to = "JOIN"
      <4>1. m \in Branches /\ Branches \subseteq Nodes(Q)
        BY <3>2, <3>3, <3>8, NodeFacts DEF WellMade, Sound, Branches
      <4>2. ASSUME NEW b \in Branches, b \in done
            PROVE  Edge(b, "ON_SUCCESS", "JOIN") \in core.selected \cap Edges(Q)
        <5>1. PICK f \in core.selected : f.from = b /\ Rank(b) < Rank(f.to)
          BY <2>1, <4>2 DEF OnTheWay, LeadsFrom
        <5>2. WellMade(Q, f) /\ f \in Edges(Q) /\ f.from # f.to
          BY <1>1, <5>1, EdgesMade, RankFacts
        <5>3. ~(f.type = "ON_FAILURE" /\ f.to = "FINALIZE")
          BY <1>5, <5>1 DEF EndsBadly
        <5>4. f = Edge(b, "ON_SUCCESS", "JOIN")
          BY <5>1, <5>2, <5>3 DEF WellMade, Sound, Edge, Branches
        <5> QED BY <5>1, <5>2, <5>4
      <4>3. CASE Branches \subseteq done
        BY <3>3, <3>6, <3>8, <4>1, <4>2, <4>3, <1>1, ReadyWhen
      <4>4. CASE ~(Branches \subseteq done)
        <5>1. PICK b \in Branches : b \notin done
          BY <4>4
        <5>2. b \in Nodes(Q) \ {"FINALIZE", "JOIN", "EXECUTOR_PRIMARY", "EXECUTOR_FALLBACK"}
          BY <4>1, BranchNames DEF Branches
        <5>3. core.state[b] \in Startable
          BY <1>2, <2>1, <5>1, <5>2 DEF OnTheWay
        <5>4. Edge("CLASSIFY", "ON_SUCCESS", b) \in core.selected
              /\ Edge("CLASSIFY", "ON_SUCCESS", b).to = b
          BY <2>1, <2>3 DEF OnTheWay, Edge
        <5> HIDE DEF done
        <5> QED BY <1>1, <5>2, <5>3, <5>4, ReadyWhen
      <4> QED BY <4>3, <4>4
    <3> QED BY <3>7, <3>8
  <2> QED BY <2>2, <2>3
<1> QED BY <1>4, <1>5

\* A compiled graph passes the validator (ExecutionGraph.structurally_valid), and
\* executed it never comes to a halt half way (ready_nodes): until the terminal node is
\* done something is under way or ready, whatever is retried, repaired, skipped,
\* cancelled or lost in a restart, unless a restart lost how an attempt ended.
THEOREM GraphsRunToTheirEnd == Spec => []GraphsComplete
<1>1. Init => GraphInv /\ AttemptInv /\ LeadFits
  BY InitHolds, InitHasAttempts, InitLeads
<1>2. GraphInv /\ AttemptInv /\ LeadFits /\ [Next]_vars => (GraphInv /\ AttemptInv /\ LeadFits)'
  BY StepKeeps, StepKeepsAttempts, StepKeepsLeads
<1>3. GraphInv /\ AttemptInv /\ LeadFits => GraphsComplete
  <2>1. CompiledGraphsAreValid
    BY GraphsValid DEF CompiledGraphsAreValid
  <2> QED BY <2>1, LeadsSuffice DEF GraphsComplete, LeadFits
<1> QED BY <1>1, <1>2, <1>3, PTL DEF Spec

=============================================================================
