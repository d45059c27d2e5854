--------------------------- MODULE ExecutionGraph ---------------------------
(***************************************************************************)
(* ExecutionGraphRuntime and ExecutionGraphStore: one graph executed over  *)
(* several requests of a session, with its attempts and checkpoints on     *)
(* disk.  A call changes the runtime in memory and then writes: the        *)
(* attempts it touched, one transaction each, and a checkpoint, another.   *)
(* The process may stop between two writes; a later request loads what is  *)
(* there.  Which node is started when is the caller's business: here any   *)
(* ready node may be, at any time.                                         *)
(***************************************************************************)
EXTENDS GraphTemplates, Integers, Sequences, SequencesExt, FiniteSetsExt

CONSTANTS Compiled,      \* compile inputs whose graphs are looked at
          Executed,      \* those of them whose execution is explored
          ToolBudget,    \* budgets.tool_calls
          MaxAttempts,   \* bound, for each graph: attempts of one node that are explored
          MaxFailures,   \* bound: failed attempts that are explored
          MaxLoads,      \* bound: how often the graph is loaded from disk
          TornWrites     \* may the process stop between the writes of a call?

ASSUME GraphAssumption ==
    /\ Compiled \subseteq CompileInput /\ Executed \subseteq Compiled
    /\ ToolBudget \in Nat /\ MaxAttempts \in [Compiled -> Nat] /\ MaxFailures \in Nat /\ MaxLoads \in Nat
    /\ TornWrites \in BOOLEAN

\* The compiled graph a runtime works on.
Compile(q) ==
    [input     |-> q,
     executors |-> Executors(q),
     from      |-> [n \in Nodes(q) |-> Outgoing(q, n)],
     into      |-> [n \in Nodes(q) |-> Incoming(q, n)],
     below     |-> [n \in Nodes(q) |-> Descendants(q, n)]]

VARIABLES graph,     \* the compiled graph
          core,      \* the runtime in memory, as a checkpoint records it
          attempts,  \* the list of attempts in memory
          loaded,    \* is there a runtime in memory?
          writes,    \* what the current call has still to write
          rows,      \* attempts on disk, in the order of their first insert
          saved,     \* the latest checkpoint on disk
          loads      \* number of loads so far (bounded)

vars == <<graph, core, attempts, loaded, writes, rows, saved, loads>>

LiveStates == {"RUNNING", "WAITING_TOOL", "WAITING_APPROVAL"}
DoneStates == {"SUCCEEDED", "DEGRADED", "FAILED"}
NodeStates == LiveStates \cup DoneStates
                \cup {"QUEUED", "WAITING_DEPENDENCY", "RETRYING", "FALLBACK",
                      "CANCELLED", "SKIPPED"}
Statuses   == {"completed", "degraded", "failed", "cancelled"}

From(n)  == graph.from[n]
Into(n)  == graph.into[n]
Below(n) == graph.below[n]

\* ExecutionGraphRuntime.__init__
Fresh(q) ==
    [state    |-> [n \in Nodes(q) |-> IF n = "CLASSIFY" THEN "QUEUED" ELSE "WAITING_DEPENDENCY"],
     selected |-> {},
     traversed |-> [e \in {d \in Edges(q) : d.max > 0} |-> 0],
     count    |-> [n \in Nodes(q) |-> 0],
     tools    |-> 0,
     status   |-> "none"]

Final(c) == c.status # "none"

Init ==
    /\ \E q \in Compiled : graph = Compile(q) /\ core = Fresh(q)
    /\ saved = core
    /\ attempts = <<>> /\ rows = <<>> /\ writes = <<>>
    /\ loaded = TRUE
    /\ loads = 0

-----------------------------------------------------------------------------

\* Mutant: forgets the node's own state.
ReadyAgain(c, n) ==
    \/ n = "CLASSIFY"
    \/ Into(n) \cap c.selected # {} /\ n # "JOIN"
    \/ n = "JOIN" /\ {e \in Into(n) : e.type = "ON_SUCCESS"} \subseteq c.selected

\* Mutant: JOIN goes ahead with its first branch.
ReadyEarly(c, n) ==
    /\ c.state[n] \in {"QUEUED", "WAITING_DEPENDENCY", "RETRYING", "FALLBACK"}
    /\ n = "CLASSIFY" \/ Into(n) \cap c.selected # {}

\* _is_ready: JOIN waits for all its branches, other nodes for any selected edge.
Ready(c, n) ==
    /\ c.state[n] \in {"QUEUED", "WAITING_DEPENDENCY", "RETRYING", "FALLBACK"}
    /\ LET awaited == {e \in Into(n) :
                         e.type \notin {"ON_FAILURE", "ON_RETRYABLE_FAILURE"}}
       IN  CASE n = "CLASSIFY" -> TRUE
             [] n = "JOIN"     -> awaited # {} /\ awaited \subseteq c.selected
             [] OTHER          -> Into(n) \cap c.selected # {}

\* Positions of the attempts that are not over, the newest last.
Live == {i \in 1..Len(attempts) : attempts[i].state \in LiveStates}

\* _close_unselected_for_terminal: an edge to FINALIZE that is no success closes
\* everything else that is not done.
Closing(chosen) == \E e \in chosen : e.to = "FINALIZE" /\ e.type # "ON_SUCCESS"

ClosedStates(state, source) ==
    [n \in DOMAIN state |->
        IF n \in {source, "FINALIZE"} \/ state[n] \in DoneStates THEN state[n]
        ELSE IF state[n] \in LiveStates THEN "CANCELLED" ELSE "SKIPPED"]

ClosedAttempts(chosen, source) ==
    IF Closing(chosen) THEN {i \in Live : attempts[i].node # source} ELSE {}

\* Mutant: reopens the node without what follows it.
ReopenedAlone(c, again, as) == [c EXCEPT !.state[again] = as]

\* The states after `again` and all that follows it was invalidated.
Reopened(c, again, as) ==
    LET affected == Below(again)
    IN  [c EXCEPT !.selected = {e \in @ : e.from \notin affected},
                  !.state = [n \in DOMAIN @ |->
                               IF n = again THEN as
                               ELSE IF n \in affected THEN "WAITING_DEPENDENCY" ELSE @[n]]]

\* Entries of `writes` beside positions of attempts: a checkpoint, and the rest
\* of a resumption.
Snapshot == 0
Settling == -1

\* End of a call: the runtime in memory and what is to be written.
Commit(c, over, touched) ==
    /\ core' = c
    /\ attempts' = [i \in 1..Len(attempts) |->
                      IF i \in DOMAIN over THEN [attempts[i] EXCEPT !.state = over[i]]
                      ELSE attempts[i]]
    /\ writes' = touched
    /\ UNCHANGED <<graph, loaded, rows, saved, loads>>

\* _persist: the attempt, then a checkpoint; a CHECKPOINT node the other way round.
Persisted(cancelled, i) ==
    SetToSeq(cancelled)
      \o (IF attempts[i].node = "CHECKPOINT" THEN <<Snapshot, i>> ELSE <<i, Snapshot>>)

Over(i, state, cancelled) ==
    [j \in cancelled \cup {i} |-> IF j = i THEN state ELSE "CANCELLED"]

-----------------------------------------------------------------------------

\* Nodes that wait for nobody: their callers finish the attempt right after they
\* start it, so nothing else happens to the runtime in between.
Instant == {"CLASSIFY", "EXECUTOR_EVIDENCE", "JOIN", "POLICY_GATE", "EXECUTOR_SELECT",
            "TEST", "CHECKPOINT", "FINALIZE"}

Between == {i \in Live : attempts[i].node \in Instant}

\* No request uses a graph whose terminal node is done: the next one compiles anew.
Idle    == graph.input \in Executed /\ loaded /\ writes = <<>> /\ Between = {} /\ ~Final(core)
Turn(i) == loaded /\ writes = <<>> /\ i \in Live /\ Between \subseteq {i}

\* What a caller keeps apart: nothing starts while a client is waited for, the
\* steps up to the Executor's call are taken while nothing is under way, the roles
\* that judge its answer one after the other, the closing ones while no Executor
\* attempt is running.  An approval is asked for until it is given.
Judges == {"REVIEWER", "JUDGE", "FRONTIER_B"}

ApprovalGiven ==
    \E i \in 1..Len(attempts) :
        attempts[i].node = "HUMAN_APPROVAL" /\ attempts[i].state = "SUCCEEDED"

LiveNodes == {attempts[i].node : i \in Live}

\* TEST and FRONTIER_B are started in one place each, right after the node before
\* them succeeded: in resume_tool_result, and after a judge's finding.
Follows(n) ==
    \E e \in Into(n) \cap core.selected :
        /\ attempts # <<>> /\ Last(attempts).node = e.from
        /\ e.from # n /\ Into(e.from) \cap core.selected # {}

Alone(n) ==
    /\ \A i \in Live : attempts[i].state = "RUNNING"
    /\ n \in {"TEST", "FRONTIER_B"} => Follows(n)
    /\ n \in {"CLASSIFY", "JOIN", "POLICY_GATE", "EXECUTOR_SELECT", "TEST"} => Live = {}
    /\ n \in Judges \cup {"CHECKPOINT", "FINALIZE"} => LiveNodes \cap graph.executors = {}
    /\ n \in graph.executors => LiveNodes \cap graph.executors = {}
    /\ n \in Judges => LiveNodes \cap Judges = {}
    /\ n \in {"POLICY_GATE", "HUMAN_APPROVAL"} => ~ApprovalGiven

(***************************************************************************)
(* start_attempt.  An attempt's id is its node and the number of attempts  *)
(* the runtime remembers of it.                                            *)
(***************************************************************************)
Start(n) ==
    LET state == CASE n = "HUMAN_APPROVAL" -> "WAITING_APPROVAL"
                   [] n = "TOOL"           -> "WAITING_TOOL"
                   [] OTHER                -> "RUNNING"
        k     == core.count[n] + 1
    IN  /\ Idle /\ Ready(core, n)
        /\ Alone(n)
        /\ k <= MaxAttempts[graph.input]
        /\ core' = [core EXCEPT !.count[n] = k, !.state[n] = state]
        /\ attempts' = Append(attempts, [node |-> n, k |-> k, state |-> state])
        /\ writes' = <<Len(attempts) + 1, Snapshot>>
        /\ UNCHANGED <<graph, loaded, rows, saved, loads>>

(***************************************************************************)
(* finish_attempt.  `fresh` says whether the evidence is new and validated.*)
(* An outcome without an edge raises, and nothing changes.                 *)
(***************************************************************************)
Repair(n) == {e \in From(n) : e.type = "ON_FINDING" /\ e.to = "EXECUTOR_PRIMARY"}

\* _select_outcome_edges
EffectiveOutcome(n, outcome, fresh) ==
    IF outcome # "ON_FINDING" \/ Repair(n) = {} THEN outcome
    ELSE IF ~fresh THEN "ON_NO_PROGRESS"
    ELSE IF \E e \in Repair(n) : core.traversed[e] < e.max THEN "ON_FINDING"
    ELSE "ON_BUDGET"

Chosen(n, outcome, fresh) ==
    {e \in From(n) : e.type = EffectiveOutcome(n, outcome, fresh)}

\* _apply_selected_edges: success gives fallbacks up, a finding with progress
\* sends its target and all that follows round again.
Applied(n, chosen, fresh) ==
    LET repeats  == {e \in chosen : e.max > 0}
        recorded == [core EXCEPT
                        !.selected = @ \cup chosen,
                        !.traversed = [e \in DOMAIN @ |-> IF e \in repeats THEN @[e] + 1 ELSE @[e]],
                        !.state[n] = "SUCCEEDED"]
        closed   == IF Closing(chosen)
                    THEN [recorded EXCEPT !.state = ClosedStates(@, n)] ELSE recorded
        given    == IF \E e \in chosen : e.type = "ON_SUCCESS"
                    THEN {e.to : e \in {d \in From(n) : d.type = "ON_FALLBACK"}} ELSE {}
        skipped  == [closed EXCEPT !.state = [m \in DOMAIN @ |->
                                                IF m \in given THEN "SKIPPED" ELSE @[m]]]
        findings == {e \in chosen : e.type = "ON_FINDING"}
    IN  IF findings = {} \/ ~fresh THEN skipped
        ELSE LET e == CHOOSE f \in findings : TRUE
                 again == Reopened(skipped, e.to, "RETRYING")
             IN  [again EXCEPT !.selected = @ \cup {e}, !.state[n] = "WAITING_DEPENDENCY"]

Finish(i, outcome, fresh, status) ==
    LET n      == attempts[i].node
        chosen == Chosen(n, outcome, fresh)
        closed == ClosedAttempts(chosen, n)
        after  == Applied(n, chosen, fresh)
    IN  /\ Turn(i)
        /\ n = "TOOL" => core.tools < ToolBudget
        /\ fresh => n \notin graph.executors
        /\ IF n = "FINALIZE" THEN ~Final(core) /\ status \in Statuses /\ outcome = "ON_SUCCESS"
                             ELSE status = core.status /\ chosen # {}
        /\ Commit([after EXCEPT !.tools = IF n = "TOOL" THEN @ + 1 ELSE @, !.status = status],
                  Over(i, "SUCCEEDED", closed), Persisted(closed, i))

(***************************************************************************)
(* fail_attempt: a retry of a transient failure, else the fallback, else   *)
(* the failure edge.                                                       *)
(***************************************************************************)
Open(e) == e.max = 0 \/ core.traversed[e] < e.max

Failed(n, retryable) ==
    LET retries   == {e \in From(n) :
                        retryable /\ e.type = "ON_RETRYABLE_FAILURE" /\ Open(e)}
        fallbacks == {e \in From(n) : e.type = "ON_FALLBACK" /\ Open(e)}
        chosen    == IF retries # {} THEN retries ELSE IF fallbacks # {} THEN fallbacks
                     ELSE {e \in From(n) : e.type = "ON_FAILURE"}
        counted   == [core EXCEPT !.traversed = [e \in DOMAIN @ |->
                                                   IF e \in chosen THEN @[e] + 1 ELSE @[e]]]
        e         == CHOOSE d \in chosen : TRUE
        moved     == CASE retries # {} -> [counted EXCEPT !.state[n] = "RETRYING"]
                       [] retries = {} /\ fallbacks # {} /\ e.max > 0 ->
                            [Reopened(counted, e.to, "FALLBACK")
                                EXCEPT !.state[n] = "WAITING_DEPENDENCY"]
                       [] retries = {} /\ fallbacks # {} /\ e.max = 0 ->
                            [counted EXCEPT !.state[n] = "DEGRADED", !.state[e.to] = "FALLBACK"]
                       [] OTHER ->
                            LET failed == [counted EXCEPT !.state[n] = "FAILED"]
                            IN  IF Closing(chosen)
                                THEN [failed EXCEPT !.state = ClosedStates(@, n)] ELSE failed
    IN  [chosen |-> chosen,
         core   |-> [moved EXCEPT !.selected = @ \cup chosen]]

Fail(i, retryable) ==
    LET n == attempts[i].node
        f == Failed(n, retryable)
        closed == ClosedAttempts(f.chosen, n)
    IN  /\ Idle /\ i \in Live
        /\ Cardinality({j \in 1..Len(attempts) : attempts[j].state = "FAILED"}) < MaxFailures
        /\ Commit(f.core, Over(i, "FAILED", closed), Persisted(closed, i))

(***************************************************************************)
(* cancel: the live attempts end, the terminal node is opened through the  *)
(* failure edge of the newest of them (or of the entry).                   *)
(***************************************************************************)
Cancel ==
    LET newest == IF Live = {} THEN "CLASSIFY" ELSE attempts[Max(Live)].node
        from   == IF newest = "FINALIZE" THEN "CLASSIFY" ELSE newest
    IN  /\ Idle /\ ~Final(core)
        /\ Commit([core EXCEPT
                      !.selected = @ \cup {Edge(from, "ON_FAILURE", "FINALIZE")},
                      !.state = [n \in DOMAIN @ |->
                                   IF n = "FINALIZE" THEN "WAITING_DEPENDENCY"
                                   ELSE IF @[n] \in DoneStates THEN @[n] ELSE "CANCELLED"]],
                  [i \in Live |-> "CANCELLED"], SetToSeq(Live) \o <<Snapshot>>)

\* partial_rerun of the Executor's evidence, after an asynchronous proposal
\* invalidated it: it and what follows it are open again.  The handler does this
\* before the answer of the Executor is judged; a request that was cancelled or
\* failed has nothing to rerun.
PartialRerun ==
    LET n == "EXECUTOR_EVIDENCE"
        affected == Below(n)
    IN  /\ Idle /\ n \in DOMAIN graph.from /\ core.state[n] \in DoneStates
        /\ Into("FINALIZE") \cap core.selected = {}
        /\ LiveNodes \subseteq {"EXECUTOR_PRIMARY"}
        /\ \A e \in core.selected : e.from \in Judges => e.to \in {e.from, "EXECUTOR_PRIMARY"}
        /\ Commit([Reopened(core, n, "QUEUED") EXCEPT
                      !.status = IF "FINALIZE" \in affected THEN "none" ELSE @],
                  <<>>, <<Snapshot>>)

-----------------------------------------------------------------------------

\* save_attempt (an upsert by id) and save_checkpoint, each a transaction.
Upsert(row) ==
    LET same == {j \in 1..Len(rows) : rows[j].node = row.node /\ rows[j].k = row.k}
    IN  IF same = {} THEN Append(rows, row)
        ELSE [j \in 1..Len(rows) |-> IF j \in same THEN row ELSE rows[j]]

Write ==
    /\ loaded /\ writes # <<>> /\ Head(writes) # Settling
    /\ writes' = Tail(writes)
    /\ IF Head(writes) = Snapshot THEN saved' = core /\ UNCHANGED rows
                           ELSE rows' = Upsert(attempts[Head(writes)]) /\ UNCHANGED saved
    /\ UNCHANGED <<graph, core, attempts, loaded, loads>>

\* The request that held the runtime is over, or the process died: what is in
\* memory is gone, and so are the writes that were left.
Leave ==
    /\ loaded /\ graph.input \in Executed
    /\ TornWrites \/ writes = <<>>
    /\ loaded' = FALSE /\ writes' = <<>>
    /\ core' = saved /\ attempts' = <<>>
    /\ UNCHANGED <<graph, rows, saved, loads>>

\* load_runtime: the rows and the checkpoint are read, `Interrupted` is still
\* to be settled.
Load ==
    /\ ~loaded /\ loads < MaxLoads
    /\ loads' = loads + 1
    /\ loaded' = TRUE
    /\ core' = saved /\ attempts' = rows
    /\ writes' = <<Settling>>
    /\ UNCHANGED <<graph, rows, saved>>

\* resume: every attempt that was running fails with GRAPH_PROCESS_RESTART, as
\* a transient failure, each with its own writes, before anybody else is served.
\* The request then uses the graph only if it brings the tool result or the
\* approval that is waited for, or comes after an approval; else it compiles anew.
Interrupted == {i \in Live : attempts[i].state = "RUNNING"}

Usable ==
    \/ Live # {}
    \/ /\ ApprovalGiven
       /\ ~Final(core) /\ \E n \in DOMAIN graph.from : Ready(core, n)

Settle ==
    /\ loaded /\ writes = <<Settling>>
    /\ IF Interrupted = {}
       THEN IF Usable THEN Commit(core, <<>>, <<Snapshot>>)
            ELSE /\ saved' = core /\ loaded' = FALSE /\ writes' = <<>> /\ attempts' = <<>>
                 /\ UNCHANGED <<graph, core, rows, loads>>
       ELSE LET i == Min(Interrupted)
                f == Failed(attempts[i].node, TRUE)
                closed == ClosedAttempts(f.chosen, attempts[i].node)
            IN  Commit(f.core, Over(i, "FAILED", closed),
                       Persisted(closed, i) \o <<Settling>>)

Outcomes == {"ON_SUCCESS", "ON_FINDING", "ON_APPROVAL", "ON_REJECTION", "ON_CHECKPOINT"}

Next ==
    \/ \E n \in DOMAIN core.state : Start(n)
    \/ \E i \in Live, outcome \in Outcomes, fresh \in BOOLEAN,
          status \in Statuses \cup {"none"} : Finish(i, outcome, fresh, status)
    \/ \E i \in Live, retryable \in BOOLEAN : Fail(i, retryable)
    \/ Cancel
    \/ PartialRerun
    \/ Write
    \/ Leave
    \/ Load
    \/ Settle

(***************************************************************************)
(* Properties                                                              *)
(***************************************************************************)

\* Types: the runtime in memory, the checkpoint, the attempts and the writes.
Cores == [state     : [DOMAIN graph.from -> NodeStates],
          selected  : SUBSET UNION Range(graph.from),
          traversed : [{e \in UNION Range(graph.from) : e.max > 0} -> 0..RetryLimit],
          count     : [DOMAIN graph.from -> 0..MaxAttempts[graph.input]],
          tools     : 0..ToolBudget,
          status    : Statuses \cup {"none"}]

IsAttempt(a) == a.node \in DOMAIN graph.from /\ a.k \in 1..MaxAttempts[graph.input] /\ a.state \in NodeStates

TypeOK ==
    /\ graph.input \in Compiled
    /\ graph.input \in Executed => {core, saved} \subseteq Cores
    /\ \A i \in 1..Len(attempts) : IsAttempt(attempts[i])
    /\ \A i \in 1..Len(rows) : IsAttempt(rows[i])
    /\ loaded \in BOOLEAN /\ loads \in 0..MaxLoads
    /\ \A i \in 1..Len(writes) : writes[i] \in {Snapshot, Settling} \cup 1..Len(attempts)

\* Every compile input yields a graph that the validator accepts: edges between
\* its nodes, cycles only where declared and bounded, nothing unreachable.
CompiledGraphsAreValid == (rows = <<>> /\ loads = 0) => StructurallyValid(graph.input)

\* A node has at most one attempt under way, over repairs, retries and reloads.
OneLiveAttempt ==
    \A i, j \in Live : attempts[i].node = attempts[j].node => i = j

\* Once the terminal node has finished, nothing is under way any more.
FinalIsQuiet == Final(core) => Live = {}

\* Where the policy asks for an approval, no Executor attempt exists before an
\* approved attempt of HUMAN_APPROVAL does.
ApprovalFirst ==
    (HasApproval(graph.input) /\ \E i \in 1..Len(attempts) : attempts[i].node \in graph.executors)
        => ApprovalGiven

\* Repairs and retries are bounded: every attempt of the Executor but the first
\* was paid for by a traversal of a bounded edge that leads back to it, whatever
\* restarts come between.
AttemptsArePaidFor ==
    Parallel(graph.input) = {} =>
        core.count["EXECUTOR_PRIMARY"]
            <= 1 + MapThenSumSet(LAMBDA e : core.traversed[e],
                                 {e \in DOMAIN core.traversed : e.to = "EXECUTOR_PRIMARY"})

\* A join that runs or has run has all its branches behind it.
JoinHasAllBranches ==
    (Parallel(graph.input) # {} /\ core.state["JOIN"] \in {"RUNNING", "SUCCEEDED"})
        => \A n \in Parallel(graph.input) : core.state[n] = "SUCCEEDED"

\* A review stands while the edge by which it passed is selected: a repair takes
\* it back (_apply_selected_edges).
ReviewStands ==
    \E e \in core.selected : e.from = "REVIEWER" /\ e.type \in {"ON_SUCCESS", "ON_APPROVAL"}

\* What is checkpointed or finalized along success edges was reviewed after the
\* Executor last wrote it: a review stands, and while one does, no attempt of an
\* Executor is under way or may start, whatever findings, tool calls, retries and
\* reloads came before (finish_attempt, finalize_ready).
RepairIsReviewed ==
    HasReviewer(graph.input) =>
        /\ \A i \in 1..Len(attempts) :
              /\ attempts[i].node \in {"CHECKPOINT", "FINALIZE"} /\ attempts[i].state = "SUCCEEDED"
              /\ \A e \in core.selected : e.to = "FINALIZE" => e.type \in {"ON_SUCCESS", "ON_CHECKPOINT"}
              => ReviewStands
        /\ ReviewStands => \A n \in graph.executors : n \notin LiveNodes /\ ~Ready(core, n)

\* The graph never comes to a halt before its terminal node: something is under
\* way or ready, unless the terminal node failed, or a restart lost the checkpoint
\* that says how an attempt ended.
Unrecorded == \E n \in DOMAIN core.state : core.state[n] \in LiveStates /\ n \notin LiveNodes

NeverStuck ==
    (Idle /\ core.state["FINALIZE"] # "FAILED" /\ ~Unrecorded)
        => Live # {} \/ \E n \in DOMAIN graph.from : Ready(core, n)

\* Attempts follow each other as the rows say: one at a time per node, none after
\* the terminal node, and each repetition paid for, across retries, repairs and
\* reloads of the checkpoint (start_node, finish_node, recover).
AttemptsAreSound == TypeOK /\ OneLiveAttempt /\ FinalIsQuiet /\ AttemptsArePaidFor

\* No node runs before what it waits for: a join before a branch, an Executor
\* before the approval (ready_nodes).
PrerequisitesHold == JoinHasAllBranches /\ ApprovalFirst

\* A compiled graph is valid and, executed, never comes to a halt half way.
GraphsComplete == CompiledGraphsAreValid /\ NeverStuck

\* The rows are append-only by id: a row that says how an attempt ended is never
\* overwritten, by a later attempt with its id or otherwise.  (Violated when a
\* restart comes between the write of the attempt and that of the checkpoint.)
AppendOnly ==
    [][\A i \in 1..Len(rows) :
          rows[i].state \notin LiveStates => i \in DOMAIN rows' /\ rows'[i] = rows[i]]_vars

\* A tool call of the Executor finds the TOOL node ready to wait for its result.
\* (Violated: TOOL stays SUCCEEDED after a validated repair.)
ToolCallWaits ==
    [][\A e \in core'.selected \ core.selected :
          (e.to = "TOOL" /\ loaded) => Ready(core', "TOOL")]_vars

Spec == Init /\ [][Next]_vars
=============================================================================
