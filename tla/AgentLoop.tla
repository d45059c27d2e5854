------------------------------- MODULE AgentLoop -------------------------------
(***************************************************************************)
(* The engineering loop of one session across its turns.  A turn reads the *)
(* stored SessionState, works on its own copy (admission, experts, the     *)
(* Executor's tool calls, review, judgement) and writes the whole copy     *)
(* back at each save: turns of one session that overlap, and the operator, *)
(* overwrite each other.  The gateway may restart between any two steps.   *)
(* A file change is named by the tool call that made it; the call that     *)
(* fails is always the same one; evidence is a set of fingerprints.        *)
(***************************************************************************)
EXTENDS Naturals, Sequences, SequencesExt, FiniteSets

CONSTANTS Slots,      \* turns of the session that may be open at once
          MaxTurns,   \* bound: turns begun
          MaxCalls,   \* bound: tool calls delivered to the client
          MaxPerAnswer, \* bound: tool calls of one answer
          Budget,     \* the configured LoopBudget: calls of each kind
          IdleLimit,  \* no_progress_iteration_limit
          Verdicts,   \* what the declarative policy may say of a request
          MaxCommands, \* bound: commands of the operator
          MayCrash    \* may the gateway restart?

Kinds == {"iterations", "tool_calls", "reviewer_calls", "expert_calls"}

ASSUME LoopAssumption ==
    /\ Slots # {} /\ MaxTurns \in Nat /\ MaxCalls \in Nat
    /\ MaxPerAnswer \in Nat
    /\ Budget \in [Kinds -> Nat] /\ IdleLimit \in Nat \ {0}
    /\ Verdicts \subseteq {"allow", "approve", "deny"}
    /\ MaxCommands \in Nat /\ MayCrash \in BOOLEAN

VARIABLES row,    \* the stored SessionState
          copy,   \* the SessionState each open turn works on
          stage,     \* where each turn is
          calls,  \* the tool calls the client was given, and how they ended
          begun,  \* turns begun
          commands \* operator commands given

loopVars == <<row, copy, stage, calls, begun, commands>>

Reasons == {"none", "SUCCESS", "PARTIAL_SUCCESS", "PERMISSION_REQUIRED", "POLICY_BLOCKED",
            "NO_PROGRESS", "DUPLICATE_FAILURE_LIMIT", "BUDGET_EXHAUSTED",
            "PROVIDER_UNAVAILABLE", "JUDGE_REJECTED", "INTERNAL_FAILURE", "CLIENT_CANCELLED"}
Phases  == {"INTAKE", "REPLANNING", "EXECUTING", "REVIEWING", "CORRECTION", "HEAVY_REVIEW",
            "AWAITING_HEAVY_JUDGE", "BLOCKED", "COMPLETED"}
Finals  == {"none", "blocked", "failed", "cancelled", "completed", "degraded"}
Reviews == {"pending", "approved", "rejected", "rejected_frontier", "deferred", "failed"}
Stages  == {"idle", "begun", "continuing", "consulting", "working", "reviewing", "reviewed", "judging"}

\* History: "reviewed" is what the last approving review knew of, "known" the
\* calls the client had run when the turn that holds the session began.
NewSession ==
    [live |-> FALSE, reason |-> "none", iteration |-> 0, ended |-> 0,
     left |-> Budget, clock |-> TRUE, revived |-> FALSE,
     seen |-> {}, fresh |-> FALSE, idle |-> 0, stale |-> 0,
     control |-> "running", asked |-> FALSE, approved |-> FALSE, phase |-> "INTAKE", final |-> "none",
     known |-> {}, observed |-> {}, change |-> 0,
     same |-> 0, tried |-> {}, failed |-> {},
     review |-> "pending", reviewed |-> {}, correct |-> "no",
     met |-> FALSE, judged |-> FALSE]

LoopInit ==
    /\ row = NewSession
    /\ copy = [t \in Slots |-> NewSession]
    /\ stage = [t \in Slots |-> "idle"]
    /\ calls = <<>> /\ begun = 0 /\ commands = 0

-----------------------------------------------------------------------------
\* loop_engineering.py, on one copy of the session.

Terminate(c, reason) == IF c.live /\ c.reason = "none" THEN [c EXCEPT !.reason = reason] ELSE c

Block(c) == [c EXCEPT !.phase = "BLOCKED", !.final = "blocked"]

\* Mutant: the idle count survives new evidence and resumption.
ResumeIdle(c) == [c EXCEPT !.reason = "none", !.stale = 0, !.final = "none"]

Resume(c) == [c EXCEPT !.reason = "none", !.idle = 0, !.stale = 0, !.final = "none",
                       !.phase = IF @ = "BLOCKED" THEN "REPLANNING" ELSE @]

\* record_evidence and record_progress: only a new fingerprint counts.
Note(c, kind) ==
    IF ~c.live \/ kind \in c.seen THEN c
    ELSE [c EXCEPT !.seen = @ \cup {kind}, !.fresh = TRUE, !.idle = 0]

\* New every time: the client's words, a change.
NoteNew(c) == IF c.live THEN [c EXCEPT !.fresh = TRUE, !.idle = 0] ELSE c

NoProgress(c) ==
    IF ~c.live THEN c
    ELSE [c EXCEPT !.idle = IF @ < IdleLimit THEN @ + 1 ELSE @,
                   !.reason = IF c.idle + 1 >= IdleLimit THEN "NO_PROGRESS" ELSE @]

BeginIteration(c, expired) ==
    IF c.reason # "none" THEN c
    ELSE LET d == [c EXCEPT !.clock = @ /\ ~expired]
         IN IF ~d.clock \/ d.left["iterations"] = 0 THEN Terminate(d, "BUDGET_EXHAUSTED")
            ELSE IF d.iteration > 0 /\ ~d.fresh THEN NoProgress(d)
            ELSE [d EXCEPT !.iteration = @ + 1, !.left["iterations"] = @ - 1, !.fresh = FALSE]

Admits(c, kind) == ~c.live \/ (c.reason = "none" /\ c.left[kind] > 0)

\* consume_budget; a refusal blocks the session (_reject_loop_action).
Consume(c, kind) ==
    IF ~c.live THEN c
    ELSE IF Admits(c, kind) THEN [c EXCEPT !.left[kind] = @ - 1]
    ELSE Block(Terminate(c, "BUDGET_EXHAUSTED"))

\* register_failure: the third failure under one strategy ends the loop.
RegisterFailure(c) ==
    IF ~c.live THEN c
    ELSE IF c.same = 0 \/ c.change \notin c.tried
         THEN [c EXCEPT !.same = 1, !.tried = @ \cup {c.change}]
         ELSE [c EXCEPT !.same = IF @ < 3 THEN @ + 1 ELSE @,
                        !.reason = IF c.same + 1 >= 3 THEN "DUPLICATE_FAILURE_LIMIT" ELSE @]

Ready(c) == c.review = "approved" /\ c.met

-----------------------------------------------------------------------------
\* Controller._observe, for one tool result.

Defer(c) == [c EXCEPT !.review = "deferred"]

Changed(c, i) ==
    LET d == [c EXCEPT !.change = i, !.same = 0, !.tried = {}, !.failed = {}]
    IN NoteNew(IF c.correct # "no" THEN [Defer(d) EXCEPT !.correct = "no"]
               ELSE IF c.review = "approved" THEN Defer(d) ELSE d)

Read(c) == Note(IF c.correct = "evidence" THEN [Defer(c) EXCEPT !.correct = "no"] ELSE c, "read")

Failed(c) ==
    LET d == RegisterFailure(Note(c, "failure"))
        e == IF d.live /\ d.reason # "none" THEN Block(d) ELSE d
    IN [e EXCEPT !.failed = @ \cup {c.change}]

\* A failure whose call has no semantic fingerprint is evidence, but not counted.
BlindFailed(c) == Note(c, "failure")

\* acc.duplicate: DuplicateFailedCall was raised.  acc.cut: the result was of the
\* blind call, one without a semantic fingerprint (its tool is not advertised, or
\* its arguments are malformed).  Either way the rest is not observed.
ObserveCall(acc, i, blind) ==
    LET c == [acc.c EXCEPT !.observed = @ \cup {i}]
        d == CASE calls[i] = "change" -> Changed(c, i)
               [] calls[i] = "read"   -> Read(c)
               [] calls[i] = "fail"   -> IF i = blind THEN BlindFailed(c) ELSE Failed(c)
    IN IF acc.duplicate \/ acc.cut \/ i \in acc.c.observed THEN acc
       ELSE [c         |-> d,
             duplicate |-> calls[i] = "fail" /\ i # blind /\ c.change \in c.failed,
             cut       |-> i = blind]

\* Controller.session: the rules that reopen a loop, then the transcript.
Retried(c) ==
    IF c.reason = "CLIENT_CANCELLED" /\ c.control = "running"
    THEN [c EXCEPT !.reason = "none", !.final = "none",
                   !.phase = IF @ = "BLOCKED" THEN "REPLANNING" ELSE @]
    ELSE c

UserSpoke(c, new) ==
    LET d == IF new THEN NoteNew(c) ELSE c
    IN IF d.reason = "NO_PROGRESS" /\ d.control = "running" /\ (new \/ d.fresh)
       THEN Resume(d) ELSE d

Ran(cs) == {i \in 1..Len(cs) : cs[i] # "sent"}

\* The transcript holds the calls that were run, in the order they were sent.
Observed(c, new, blind) ==
    LET after[n \in 0..Len(calls)] ==
            IF n = 0 THEN [c |-> UserSpoke(Retried(c), new), duplicate |-> FALSE, cut |-> FALSE]
            ELSE IF n \notin Ran(calls) THEN after[n - 1]
            ELSE ObserveCall(after[n - 1], n, blind)
        acc  == after[Len(calls)]
        d    == [acc.c EXCEPT !.known = IF acc.duplicate \/ acc.cut THEN {} ELSE Ran(calls)]
    IN [acc EXCEPT !.c = IF ~acc.duplicate /\ ~acc.cut /\ d.stale >= 3
                         THEN [d EXCEPT !.phase = "BLOCKED"] ELSE d]

\* select_route: the loop is created, or an expanded or expired budget restored.
Recovered(c) ==
    IF ~c.live THEN [c EXCEPT !.live = TRUE]
    ELSE IF c.reason = "BUDGET_EXHAUSTED" /\ ~c.clock /\ ~c.revived
    THEN [c EXCEPT !.clock = TRUE, !.revived = TRUE, !.reason = "none",
                   !.phase = "REPLANNING", !.final = "none"]
    ELSE c

Policy(c, verdict) ==
    LET d == [c EXCEPT !.asked = (verdict = "approve")]
    IN CASE verdict = "deny" -> Terminate(Block(d), "POLICY_BLOCKED")
         [] verdict = "approve" /\ ~c.approved -> Terminate(Block(d), "PERMISSION_REQUIRED")
         [] OTHER -> d

Stalled(c) ==
    LET d == NoProgress([c EXCEPT !.stale = IF @ < 3 THEN @ + 1 ELSE @])
    IN IF d.stale >= 3 \/ d.reason = "NO_PROGRESS" THEN [d EXCEPT !.phase = "BLOCKED"] ELSE d

-----------------------------------------------------------------------------
\* finalize_request, and the ways a turn moves on.

IterationEnded(c) ==
    LET d == [c EXCEPT !.ended = c.iteration]
    IN IF c.live /\ c.iteration > c.ended /\ c.reason = "none" /\ c.left["iterations"] = 0
            /\ c.phase \notin {"COMPLETED", "BLOCKED"}
       THEN Block(Terminate(d, "BUDGET_EXHAUSTED")) ELSE d

Finalized(c, status) ==
    CASE status = "cancelled" -> Terminate([c EXCEPT !.final = "cancelled"], "CLIENT_CANCELLED")
      [] status = "failed" /\ c.final # "blocked" -> [c EXCEPT !.final = "failed"]
      [] OTHER -> c

Close(t, c, status) ==
    /\ row' = IterationEnded(Finalized(c, status))
    /\ copy' = [copy EXCEPT ![t] = NewSession]
    /\ stage' = [stage EXCEPT ![t] = "idle"]
    /\ UNCHANGED <<begun, commands>>

\* Work goes on; what the code saves on the way reaches the row.
MoveOn(t, c, next) ==
    /\ copy' = [copy EXCEPT ![t] = c]
    /\ stage' = [stage EXCEPT ![t] = next]
    /\ UNCHANGED <<calls, begun, commands>>

Saved(t, c, next) == MoveOn(t, c, next) /\ row' = c
Kept(t, c, next)  == MoveOn(t, c, next) /\ UNCHANGED row

Fail(t, c) == Close(t, c, "failed") /\ UNCHANGED calls

\* session, select_route and the no_progress signal, without an await between.
BeginTurn(t) ==
    /\ stage[t] = "idle" /\ begun < MaxTurns
    /\ begun' = begun + 1 /\ UNCHANGED commands
    /\ \E new \in BOOLEAN, blind \in 0..Len(calls), verdict \in Verdicts, stalled \in BOOLEAN :
          LET acc == Observed(row, new, blind)
              c   == Policy(Recovered(acc.c), verdict)
              cont == acc.c.observed # row.observed
              refused == \/ verdict = "deny"
                         \/ verdict = "approve" /\ ~acc.c.approved
              d   == IF stalled THEN Stalled(c) ELSE c
          IN IF acc.duplicate
             THEN /\ row' = [acc.c EXCEPT !.final = IF @ = "blocked" THEN @ ELSE "failed"]
                  /\ UNCHANGED <<copy, stage, calls>>
             ELSE IF refused
             THEN /\ row' = IterationEnded([c EXCEPT !.final = "blocked"])
                  /\ UNCHANGED <<copy, stage, calls>>
             ELSE /\ row' = d
                  /\ copy' = [copy EXCEPT ![t] = d]
                  /\ stage' = [stage EXCEPT ![t] = IF cont THEN "continuing" ELSE "begun"]
                  /\ UNCHANGED calls

\* orchestrate: control, the blocked phase, then the iteration.
Stopped(c) == c.control # "running" \/ c.phase = "BLOCKED"

Admit(t) ==
    /\ stage[t] \in {"begun", "continuing"}
    /\ \/ Stopped(copy[t]) /\ Fail(t, copy[t])
       \/ ~Stopped(copy[t]) /\ stage[t] = "continuing" /\ Kept(t, copy[t], "consulting")
       \/ /\ ~Stopped(copy[t]) /\ stage[t] = "begun"
          /\ \E expired \in BOOLEAN :
                LET c == BeginIteration(copy[t], expired)
                IN IF c.iteration > copy[t].iteration THEN Kept(t, c, "consulting")
                   ELSE Fail(t, IF c.reason # "none" THEN Block(c) ELSE c)

\* An expert call, its outcome, and the end of orchestrate.
FrontierRejects(c, wants) == [c EXCEPT !.review = "rejected_frontier", !.correct = wants]

Settled(c) ==
    [c EXCEPT !.phase = IF c.review \in {"rejected", "rejected_frontier"}
                        THEN "CORRECTION" ELSE "EXECUTING",
              !.final = "none"]

ConsultExpert(t) ==
    /\ stage[t] = "consulting"
    /\ LET c == copy[t]
           d == Consume(c, "expert_calls")
       IN \/ Saved(t, Settled(c), "working")
          \/ ~Admits(c, "expert_calls") /\ Fail(t, d)
          \/ /\ Admits(c, "expert_calls")
             /\ \/ Saved(t, Settled(Note(d, "expert")), "working")
                \/ Saved(t, Settled(Note(d, "outage")), "working")
                \/ \E wants \in {"change", "evidence"} :
                      Saved(t, Settled(Note(FrontierRejects(d, wants), "finding")), "working")

\* The Executor asks for tools: policy and budget are asked call by call, and the
\* client is given the calls only when every one of them was admitted.
Affords(c, k) == ~c.live \/ (c.reason = "none" /\ k <= c.left["tool_calls"])

Charged(c, k) == IF c.live THEN [c EXCEPT !.left["tool_calls"] = @ - k] ELSE c

ProposeCalls(t) ==
    /\ stage[t] = "working"
    /\ \E k \in 0..MaxPerAnswer :
          LET c == Charged(copy[t], k) IN
          /\ Affords(copy[t], k)
          /\ \/ Fail(t, Terminate(Block(c), "POLICY_BLOCKED"))
             \/ ~Admits(c, "tool_calls") /\ Fail(t, Consume(c, "tool_calls"))
             \/ /\ k > 0 /\ Len(calls) + k <= MaxCalls
                /\ calls' = calls \o [i \in 1..k |-> "sent"]
                /\ Close(t, c, "completed")

ClientRuns(i) ==
    /\ calls[i] = "sent"
    /\ \E outcome \in {"read", "change", "fail"} : calls' = [calls EXCEPT ![i] = outcome]
    /\ UNCHANGED <<row, copy, stage, begun, commands>>

\* A provider fails, or the handler does.
Broken(t) ==
    /\ stage[t] \in {"consulting", "working", "judging"}
    /\ \E reason \in {"PROVIDER_UNAVAILABLE", "INTERNAL_FAILURE", "none"} :
          Fail(t, IF reason = "none" THEN copy[t] ELSE Terminate(copy[t], reason))

\* The answer is final: reviewed when the session has something to review.
NeedsReview(c) == c.review # "approved" /\ c.change > 0

AskReviewer(t) ==
    /\ stage[t] = "working" /\ NeedsReview(copy[t])
    /\ LET c == [copy[t] EXCEPT !.phase = "REVIEWING"]
       IN IF Admits(c, "reviewer_calls") THEN Kept(t, Consume(c, "reviewer_calls"), "reviewing")
          ELSE Fail(t, Consume(c, "reviewer_calls"))

NoReview(t) == stage[t] = "working" /\ Kept(t, copy[t], "reviewed")

\* Mutant: the verdict of the reviewer stands, whatever the Frontier asked for.
VerdictAsGiven(c, verdict) == verdict

Verdict(c, verdict) == IF verdict = "approved" /\ c.correct # "no" THEN "rejected" ELSE verdict

EndReview(t) ==
    /\ stage[t] = "reviewing"
    /\ \/ \E said \in {"approved", "rejected"} :
             LET verdict == Verdict(copy[t], said)
                 c == [copy[t] EXCEPT !.review = verdict,
                          !.reviewed = IF verdict = "approved" THEN copy[t].observed ELSE @,
                          !.phase = IF verdict = "approved" THEN "EXECUTING" ELSE "CORRECTION"]
             IN Saved(t, Note(c, verdict), "reviewed")
       \/ LET c == [copy[t] EXCEPT !.review = "failed"]
          IN Saved(t, c, "reviewed") \/ Fail(t, c)

\* apply_metadata.
Signal(c, reason) == Terminate(Block(c), reason)

Success(c) == Terminate([c EXCEPT !.phase = "COMPLETED", !.final = "completed"], "SUCCESS")

Conclude(t) ==
    /\ stage[t] = "reviewed"
    /\ LET c == copy[t] IN
       \/ Close(t, Signal(c, "PERMISSION_REQUIRED"), "completed")
       \/ Close(t, Terminate([c EXCEPT !.phase = "COMPLETED", !.final = "degraded"],
                             "PARTIAL_SUCCESS"), "completed")
       \/ \E evidence \in BOOLEAN :
             LET d == IF evidence THEN NoteNew([c EXCEPT !.met = c.live]) ELSE c
             IN Close(t, IF Ready(d) THEN Success(d) ELSE d, "completed")
    /\ UNCHANGED calls

\* A risky change is judged once, after its metadata is applied.
StartJudge(t) ==
    /\ stage[t] = "reviewed" /\ ~copy[t].judged
    /\ LET c == [copy[t] EXCEPT !.phase = "HEAVY_REVIEW"]
       IN IF Admits(c, "expert_calls") THEN Saved(t, Consume(c, "expert_calls"), "judging")
          ELSE Fail(t, Consume(c, "expert_calls"))

EndJudge(t) ==
    /\ stage[t] = "judging"
    /\ LET c == [copy[t] EXCEPT !.judged = TRUE] IN
       \/ Close(t, IF Ready(c) THEN Success(c) ELSE [c EXCEPT !.phase = "CORRECTION"], "completed")
       \/ Close(t, [c EXCEPT !.phase = "CORRECTION"], "failed")
       \/ Close(t, Signal(c, "JUDGE_REJECTED"), "failed")
    /\ UNCHANGED calls

Cancelled(t) ==
    /\ stage[t] \notin {"idle"}
    /\ Close(t, copy[t], "cancelled")
    /\ UNCHANGED calls

\* The operator's commands read and write the row, not the copies.
Operate ==
    /\ commands < MaxCommands /\ begun > 0 /\ commands' = commands + 1
    /\ \E control \in {"paused", "running", "terminated"} :
          row' = LET c == [row EXCEPT !.control = control]
                 IN IF control = "terminated"
                    THEN Terminate([c EXCEPT !.phase = "BLOCKED", !.final = "cancelled"], "CLIENT_CANCELLED")
                    ELSE c
    /\ UNCHANGED <<copy, stage, calls, begun>>

Approve ==
    /\ commands < MaxCommands /\ row.asked /\ commands' = commands + 1
    /\ row' = LET c == NoteNew([row EXCEPT !.approved = TRUE])
              IN [c EXCEPT !.reason = IF @ = "PERMISSION_REQUIRED" THEN "none" ELSE @,
                           !.phase = "REPLANNING", !.final = "none"]
    /\ UNCHANGED <<copy, stage, calls, begun>>

Crash ==
    /\ MayCrash /\ \E t \in Slots : stage[t] # "idle"
    /\ copy' = [t \in Slots |-> NewSession]
    /\ stage' = [t \in Slots |-> "idle"]
    /\ UNCHANGED <<row, calls, begun, commands>>

Turn(t) ==
    \/ Admit(t) \/ ConsultExpert(t) \/ ProposeCalls(t) \/ Broken(t)
    \/ AskReviewer(t) \/ NoReview(t) \/ EndReview(t) \/ Conclude(t)
    \/ StartJudge(t) \/ EndJudge(t) \/ Cancelled(t)

LoopNext ==
    \/ \E t \in Slots : BeginTurn(t) \/ Turn(t)
    \/ \E i \in 1..Len(calls) : ClientRuns(i)
    \/ Operate \/ Approve \/ Crash

LoopSpec == LoopInit /\ [][LoopNext]_loopVars

-----------------------------------------------------------------------------

Session ==
    [live : BOOLEAN, reason : Reasons, iteration : 0..Budget["iterations"],
     ended : 0..Budget["iterations"], left : [Kinds -> Nat], clock : BOOLEAN, revived : BOOLEAN,
     seen : SUBSET {"read", "failure", "expert", "outage", "finding", "approved", "rejected"},
     fresh : BOOLEAN, idle : 0..IdleLimit, stale : 0..3,
     control : {"running", "paused", "terminated"}, asked : BOOLEAN, approved : BOOLEAN,
     phase : Phases, final : Finals,
     known : SUBSET (1..MaxCalls), observed : SUBSET (1..MaxCalls), change : 0..MaxCalls,
     same : 0..3, tried : SUBSET (0..MaxCalls), failed : SUBSET (0..MaxCalls),
     review : Reviews, reviewed : SUBSET (1..MaxCalls), correct : {"no", "change", "evidence"},
     met : BOOLEAN, judged : BOOLEAN]

\* Every stored and working session is well formed, the budgets never below
\* zero (LoopState, LoopBudget).
TypeOK ==
    /\ row \in Session /\ copy \in [Slots -> Session]
    /\ stage \in [Slots -> Stages]
    /\ calls \in BoundedSeq({"sent", "read", "change", "fail"}, MaxCalls)
    /\ begun \in 0..MaxTurns /\ commands \in 0..MaxCommands

\* A loop that spent its allowance of iterations without evidence is not left
\* running: every rule that reopens it gives the allowance back
\* (record_no_progress, session).  Nor is a budget ever spent below zero, by
\* turns that overlap or are repeated.
IdleLoopsStop ==
    /\ TypeOK
    /\ \A c \in {row} \cup {copy[t] : t \in Slots} : c.idle = IdleLimit => c.reason # "none"

\* A session is completed with SUCCESS only when its criteria have evidence, no
\* correction the Frontier asked for is open, and the approving review saw every
\* file change that the turn which writes it had observed, and every one the
\* client had made when that turn began, whichever turn it was made for and
\* whatever became of the session that observed it first: the transcript is
\* whole, and a turn observes again what an overwritten session had observed.
\* Excepted are changes other turns observe after this one began (the next
\* property), and those that stand in its transcript behind a call without a
\* fingerprint (apply_metadata, judge, review, _observe).
Succeeded(c) == c.reason = "SUCCESS" /\ c.final = "completed"

SuccessIsEarned ==
    [][Succeeded(row') /\ ~Succeeded(row)
          => /\ row'.met /\ row'.correct = "no"
             /\ \A i \in row'.observed \cup row'.known : calls[i] = "change" => i \in row'.reviewed]_loopVars

\* Nor does it overwrite, with its SUCCESS, a session that had observed a change
\* the review did not see: two turns that overlap do that (state.py:320 writes
\* the whole row, whatever it holds by now).  (Violated.)
SuccessLosesNoChange ==
    [][Succeeded(row') /\ ~Succeeded(row)
          => \A i \in row.observed : calls[i] = "change" => i \in row'.reviewed]_loopVars

\* A verdict that no rule lifts stands: no later event of the same session
\* replaces it by another one (terminate_loop has the guard, record_no_progress
\* and register_failure do not).  (Violated.)
Unliftable == Reasons \ {"none", "CLIENT_CANCELLED", "NO_PROGRESS", "BUDGET_EXHAUSTED",
                         "PERMISSION_REQUIRED"}

VerdictsStick == [][row.reason \in Unliftable => row'.reason = row.reason]_loopVars
=============================================================================
