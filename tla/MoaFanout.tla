------------------------------ MODULE MoaFanout ------------------------------
(***************************************************************************)
(* What the controller does between a chat turn and the Executor's final   *)
(* call: prepare_executor (gateway/src/dgx_moa/controller.py) selects the  *)
(* auxiliary roles, starts them as tasks that share a semaphore, waits for *)
(* them one after the other - optional ones until a common deadline - and  *)
(* folds what they found into the Executor's projection.                   *)
(*                                                                         *)
(* One turn: its coroutine (pc) and one task per role.  Abstracted: the    *)
(* contents of plans, reviews and expert answers, of which the model keeps *)
(* what the code branches on; the review lock and its guard (ChatTurn);    *)
(* the execution graph (ExecutionGraph); the budgets of the engineering    *)
(* loop (AgentLoop), here an admission that may fail.                      *)
(***************************************************************************)
EXTENDS Naturals, Sequences, FiniteSets, SequencesExt

CONSTANTS Turns,          \* the turns to start from, records as Shape says
          MaxConcurrent,  \* async_budget.max_concurrent_delegates
          DelegationBudget,
          Disconnects     \* the turn may be cancelled while it waits

Roles  == {"reasoner", "planner", "reviewer", "frontier"}
Modes  == {"architecture", "code_review", "disagreement"}

\* What a turn brings with it: the roles policy and client ask for, whether the
\* request is high risk (then Planner and Reviewer are required), whether the
\* client insists on the Frontier, what the Frontier has left, its mode, whether
\* there is something to review and has been implemented, whether a remote
\* Reasoner can stand in, whether an earlier Frontier finding awaits verification,
\* and whether a Judge was selected and is remote.
Shape == [roles : SUBSET Roles, high : BOOLEAN, insists : BOOLEAN,
          frontier : {"off", "spent", "on"}, mode : Modes,
          evidence : BOOLEAN, implemented : BOOLEAN, standIn : BOOLEAN,
          verifying : BOOLEAN, judge : {"none", "local", "remote"}]

ASSUME FanoutAssumption ==
    /\ Turns \subseteq Shape
    /\ MaxConcurrent \in Nat \ {0} /\ DelegationBudget \in Nat
    /\ Disconnects \in BOOLEAN

VARIABLES
    turn,
    pc,          \* where prepare_executor is
    awaiting,    \* it is suspended in await_fan_in, not about to enter it
    overdue,     \* fan_in_deadline has passed
    retried,     \* the Reasoner's second attempt
    fanned,      \* fanout_started
    roles,       \* roles, as the code narrows and widens it
    task,        \* role -> state of its task
    artifacts,   \* state.agent_artifacts of this turn: whose they are
    credited,    \* role -> the role whose output the Executor gets under its name
    review,      \* state.review_status
    report,      \* what the Reviewer found
    opinion,     \* what the Frontier found
    mode,        \* frontier_result.mode; "none": no Frontier task
    correction,  \* state.frontier_correction_required
    lost,        \* roles whose failure the coroutine has handled
    confidence,  \* state.derived_confidence
    phase,       \* state.phase
    cause        \* why the turn failed

vars == <<turn, pc, awaiting, overdue, retried, fanned, roles, task, artifacts, credited,
          review, report, opinion, mode, correction, lost, confidence, phase, cause>>

Live     == {"queued", "running"}
Finished == {"ok", "invalid", "error", "unavailable", "budget", "cancelled"}
Ended    == {"done", "raised", "cancelled"}

\* The exceptions the joins handle; the others, RuntimeErrors, escape them.
Handled  == {"invalid", "error", "cancelled"}

Reports  == {"none", "clean", "noted", "serious", "rejected"}
Material(r) == r \in {"serious", "rejected"}

IsRunning(r) == task[r] = "running"
Running == {r \in Roles : IsRunning(r)}

-----------------------------------------------------------------------------

\* Thresholds, role budgets and the delegation budget: any selection of the roles
\* that were asked for, up to the budget.
Select(t, chosen) ==
    /\ chosen \subseteq t.roles
    /\ Cardinality(chosen) <= DelegationBudget

Init ==
    /\ turn \in Turns
    /\ roles \in SUBSET Roles /\ Select(turn, roles)
    /\ pc = "admission" /\ awaiting = FALSE /\ overdue = FALSE
    /\ retried = FALSE /\ fanned = FALSE
    /\ task = [r \in Roles |-> "none"]
    /\ artifacts = <<>> /\ credited = [r \in Roles |-> "none"]
    /\ report = "none"
    /\ review \in {"none", "rejected"} \cup (IF turn.implemented THEN {"approved"} ELSE {})
    /\ opinion = "none" /\ mode = "none" /\ correction = FALSE
    /\ lost = {} /\ confidence = "none" /\ phase = "executing" /\ cause = "none"

Raise(c) == pc' = "raised" /\ cause' = c /\ awaiting' = FALSE

findings == <<artifacts, credited, review, report, opinion, mode, correction, lost,
              confidence, phase>>

\* Control state, a blocked phase and the loop's iteration budget are looked at
\* before anything is started.
Admission ==
    /\ pc = "admission"
    /\ \/ Raise("policy") \/ Raise("budget")
       \/ /\ pc' = IF "reasoner" \in roles THEN "reason" ELSE "fanout"
          /\ UNCHANGED <<cause, awaiting>>
    /\ UNCHANGED <<turn, overdue, retried, fanned, roles, task, findings>>

\* cancel_fanout: Planner and Frontier are cancelled and waited for.
CancelFanout(t) ==
    [r \in Roles |-> IF r \in {"planner", "frontier"} /\ t[r] \in Live
                       THEN "cancelled" ELSE t[r]]

(***************************************************************************)
(* start_fanout.                                                           *)
(***************************************************************************)
\* An architecture opinion leaves the last call of the Frontier to a review.
FrontierLeft == turn.frontier = "on" \/ (turn.verifying /\ turn.frontier = "spent")
WaitsForReview ==
    turn.mode = "architecture" /\ "reviewer" \in roles
        /\ (turn.implemented \/ turn.evidence)
\* A disagreement on which the Judge has ruled is not taken up again.
AsksFrontier == "frontier" \in roles /\ ~WaitsForReview

FanoutTasks == (roles \cap {"planner"})
               \cup (IF AsksFrontier /\ FrontierLeft THEN {"frontier"} ELSE {})
FrontierRefused == AsksFrontier /\ turn.frontier = "off" /\ turn.insists
Degrades == AsksFrontier /\ ~FrontierLeft

StartFanout(next) ==
    \/ /\ FrontierRefused
       /\ task' = CancelFanout([task EXCEPT !["planner"] =
                                  IF "planner" \in roles THEN "queued" ELSE @])
       /\ Raise("frontier") /\ fanned' = TRUE /\ UNCHANGED findings
    \/ \E c \in {"role", "budget"} :       \* ensure_roles or the Planner's admission
          /\ ~FrontierRefused
          /\ task' = CancelFanout(task)
          /\ Raise(c) /\ fanned' = TRUE /\ UNCHANGED findings
    \/ /\ ~FrontierRefused
       /\ task' = [r \in Roles |-> IF r \in FanoutTasks THEN "queued"
                                   ELSE IF next = "await_reasoner" /\ r = "reasoner"
                                     THEN "queued" ELSE task[r]]
       /\ pc' = next /\ fanned' = TRUE
       /\ mode' = IF "frontier" \in FanoutTasks THEN turn.mode ELSE "none"
       /\ lost' = IF Degrades THEN lost \cup {"frontier"} ELSE lost
       /\ UNCHANGED <<cause, awaiting, artifacts, credited, review, report, opinion,
                      correction, confidence, phase>>

Fanout ==
    /\ pc = "fanout" /\ StartFanout("review")
    /\ UNCHANGED <<turn, overdue, retried, roles>>

(***************************************************************************)
(* The Reasoner: required, once retried, then replaced by the Frontier.    *)
(***************************************************************************)
Reason ==
    /\ pc = "reason"
    /\ \/ Raise("budget") /\ UNCHANGED <<task, fanned, findings>>   \* the fan-out goes on
       \/ ~fanned /\ StartFanout("await_reasoner")
       \/ /\ fanned
          /\ task' = [task EXCEPT !["reasoner"] = "queued"]
          /\ pc' = "await_reasoner" /\ UNCHANGED <<fanned, cause, awaiting, findings>>
    /\ UNCHANGED <<turn, overdue, retried, roles>>

\* derived_confidence once the Reasoner's contribution is in.
Contributed ==
    /\ credited' = [credited EXCEPT !["reasoner"] = "reasoner"]
    /\ pc' = "review" /\ UNCHANGED <<retried, task, cause, awaiting>>

\* Mutant: the attempt is not counted.
RetryAgain == pc' = "reason" /\ UNCHANGED <<retried, task, cause, awaiting, credited>>

Retry == /\ retried' = TRUE /\ pc' = "reason"
         /\ UNCHANGED <<task, cause, awaiting, credited>>

ReasonerAnswers ==
    /\ pc = "await_reasoner" /\ task["reasoner"] \in Finished
    /\ CASE task["reasoner"] = "ok" -> Contributed
         [] task["reasoner"] = "invalid" /\ ~retried ->  Retry    \* a local one
         [] OTHER ->
              IF turn.standIn /\ task["reasoner"] \in Handled
              THEN \/ pc' = "stand_in" /\ UNCHANGED <<retried, task, cause, awaiting, credited>>
                   \/ Raise("budget") /\ UNCHANGED <<retried, task, credited>>
              ELSE /\ task' = CancelFanout(task) /\ Raise("reasoner")
                   /\ UNCHANGED <<retried, credited>>
    /\ UNCHANGED <<turn, overdue, fanned, roles, artifacts, review, report, opinion, mode,
                   correction, lost, confidence, phase>>

StandIn ==
    /\ pc = "stand_in"
    /\ \/ Contributed
       \/ \E c \in {"reasoner", "budget"} :
            /\ task' = CancelFanout(task) /\ Raise(c) /\ UNCHANGED <<retried, credited>>
    /\ UNCHANGED <<turn, overdue, fanned, roles, artifacts, review, report, opinion, mode,
                   correction, lost, confidence, phase>>

(***************************************************************************)
(* The Reviewer joins when there is something to review, beyond the        *)
(* delegation budget too, and the deadline starts to run.                  *)
(***************************************************************************)
NeedsReviewer == turn.implemented /\ turn.evidence /\ review # "approved"

StartReview ==
    /\ pc = "review"
    /\ roles' = IF NeedsReviewer THEN roles \cup {"reviewer"} ELSE roles
    /\ \/ NeedsReviewer /\ Raise("role") /\ UNCHANGED <<task, confidence>>
       \/ /\ task' = [task EXCEPT !["reviewer"] =
                        IF "reviewer" \in roles' /\ turn.evidence THEN "queued" ELSE @]
          /\ confidence' =
               IF credited["reasoner"] = "none" THEN confidence
               ELSE IF "frontier" \in lost THEN "low"
               ELSE IF review = "rejected" THEN "conflicted" ELSE "high"
          /\ pc' = "join_planner" /\ UNCHANGED <<cause, awaiting>>
    /\ UNCHANGED <<turn, overdue, retried, fanned, artifacts, credited, review, report,
                   opinion, mode, correction, lost, phase>>

DeadlinePasses ==
    /\ pc \in {"join_planner", "replan", "join_reviewer", "join_frontier"}
    /\ ~overdue /\ overdue' = TRUE
    /\ UNCHANGED <<turn, pc, awaiting, retried, fanned, roles, task, findings, cause>>

(***************************************************************************)
(* The delegates.                                                          *)
(***************************************************************************)
\* bounded_delegate
Begin(r) ==
    /\ task[r] = "queued" /\ Cardinality(Running) < MaxConcurrent
    /\ task' = [task EXCEPT ![r] = "running"]
    /\ UNCHANGED <<turn, pc, awaiting, overdue, retried, fanned, roles, findings, cause>>

\* review() itself writes the verdict into the state and appends its artifact; an
\* approval under a pending correction is normalized to a rejection.
Reviewed ==
    \E found \in IF correction THEN {"rejected"} ELSE {"clean", "noted", "serious", "rejected"} :
        /\ report' = found
        /\ review' = IF found = "rejected" THEN "rejected" ELSE "approved"
        /\ phase' = IF found = "rejected" THEN "correction" ELSE "executing"
        /\ artifacts' = Append(artifacts, "reviewer")
        /\ UNCHANGED opinion

Consulted ==
    /\ opinion' \in {"agrees", "material", "unsure"}
    /\ UNCHANGED <<report, review, phase, artifacts>>

\* An answer that is no valid JSON is retried for Reasoner and Planner.  Specialists
\* that are unavailable and exhausted budgets are RuntimeErrors.
Failures(r) ==
    {"error"} \cup CASE r = "reasoner" -> {"invalid"}
                     [] r = "planner"  -> {"invalid", "unavailable"}
                     [] r = "reviewer" -> {"unavailable"}
                     [] r = "frontier" -> {"budget"}

End(r) ==
    /\ IsRunning(r)
    /\ \/ /\ task' = [task EXCEPT ![r] = "ok"]
          /\ CASE r = "reviewer" -> Reviewed
               [] r = "frontier" -> Consulted
               [] OTHER -> UNCHANGED <<report, review, phase, artifacts, opinion>>
       \/ /\ \E x \in Failures(r) : task' = [task EXCEPT ![r] = x]
          /\ UNCHANGED <<report, review, phase, artifacts, opinion>>
    /\ UNCHANGED <<turn, pc, awaiting, overdue, retried, fanned, roles, credited, mode,
                   correction, lost, confidence, cause>>

(***************************************************************************)
(* await_fan_in: a task that has ended is taken; a required one is waited  *)
(* for; an optional one until the deadline, which also wins over a result  *)
(* that arrives with it.                                                   *)
(***************************************************************************)
Required(r) == IF r = "frontier" THEN turn.insists ELSE turn.high

Joined == CASE pc = "join_planner"  -> {"planner"}
            [] pc = "join_reviewer" -> {"reviewer"}
            [] pc = "join_frontier" -> {"frontier"}
            [] OTHER -> {}

Wait(r) ==
    /\ task[r] \in Live /\ ~awaiting /\ (Required(r) \/ ~overdue)
    /\ awaiting' = TRUE
    /\ UNCHANGED <<turn, pc, overdue, retried, fanned, roles, task, findings, cause>>

Taken(r)   == task[r] \in Finished
GivenUp(r) == ~Required(r) /\ overdue /\ (task[r] \in Live \/ awaiting)
Cancel(r)  == task' = [task EXCEPT ![r] = IF @ \in Live THEN "cancelled" ELSE @]

Fails(r) == \/ Taken(r) /\ task[r] \in Handled /\ UNCHANGED task
            \/ GivenUp(r) /\ Cancel(r)
Escapes(r) == Taken(r) /\ task[r] \in {"unavailable", "budget"}

Go(next) == pc' = next /\ awaiting' = FALSE /\ UNCHANGED cause
Loses(r) == lost' = lost \cup {r} /\ confidence' = "low"

\* The Planner; its failure is raised at the end, when the request is high risk.
PlanIsMade ==
    /\ artifacts' = Append(artifacts, "planner")
    /\ credited' = [credited EXCEPT !["planner"] = "planner"]
    /\ Go("join_reviewer") /\ UNCHANGED <<task, lost, confidence>>

PlannerFails == Loses("planner") /\ Go("join_reviewer") /\ UNCHANGED <<artifacts, credited>>

JoinPlanner ==
    /\ pc = "join_planner"
    /\ \/ /\ task["planner"] = "none" /\ Go("join_reviewer")
          /\ UNCHANGED <<task, artifacts, credited, lost, confidence>>
       \/ Taken("planner") /\ task["planner"] = "ok" /\ PlanIsMade
       \/ /\ Taken("planner") /\ task["planner"] = "invalid"
          /\ Go("replan") \/ Raise("budget")
          /\ UNCHANGED <<task, artifacts, credited, lost, confidence>>
       \/ Fails("planner") /\ task["planner"] # "invalid" /\ PlannerFails
       \/ /\ Escapes("planner") /\ Raise(task["planner"])
          /\ UNCHANGED <<task, artifacts, credited, lost, confidence>>
    /\ UNCHANGED <<turn, overdue, retried, fanned, roles, review, report, opinion, mode,
                   correction, phase>>

Replan ==
    /\ pc = "replan"
    /\ \/ PlanIsMade
       \/ PlannerFails /\ UNCHANGED task
       \/ Raise("unavailable") /\ UNCHANGED <<task, artifacts, credited, lost, confidence>>
    /\ UNCHANGED <<turn, overdue, retried, fanned, roles, review, report, opinion, mode,
                   correction, phase>>

\* The Reviewer.  A finding that matters, or an approval that says too little, is
\* put to the Frontier; when the Reviewer fails, the Frontier may replace it.
AssuranceNeeded == Material(report) \/ report = "clean" \/ turn.verifying
Consult == /\ task' = [task EXCEPT !["frontier"] = "queued"]
           /\ mode' = "code_review"

\* The Executor is handed the artifact that was appended last.
ReviewIsTaken ==
    /\ credited' = [credited EXCEPT !["reviewer"] = Last(artifacts)]
    /\ confidence' = IF Material(report) THEN "conflicted" ELSE confidence
    /\ UNCHANGED <<lost, review>>
    /\ IF ~AssuranceNeeded \/ task["frontier"] # "none"
         THEN Go("join_frontier") /\ UNCHANGED <<task, mode>>
         ELSE IF turn.frontier = "off"
           THEN /\ IF turn.insists THEN Raise("frontier") ELSE Go("join_frontier")
                /\ UNCHANGED <<task, mode>>
           ELSE /\ IF FrontierLeft THEN Consult ELSE UNCHANGED <<task, mode>>
                /\ Go("join_frontier")

ReviewerFails ==
    /\ review' = "failed" /\ Loses("reviewer") /\ Go("join_frontier")
    /\ UNCHANGED credited

JoinReviewer ==
    /\ pc = "join_reviewer"
    /\ \/ /\ task["reviewer"] = "none" /\ Go("join_frontier")
          /\ UNCHANGED <<task, mode, credited, review, lost, confidence>>
       \/ Taken("reviewer") /\ task["reviewer"] = "ok" /\ ReviewIsTaken
       \/ /\ ~turn.high /\ task["frontier"] = "none" /\ turn.frontier = "on"
          /\ (Taken("reviewer") /\ task["reviewer"] \in Handled) \/ GivenUp("reviewer")
          /\ task' = [task EXCEPT !["frontier"] = "queued",
                                  !["reviewer"] = IF @ \in Live THEN "cancelled" ELSE @]
          /\ mode' = "code_review"
          /\ ReviewerFails
       \/ /\ turn.high \/ task["frontier"] # "none" \/ turn.frontier # "on"
          /\ Fails("reviewer") /\ ReviewerFails /\ UNCHANGED mode
       \/ /\ Escapes("reviewer") /\ Raise(task["reviewer"])
          /\ UNCHANGED <<task, mode, credited, review, lost, confidence>>
    /\ UNCHANGED <<turn, overdue, retried, fanned, roles, artifacts, report, opinion,
                   correction, phase>>

\* A material code review overrules whatever was said before.
FrontierRules ==
    IF mode = "code_review" /\ opinion = "material"
      THEN /\ review' = "rejected_frontier" /\ correction' = TRUE
           /\ phase' = "correction" /\ confidence' = "conflicted"
      ELSE UNCHANGED <<review, correction, phase, confidence>>

JudgeNeeded == turn.judge # "none" /\ mode = "disagreement" /\ opinion = "unsure"

JoinFrontier ==
    /\ pc = "join_frontier"
    /\ \/ /\ task["frontier"] = "none" /\ Go("settle")
          /\ UNCHANGED <<task, artifacts, credited, review, correction, lost, confidence, phase>>
       \/ /\ Taken("frontier") /\ task["frontier"] = "ok"
          /\ artifacts' = Append(artifacts, "frontier")
          /\ credited' = [credited EXCEPT !["frontier"] = "frontier"]
          /\ FrontierRules
          /\ IF ~JudgeNeeded THEN Go("settle")
             ELSE IF turn.judge = "local" THEN Raise("judge") ELSE Go("judge")
          /\ UNCHANGED <<task, lost>>
       \/ /\ Fails("frontier") /\ Loses("frontier")
          /\ IF turn.insists THEN Raise("frontier") ELSE Go("settle")
          /\ UNCHANGED <<artifacts, credited, review, correction, phase>>
       \/ /\ Escapes("frontier") /\ Raise("budget")
          /\ UNCHANGED <<task, artifacts, credited, review, correction, lost, confidence, phase>>
    /\ UNCHANGED <<turn, overdue, retried, fanned, roles, report, opinion, mode>>

RemoteJudge ==
    /\ pc = "judge" /\ (Go("settle") \/ Raise("judge"))
    /\ UNCHANGED <<turn, overdue, retried, fanned, roles, task, findings>>

Unfit == turn.high /\ lost \cap {"planner", "reviewer"} # {}
Rejected == review \in {"rejected", "rejected_frontier"}
Proceed == phase' = IF Rejected THEN "correction" ELSE "executing"

\* Mutant: the confidence is derived again after the joins.
SettleAfresh ==
    /\ pc = "settle"
    /\ IF Unfit THEN Raise("required") /\ UNCHANGED phase ELSE Go("done") /\ Proceed
    /\ confidence' = IF Rejected THEN "conflicted" ELSE "high"
    /\ UNCHANGED <<turn, overdue, retried, fanned, roles, task, artifacts, credited, review,
                   report, opinion, mode, correction, lost>>

\* Required failures are raised now; otherwise the projection is built and saved.
Settle ==
    /\ pc = "settle"
    /\ IF Unfit THEN Raise("required") /\ UNCHANGED phase ELSE Go("done") /\ Proceed
    /\ confidence' = IF "frontier" \in lost THEN "low" ELSE confidence
    /\ UNCHANGED <<turn, overdue, retried, fanned, roles, task, artifacts, credited, review,
                   report, opinion, mode, correction, lost>>

(***************************************************************************)
(* The client goes: what the coroutine waits for is cancelled with it.     *)
(***************************************************************************)
AwaitedRole ==
    IF pc = "await_reasoner" THEN {"reasoner"} ELSE IF awaiting THEN Joined ELSE {}

Disconnect ==
    /\ Disconnects
    /\ pc \in {"await_reasoner", "stand_in", "review", "replan", "judge"} \/ awaiting
    /\ pc' = "cancelled" /\ awaiting' = FALSE
    /\ task' = [r \in Roles |-> IF r \in AwaitedRole /\ task[r] \in Live THEN "cancelled"
                                ELSE task[r]]
    /\ UNCHANGED <<turn, overdue, retried, fanned, roles, findings, cause>>

-----------------------------------------------------------------------------

Coroutine == \/ Admission \/ Fanout \/ Reason \/ ReasonerAnswers \/ StandIn \/ StartReview
             \/ JoinPlanner \/ Replan \/ JoinReviewer \/ JoinFrontier \/ RemoteJudge \/ Settle
             \/ \E r \in Joined : Wait(r)
Delegate(r) == Begin(r) \/ End(r)

\* A turn that has ended rests, and so do its tasks in the end.
Rest == pc \in Ended /\ (\A r \in Roles : task[r] \notin Live) /\ UNCHANGED vars

Next == Coroutine \/ DeadlinePasses \/ Disconnect \/ Rest \/ \E r \in Roles : Delegate(r)

\* Every model call is bounded by a timeout of its own, the coroutine runs when it
\* can, and time passes.
Spec == /\ Init /\ [][Next]_vars
        /\ WF_vars(Coroutine) /\ WF_vars(DeadlinePasses)
        /\ \A r \in Roles : WF_vars(Delegate(r))

-----------------------------------------------------------------------------

\* An Executor that goes on has every role the turn requires: none of them was
\* lost to an error or to the deadline for optional ones (await_fan_in).  A
\* Frontier the client insists on is done without in one case only: its
\* invocations were spent before it was asked (start_fanout degrades then).
RequiredIsNotSkipped ==
    pc = "done" =>
        /\ turn.high => lost \cap {"planner", "reviewer"} = {}
        /\ turn.insists => /\ task["frontier"] \in {"none", "ok"}
                           /\ "frontier" \in lost => turn.frontier = "spent"

\* The Executor is never told to be confident of a projection that lacks a
\* contribution: derived_confidence is written before, between and after the joins.
ConfidenceAdmitsLoss ==
    pc = "done" /\ lost # {} => confidence \in {"low", "conflicted"}

\* A rejection that was taken into the projection decides the phase, whoever
\* approves before or after it.
RejectionsStand ==
    pc = "done" =>
        /\ credited["reviewer"] # "none" /\ report = "rejected" => phase = "correction"
        /\ credited["frontier"] # "none" /\ mode = "code_review" /\ opinion = "material"
              => phase = "correction" /\ correction

\* The projection admits what it lacks: no loss is hidden behind a high confidence,
\* no rejection that was taken is outvoted, no required role is missing.  Whose
\* words stand under a role's name it does not say: see CreditIsDue.
ProjectionIsHonest == RequiredIsNotSkipped /\ ConfidenceAdmitsLoss /\ RejectionsStand

\* Whatever fails, hangs or is late, the turn gets its answer.
FanInEnds == <>(pc \in Ended)

\* What the Executor is told a role said, that role said: artifacts[-1] is the
\* Reviewer's only when nobody appended after it (violated by the code).
CreditIsDue == \A r \in Roles : credited[r] \in {"none", r}

\* No task of a turn goes on when the turn has ended (violated by the code).
DelegatesEndWithTurn == pc \in Ended => \A r \in Roles : task[r] \notin Live

=============================================================================
