------------------------------ MODULE ChatTurn ------------------------------
(***************************************************************************)
(* The non-streaming chat handler (gateway/src/dgx_moa/api.py, chat): what *)
(* a turn acquires - a usage row, the Executor's pin, leases, a background *)
(* task, the Reviewer's locks and guard -, in which order it calls         *)
(* Executor, Reviewer, Judge and Frontier B, and how each of its many      *)
(* exits answers, records and gives everything back.                       *)
(*                                                                         *)
(* Several turns run at once and meet at the Reviewer.  A turn's coroutine *)
(* is its stage; prepare_executor runs beside it as a task (prep, detailed *)
(* in MoaFanout) that may review too.  Streams are ChatStream; the loop's  *)
(* verdicts AgentLoop; who gets a pin, ExecutorScheduler.                  *)
(***************************************************************************)
EXTENDS Naturals, FiniteSets

CONSTANTS Turns,             \* the turns of one history
          Kinds,             \* turn -> the kinds of request it may be
          Settings,          \* what the gateway may be configured to
          MaxMoves           \* transitions of the Reviewer's lifecycle record

Setting == [scheduled : BOOLEAN,  \* executor_scheduling.enabled
            guarded   : BOOLEAN]  \* no specialist routing: reviews need the guard

Kind == {"fast", "normal", "high"}    \* fast mode; orchestrated; high_risk_task

Free == "free"                        \* a lock that nobody holds

ASSUME TurnAssumption ==
    /\ Kinds \in [Turns -> SUBSET Kind] /\ Free \notin Turns
    /\ Settings \subseteq Setting /\ Settings # {} /\ IsFiniteSet(Turns)
    /\ MaxMoves \in Nat

\* The exits of the handler: how the usage row is closed and what the client gets (any
\* status but 200 and 503 is an "error").
Exit == [completed  |-> <<"completed", "200">>,
         queue      |-> <<"failed", "503">>,     loading    |-> <<"failed", "503">>,
         frontier   |-> <<"failed", "503">>,     judge      |-> <<"failed", "503">>,
         repeated   |-> <<"failed", "error">>,   policy     |-> <<"failed", "error">>,
         correction |-> <<"failed", "error">>,   rejected   |-> <<"failed", "error">>,
         backend    |-> <<"failed", "error">>,   internal   |-> <<"failed", "error">>,
         timeout    |-> <<"timed_out", "error">>,
         cancelled  |-> <<"cancelled", "gone">>]

Unclaimed == MaxMoves + 1

VARIABLES
    setting,
    at,          \* turn -> its stage
    turn,        \* turn -> what the handler has found out: see Fresh
    held,        \* turn -> the pin and leases it holds
    row,         \* turn -> its usage row: none, open, or its final status
    answer,      \* turn -> what the client got
    prep,        \* turn -> its prepare task
    call,        \* turn -> its call of controller.review
    evaluation,  \* reviewer_evaluation_lock: free or a turn
    lock,        \* controller._review_lock
    guard,       \* the Reviewer record's evaluation_guard
    record,      \* and its transition_id
    claim        \* turn -> the transition_id under which it set the guard

vars == <<setting, at, turn, held, row, answer, prep, call, evaluation, lock, guard, record,
          claim>>
reviewing == <<call, evaluation, lock, guard, claim>>
books     == <<held, row, answer>>

Fresh == [kind |-> "normal",
          status |-> "none",               \* state.review_status; "open": not approved
          asked |-> FALSE,                 \* judge_reasons
          second |-> FALSE,                \* the Judge sees the correction
          approved |-> FALSE]              \* by the Judge, or as it asked

NoCall == [path |-> "none", step |-> "none", result |-> "none"]

Init ==
    /\ setting \in Settings
    /\ at = [t \in Turns |-> "arrive"] /\ turn = [t \in Turns |-> Fresh]
    /\ held = [t \in Turns |-> {}] /\ row = [t \in Turns |-> "none"]
    /\ answer = [t \in Turns |-> "none"]
    /\ prep = [t \in Turns |-> "none"] /\ call = [t \in Turns |-> NoCall]
    /\ evaluation = Free /\ lock = Free
    /\ guard = FALSE /\ record = 0 /\ claim = [t \in Turns |-> Unclaimed]

HighRisk(t) == turn[t].kind = "high"   \* also state.review_fail_closed
Go(t, next) == at' = [at EXCEPT ![t] = next]
Learn(t, f, v) == turn' = [turn EXCEPT ![t][f] = v]
Take(t, things) == held' = [held EXCEPT ![t] = @ \cup things]

-----------------------------------------------------------------------------
(***************************************************************************)
(* controller.review, and the evaluation lock the handler puts around one  *)
(* of its three callers.                                                   *)
(***************************************************************************)
Gone(t) == at[t] \in {"over", "adjudicating"}
StartReview(t, p) ==
    /\ call' = [call EXCEPT ![t] =
                  [path |-> p, result |-> "none",
                   step |-> IF p = "answer" THEN "evaluation" ELSE "lock"]]
    /\ UNCHANGED <<evaluation, lock, guard, claim>>

\* set_guard refuses to move a guard under another transition_id: the guard stays.
Stale(t) == claim[t] \notin {Unclaimed, record}

\* Mutant: whoever leaves clears the guard, also of a review that goes on.
AnyoneClears(t) == TRUE

Cleared(t) == claim[t] = record
Left(l, t) == IF l = t THEN Free ELSE l

\* Mutant: an error leaves the outer lock taken.
ReleaseInner(t) ==
    /\ guard' = (guard /\ ~Cleared(t)) /\ claim' = [claim EXCEPT ![t] = Unclaimed]
    /\ lock' = Left(lock, t) /\ UNCHANGED evaluation

\* The finally clauses: the guard is cleared by whoever set it, then the locks are left.
Release(t) ==
    /\ guard' = (guard /\ ~Cleared(t)) /\ claim' = [claim EXCEPT ![t] = Unclaimed]
    /\ lock' = Left(lock, t) /\ evaluation' = Left(evaluation, t)

\* "reviewer evaluation guard is already active": a ValueError, before any claim.
Collides(t) ==
    /\ setting.guarded /\ guard
    /\ \/ call[t].step = "evaluation" /\ evaluation = Free
       \/ call[t].step = "lock" /\ lock = Free /\ call[t].path # "answer"

SetGuard(t) ==
    IF setting.guarded /\ ~guard
      THEN guard' = TRUE /\ claim' = [claim EXCEPT ![t] = record]
      ELSE UNCHANGED <<guard, claim>>

EnterEvaluation(t) ==
    /\ call[t].step = "evaluation" /\ evaluation = Free /\ ~Collides(t)
    /\ evaluation' = t /\ SetGuard(t)
    /\ lock' = IF lock = Free THEN t ELSE lock
    /\ call' = [call EXCEPT ![t].step = IF lock = Free THEN "held" ELSE "lock"]
    /\ UNCHANGED <<setting, at, turn, books, prep, record>>

EnterReview(t) ==
    /\ call[t].step = "lock" /\ lock = Free /\ ~Collides(t)
    /\ lock' = t /\ SetGuard(t) /\ call' = [call EXCEPT ![t].step = "held"]
    /\ UNCHANGED <<setting, at, turn, books, prep, evaluation, record>>

\* The Reviewer answers; or it fails with one of the errors its callers handle, or with
\* a RuntimeError: the loop's budget, an unavailable specialist, a stale guard.
Results(t) == IF Collides(t) THEN {"error"}
              ELSE IF call[t].step # "held" THEN {}
              ELSE IF Stale(t) THEN {"raised"}
              ELSE {"approved", "rejected", "error", "raised"}

\* review() writes its verdict into the state; callers note a failure.
StatusAfter(r) == IF r = "approved" THEN "approved" ELSE "open"

\* A role is recovered, drained or fails elsewhere: its record gets a new identifier.
RecordMoves ==
    /\ record < MaxMoves /\ guard /\ record' = record + 1
    /\ UNCHANGED <<setting, at, turn, books, prep, reviewing>>

-----------------------------------------------------------------------------
(***************************************************************************)
(* finalize_request, once per turn: the row is closed and everything given *)
(* back in one step; then the finally clause cancels the prepare task and  *)
(* waits for it.  A review that task only had in the making goes on: see   *)
(* MoaFanout, DelegatesEndWithTurn.                                        *)
(***************************************************************************)
\* Mutant: what prepare_executor leased later is forgotten.
ReleaseInitial(t) == held' = [held EXCEPT ![t] = @ \cap {"dynamic"}]

ReleaseAll(t) == held' = [held EXCEPT ![t] = {}]

Finalize(t, exit) ==
    /\ row' = [row EXCEPT ![t] = Exit[exit][1]]
    /\ answer' = [answer EXCEPT ![t] = Exit[exit][2]]
    /\ ReleaseAll(t)

CancelCall(t) == Release(t) /\ call' = [call EXCEPT ![t] = NoCall]
Orphans(t) == call[t].path = "fanout" /\ call[t].step # "done"

CancelPrepare(t) ==
    /\ prep' = [prep EXCEPT ![t] = "none"]
    /\ \/ CancelCall(t)
       \/ Orphans(t) /\ UNCHANGED reviewing

End(t, exit) ==
    /\ Finalize(t, exit) /\ CancelPrepare(t) /\ Go(t, "over")
    /\ turn' = [turn EXCEPT ![t] = Fresh]
    /\ UNCHANGED <<setting, record>>

(***************************************************************************)
(* From the request to the session.                                        *)
(***************************************************************************)
\* Profile, model name and max_tokens are looked at before there is a row.
Refuse(t) ==
    /\ at[t] = "arrive" /\ Go(t, "over")
    /\ answer' = [answer EXCEPT ![t] = "refused"]
    /\ UNCHANGED <<setting, turn, held, row, prep, reviewing, record>>

Accept(t) ==
    /\ at[t] = "arrive" /\ Go(t, "roles")
    /\ \E kind \in Kinds[t] : Learn(t, "kind", kind)
    /\ UNCHANGED <<setting, books, prep, reviewing, record>>

\* CheckRoles has awaited ensure_ready for each role; a required one that is not
\* ready refuses the turn, unless the overflow can stand in for the Executor.
OpenRow(t) ==
    /\ at[t] = "roles"
    /\ \/ End(t, "loading")
       \/ /\ row' = [row EXCEPT ![t] = "open"] /\ Go(t, "admission")
          /\ UNCHANGED <<setting, turn, held, answer, prep, reviewing, record>>

\* The scheduler pins the turn to an Executor or refuses it.
Admit(t) ==
    /\ at[t] = "admission"
    /\ \/ setting.scheduled /\ End(t, "queue")
       \/ /\ Take(t, IF setting.scheduled THEN {"pin"} ELSE {})
          /\ Go(t, "leases") /\ UNCHANGED <<setting, turn, row, answer, prep, reviewing, record>>

\* A turn routed to a remote Executor holds no lease on the local one; one that went
\* remote for a quality retry keeps its pin.
Remote(t) == "executor" \notin held[t]

TakeLeases(t) ==
    /\ at[t] = "leases"
    /\ \/ End(t, "loading")
       \/ /\ \E local \in SUBSET {"executor"} : Take(t, {"roles"} \cup local)
          /\ Go(t, "session") /\ UNCHANGED <<setting, turn, row, answer, prep, reviewing, record>>

\* The disconnect watcher cancels the handler, but there is no try block yet: nothing
\* is given back.
EarlyDisconnect(t) ==
    /\ at[t] \in {"admission", "leases"}
    /\ Go(t, "over") /\ answer' = [answer EXCEPT ![t] = "dropped"]
    /\ UNCHANGED <<setting, turn, held, row, prep, reviewing, record>>

\* Without the scheduler the Executor is chosen twice more, after session() and when
\* the draft is known; a turn that goes remote gives its lease back.
Choose(t) == \/ ~setting.scheduled /\ held' = [held EXCEPT ![t] = @ \ {"executor"}]
             \/ UNCHANGED held

\* session() and route selection; then prepare_executor starts beside the handler, or,
\* in fast mode, runs within it.
Recover(t) ==
    /\ at[t] = "session"
    /\ \/ \E x \in {"repeated", "policy"} : End(t, x)
       \/ /\ Choose(t)
          /\ prep' = [prep EXCEPT ![t] = IF turn[t].kind = "fast" THEN "none" ELSE "running"]
          /\ Go(t, "select") /\ UNCHANGED <<setting, turn, row, answer, reviewing, record>>

\* The draft prompt, the context probe and everything that may make it go remote.
SelectProvider(t) ==
    /\ at[t] = "select"
    /\ \/ End(t, "rejected")                            \* max_tokens, context
       \/ /\ Choose(t) /\ Go(t, "call")
          /\ UNCHANGED <<setting, turn, row, answer, prep, reviewing, record>>

(***************************************************************************)
(* prepare_executor, as the handler sees it.                               *)
(***************************************************************************)
\* ensure_dynamic_roles: the Reviewer is leased already when the request is high risk.
Ensure(t) == Take(t, IF HighRisk(t) THEN {} ELSE {"dynamic"})

PrepReviews(t) ==
    /\ prep[t] = "running" /\ turn[t].status = "none"
    /\ Ensure(t)
    /\ StartReview(t, "fanout") /\ prep' = [prep EXCEPT ![t] = "reviewing"]
    /\ UNCHANGED <<setting, at, turn, row, answer, record>>

\* A review of the fan-out is a task of its own; an orphaned one returns to nobody.
FanoutReviewed(t) ==
    /\ call[t].path = "fanout"
    /\ \E r \in Results(t) :
         /\ call' = [call EXCEPT ![t] =
                       IF Gone(t) THEN NoCall ELSE [@ EXCEPT !.step = "done", !.result = r]]
         /\ IF Gone(t) THEN UNCHANGED turn ELSE Learn(t, "status", StatusAfter(r))
    /\ Release(t) /\ UNCHANGED <<setting, at, books, prep, record>>

\* A failed review ends prepare_executor when it is required, or when its error is no
\* ValueError, HTTPError or StageTimeout.
PrepTakesReview(t) ==
    /\ prep[t] = "reviewing" /\ call[t].step = "done"
    /\ call' = [call EXCEPT ![t] = NoCall]
    /\ prep' = [prep EXCEPT ![t] =
                  IF call[t].result = "raised" \/ (call[t].result = "error" /\ HighRisk(t))
                    THEN "failed" ELSE "running"]
    /\ UNCHANGED <<setting, at, turn, books, evaluation, lock, guard, record, claim>>

\* The deadline of the optional joins.
PrepGivesUp(t) ==
    /\ prep[t] = "reviewing" /\ call[t].step # "done" /\ ~HighRisk(t)
    /\ CancelCall(t) /\ Learn(t, "status", "open")
    /\ prep' = [prep EXCEPT ![t] = "running"]
    /\ UNCHANGED <<setting, at, books, record>>

PrepEnds(t) ==
    /\ \/ prep[t] = "running" /\ prep' = [prep EXCEPT ![t] = "ready"]
       \/ /\ prep[t] \in {"running", "reviewing"}
          /\ prep' = [prep EXCEPT ![t] = "failed"]
    /\ UNCHANGED <<setting, at, turn, books, reviewing, record>>

(***************************************************************************)
(* The Executor.                                                           *)
(***************************************************************************)
Failures(t) == {"timeout", "backend", "rejected"}
                \cup (IF Remote(t) THEN {"frontier"} ELSE {})   \* or the overflow Executor

\* The call, and the second one when the local Executor's answer is unusable; a pinned
\* local Executor that says 400 gives its pin back and the overflow takes over.
CallExecutor(t) ==
    /\ at[t] = "call"
    /\ \/ \E x \in Failures(t) : End(t, x)
       \/ /\ setting.scheduled /\ ~Remote(t)
          /\ held' = [held EXCEPT ![t] = @ \ {"pin", "executor"}]
          /\ UNCHANGED <<setting, at, turn, row, answer, prep, reviewing, record>>
       \/ Go(t, "join") /\ UNCHANGED <<setting, turn, books, prep, reviewing, record>>

\* apply_metadata and a second look for reasons to judge.  A truncated answer is sent
\* unjudged, whatever was asked.
Verdicts(t, asked) ==
    \/ Learn(t, "asked", TRUE) /\ Go(t, "judging")
    \/ Learn(t, "asked", FALSE) /\ Go(t, "gate")        \* truncated
    \/ ~asked /\ UNCHANGED turn /\ Go(t, "gate")

\* The answer: tool calls may exceed the loop's budget; a Judge that is asked wants a
\* Reviewer, which may have to be leased; an approval given during the fan-out counts.
CheckAnswer(t) ==
    \/ \E x \in {"repeated", "loading"} : End(t, x)
    \/ \E asked \in BOOLEAN :
         /\ IF asked THEN Ensure(t) ELSE UNCHANGED held
         /\ \/ /\ turn[t].status # "approved"
               /\ Learn(t, "asked", asked) /\ StartReview(t, "answer") /\ Go(t, "review")
            \/ /\ turn[t].status = "approved" \/ ~asked
               /\ Verdicts(t, asked) /\ UNCHANGED reviewing
         /\ prep' = [prep EXCEPT ![t] = "none"]
         /\ UNCHANGED <<setting, row, answer, record>>

\* What prepare_executor may raise; other causes answer 502 and 503 as well.
PrepFailures == {"repeated", "policy", "frontier", "timeout", "backend"}

\* What the delegates found may be put to the Executor once more.
JoinPrepare(t) ==
    /\ at[t] = "join"
    /\ \/ prep[t] = "failed" /\ \E x \in PrepFailures : End(t, x)
       \/ prep[t] = "ready" /\ Go(t, "synthesis") /\ prep' = [prep EXCEPT ![t] = "none"]
            /\ UNCHANGED <<setting, turn, books, reviewing, record>>
       \/ prep[t] = "ready" /\ CheckAnswer(t)
       \/ prep[t] = "none" /\ CheckAnswer(t)       \* fast mode

Synthesize(t) ==
    /\ at[t] = "synthesis"
    /\ (\E x \in Failures(t) : End(t, x)) \/ CheckAnswer(t)

(***************************************************************************)
(* The answer is reviewed, judged, corrected.                              *)
(***************************************************************************)
\* What a caller of review() makes of an error it does not absorb.
ReviewFails(t, r) ==
    \/ r = "error"  /\ \E x \in {"backend", "timeout"} : End(t, x)
    \/ r = "raised" /\ \E x \in {"repeated", "internal"} : End(t, x)

\* A review that failed stops a high-risk turn only; a rejection stops none.
Review(t) ==
    /\ at[t] = "review"
    /\ \E r \in Results(t) :
         IF r = "raised" \/ (r = "error" /\ HighRisk(t)) THEN ReviewFails(t, r)
         ELSE /\ Verdicts(t, turn[t].asked) /\ CancelCall(t) /\ UNCHANGED <<setting, books, prep, record>>

\* A verdict of the Judge, or of the review that stands in for it.
Approves(t) == /\ Learn(t, "approved", TRUE) /\ Go(t, "gate")
WantsEdits(t) == ~turn[t].second /\ Go(t, "expert") /\ UNCHANGED turn

Judge(t) ==
    /\ at[t] = "judging"
    /\ \/ (Approves(t) \/ WantsEdits(t)) /\ UNCHANGED <<setting, books, prep, reviewing, record>>
       \/ End(t, "correction")
       \/ \E x \in {"timeout", "backend", "repeated"} : End(t, x)
       \/ HighRisk(t) /\ End(t, "judge")               \* a provider that failed
       \/ /\ ~HighRisk(t) /\ StartReview(t, "fallback") /\ Go(t, "stand_in")
          /\ UNCHANGED <<setting, turn, books, prep, record>>

StandIn(t) ==
    /\ at[t] = "stand_in"
    /\ \E r \in Results(t) :
         \/ ReviewFails(t, r)
         \/ r = "rejected" /\ turn[t].second /\ End(t, "correction")
         \/ /\ (r = "approved" /\ Approves(t)) \/ (r = "rejected" /\ WantsEdits(t))
            /\ CancelCall(t) /\ UNCHANGED <<setting, books, prep, record>>

FrontierB(t) ==
    /\ at[t] = "expert"
    /\ \/ End(t, "frontier")
       \/ Go(t, "correct") /\ UNCHANGED <<setting, turn, books, prep, reviewing, record>>

\* One bounded correction, which may not call tools nor be cut, and its review.
Correct(t) ==
    /\ at[t] = "correct"
    /\ \/ \E x \in Failures(t) \cup {"correction"} : End(t, x)
       \/ /\ StartReview(t, "correction") /\ Go(t, "targeted")
          /\ UNCHANGED <<setting, turn, books, prep, record>>

\* Mutant: a correction that the Reviewer rejects is sent unless the Judge rechecks it.
TargetedReviewDone(t) ==
    /\ at[t] = "targeted"
    /\ \E r \in Results(t) :
         \/ ReviewFails(t, r)
         \/ /\ r \in {"approved", "rejected"} /\ Go(t, "gate") /\ CancelCall(t)
            /\ UNCHANGED <<setting, turn, books, prep, record>>

TargetedReview(t) ==
    /\ at[t] = "targeted"
    /\ \E r \in Results(t) :
         \/ ReviewFails(t, r)
         \/ r = "rejected" /\ End(t, "correction")
         \/ /\ r = "approved" /\ CancelCall(t) /\ UNCHANGED <<setting, books, prep, record>>
            /\ Approves(t) \/ (Learn(t, "second", TRUE) /\ Go(t, "judging"))

\* Claims of completion are checked against the evidence; then the client is answered.
OutputGate(t) == at[t] = "gate" /\ (End(t, "completed") \/ End(t, "backend"))

(***************************************************************************)
(* A turn that needs a local Judge ends; an operator switches the profile  *)
(* and has the session judged.                                             *)
(***************************************************************************)
Adjudicate(t) ==
    /\ at[t] = "over" /\ answer[t] = "503"
    /\ Go(t, "adjudicating") /\ Take(t, {"roles"})
    /\ UNCHANGED <<setting, turn, row, answer, prep, reviewing, record>>

Adjudicated(t) ==
    /\ at[t] = "adjudicating"
    /\ \E x \in {"judged", "error"} : answer' = [answer EXCEPT ![t] = x]
    /\ ReleaseAll(t) /\ Go(t, "over")
    /\ UNCHANGED <<setting, turn, row, prep, reviewing, record>>

-----------------------------------------------------------------------------

\* The watcher cancels the handler where it waits.
Disconnect(t) ==
    /\ at[t] \in {"select", "call", "join", "synthesis", "review", "judging", "stand_in",
                  "expert", "correct", "targeted"}
    /\ End(t, "cancelled")

Handler(t) ==
    \/ Refuse(t) \/ Accept(t) \/ OpenRow(t) \/ Admit(t) \/ TakeLeases(t) \/ Recover(t)
    \/ SelectProvider(t) \/ CallExecutor(t) \/ JoinPrepare(t) \/ Synthesize(t)
    \/ Review(t) \/ Judge(t) \/ StandIn(t) \/ FrontierB(t)
    \/ Correct(t) \/ TargetedReview(t) \/ OutputGate(t) \/ Adjudicated(t)
Prepare(t) == PrepTakesReview(t) \/ PrepEnds(t)
ReviewCall(t) == EnterEvaluation(t) \/ EnterReview(t) \/ FanoutReviewed(t)

Rest == (\A t \in Turns : at[t] = "over" /\ call[t] = NoCall) /\ UNCHANGED vars

Next == \/ \E t \in Turns : \/ Handler(t) \/ Prepare(t) \/ ReviewCall(t)
                            \/ PrepReviews(t) \/ PrepGivesUp(t)
                            \/ Adjudicate(t) \/ EarlyDisconnect(t) \/ Disconnect(t)
        \/ RecordMoves \/ Rest

\* Every await of the handler, of its task and of a review is bounded by a timeout.
Spec == /\ Init /\ [][Next]_vars
        /\ \A t \in Turns : WF_vars(Handler(t)) /\ WF_vars(Prepare(t)) /\ WF_vars(ReviewCall(t))

-----------------------------------------------------------------------------

\* Whatever exit a turn took once it was recovered, and whatever refusal before, it has
\* given back its pin and leases, stopped its task, closed its row, and the row says what
\* the client got (finalize_request).  A client that goes earlier leaves it all: an early
\* disconnect is the one exit this excludes.
EndedTurnsHoldNothing ==
    \A t \in Turns :
        at[t] = "over" /\ answer[t] # "dropped" =>
            /\ held[t] = {} /\ prep[t] = "none" /\ row[t] # "open"
            /\ evaluation # t /\ (lock = t => call[t].path = "fanout")
            /\ (row[t] = "completed") <=> (answer[t] = "200")
            /\ answer[t] = "gone" => row[t] = "cancelled"

\* The guard that keeps the Reviewer's unit from being unloaded is set exactly while a
\* review is under way, over collisions, errors and cancellations, unless the record
\* moved under one (set_guard's expected_transition_id).
ReviewsAreGuarded ==
    setting.guarded /\ record = 0 => (guard <=> (\E t \in Turns : call[t].step = "held"))

\* An answer that was to be judged and is sent was approved by the Judge, or by a review in its place,
\* or was corrected and the correction approved - and, when the Judge is asked again,
\* by the Judge.
AnswersAreApproved ==
    [][\A t \in Turns :
         at[t] = "gate" /\ answer'[t] = "200" /\ turn[t].asked =>
             turn[t].approved]_vars

\* Every turn is answered, also those that wait for each other's reviews.
TurnsEnd == \A t \in Turns : []<>(at[t] = "over")

\* Two reviews at once are served one after the other, none is refused because of the
\* other (violated: the callers outside the evaluation lock set the guard too).
ReviewsDoNotCollide == \A t \in Turns : ~Collides(t)

=============================================================================
