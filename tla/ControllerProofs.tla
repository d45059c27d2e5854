-------------------------- MODULE ControllerProofs --------------------------
(***************************************************************************)
(* The Controller (gateway/src/dgx_moa/controller.py), for every set of    *)
(* turns, every budget and every limit, with or without disconnects and    *)
(* restarts: what the Executor is told when the roles fan out (MoaFanout), *)
(* and what a session's engineering loop promises over its turns           *)
(* (AgentLoop).  The two specifications share no variable and each has an  *)
(* invariant of its own.                                                   *)
(*                                                                         *)
(* The projection is written by the coroutine and by the Reviewer's task,  *)
(* so what is said of it at the end needs to know, at every stage, who can *)
(* still write: the Reviewer's task is over once it was joined, a role is  *)
(* credited only from the stage that joins it and only when its task ended *)
(* well, a loss that StartReview has not seen came after it and lowered    *)
(* the confidence, and a rejection is unseated only by the Frontier's.     *)
(*                                                                         *)
(* A session is a record that each turn copies, changes and writes back    *)
(* whole.  So what is invariant of the stored session has to hold of every *)
(* copy too, and every rule of loop_engineering.py is shown to keep it of  *)
(* the session it is given, whoever else works on another copy.            *)
(***************************************************************************)
EXTENDS AgentLoop, MoaFanout, WellFoundedInduction, TLAPS

(***************************************************************************)
(* prepare_executor: the invariant of the fan-out.                         *)
(***************************************************************************)

\* The stages before the confidence is first derived, before the Reviewer is
\* joined, before the Frontier is joined, and after.
Early      == {"admission", "fanout", "reason", "await_reasoner", "stand_in", "review"}
ToReviewer == Early \cup {"join_planner", "replan", "join_reviewer"}
ToFrontier == ToReviewer \cup {"join_frontier"}
Late       == {"judge", "settle", "done"}

Typed ==
    /\ turn \in Shape
    /\ pc \in ToFrontier \cup Late \cup Ended
    /\ task \in [Roles -> {"none"} \cup Live \cup Finished]
    /\ credited = [r \in Roles |-> credited[r]]

\* Nobody is credited before it was joined, and a role that was has ended well.
CreditFits ==
    /\ pc \in ToReviewer => credited["reviewer"] = "none"
    /\ pc \in ToFrontier => credited["frontier"] = "none"
    /\ \A r \in {"reviewer", "frontier"} : credited[r] # "none" => task[r] = "ok"

\* Once joined, the Reviewer's task writes nothing any more, and a Frontier the
\* client insists on was not asked or has answered; it is lost to a turn that goes
\* on only when its invocations are spent.
JoinedIsOver ==
    /\ pc \in {"join_frontier"} \cup Late => task["reviewer"] \notin Live
    /\ pc \in Late /\ turn.insists => task["frontier"] \in {"none", "ok"}
    /\ pc \in ToFrontier \cup Late /\ turn.insists /\ "frontier" \in lost
         => turn.frontier = "spent"

\* Only the Frontier can be lost before the confidence is derived; any other loss
\* lowered it.
LossFits ==
    /\ pc \in Early => lost \subseteq {"frontier"}
    /\ pc \in {"join_planner", "replan", "join_reviewer", "join_frontier"} \cup Late
         => (lost \subseteq {"frontier"} \/ confidence \in {"low", "conflicted"})

\* What is lost of the roles a high risk requires keeps the turn from "done".
RequiredFits == pc = "done" /\ turn.high => lost \cap {"planner", "reviewer"} = {}

\* A rejection stands: until the Reviewer is joined, and after if it was credited.
RejectionFits ==
    /\ report = "rejected" /\ (pc \in ToReviewer \/ credited["reviewer"] # "none")
         => pc \in Ended \ {"done"} \/ Rejected
    /\ pc \in Late /\ credited["frontier"] # "none" /\ mode = "code_review" /\ opinion = "material"
         => review = "rejected_frontier" /\ correction
    /\ pc = "done" /\ Rejected => phase = "correction"

DoneFits == pc = "done" /\ lost # {} => confidence \in {"low", "conflicted"}

FanoutInv == /\ Typed /\ CreditFits /\ JoinedIsOver /\ LossFits /\ RequiredFits
        /\ RejectionFits /\ DoneFits
-----------------------------------------------------------------------------

LEMMA InitFits == Init => FanoutInv
BY FanoutAssumption, SMT
DEF Init, Roles, FanoutInv, Typed, CreditFits, JoinedIsOver, LossFits, RequiredFits, RejectionFits,
    DoneFits, Early, ToReviewer, ToFrontier, Late, Ended, Live, Finished, Rejected

\* What every lemma below needs: the stages and the states of a task, which are
\* finite sets of names, and the parts of the invariant.
USE DEF Roles, Live, Finished, Ended, Early, ToReviewer, ToFrontier, Late,
        FanoutInv, Typed, CreditFits, JoinedIsOver, LossFits, RequiredFits, RejectionFits, DoneFits,
        Rejected, findings

(***************************************************************************)
(* Before the joins: nobody is credited but the Reasoner, and only the     *)
(* Frontier's degradation is a loss.                                       *)
(***************************************************************************)
LEMMA StartFanoutKeeps ==
    ASSUME FanoutInv, pc \in {"fanout", "reason"}, NEW next \in {"review", "await_reasoner"},
           StartFanout(next), UNCHANGED <<turn, overdue, retried, roles>>
    PROVE  FanoutInv'
<1>1. turn.frontier \in {"off", "spent", "on"}
  BY DEF Shape
<1>2. Degrades /\ ~FrontierRefused /\ turn.insists => turn.frontier = "spent"
  BY <1>1 DEF Degrades, FrontierRefused, FrontierLeft
<1> QED
  BY <1>2, SMT DEF StartFanout, CancelFanout, Raise, FanoutTasks

LEMMA BeforeTheJoinsKeeps ==
    ASSUME FanoutInv,
           Admission \/ Fanout \/ Reason \/ ReasonerAnswers \/ StandIn \/ StartReview
    PROVE  FanoutInv'
<1>1. CASE Admission
  BY <1>1, SMT DEF Admission, Raise
<1>2. CASE Fanout
  BY <1>2, StartFanoutKeeps DEF Fanout
<1>3. CASE Reason
  BY <1>3, StartFanoutKeeps, SMT DEF Reason, Raise
<1>4. CASE ReasonerAnswers
  BY <1>4, SMT DEF ReasonerAnswers, Contributed, Retry, CancelFanout, Raise, Handled
<1>5. CASE StandIn
  BY <1>5, SMT DEF StandIn, Contributed, CancelFanout, Raise
<1>6. CASE StartReview
  BY <1>6, SMT DEF StartReview, NeedsReviewer, Raise
<1> QED  BY <1>1, <1>2, <1>3, <1>4, <1>5, <1>6

(***************************************************************************)
(* The delegates: a task that runs was not joined, so its role is credited *)
(* with nothing that it could still take back.                             *)
(***************************************************************************)
LEMMA BeginKeeps ==
    ASSUME FanoutInv, NEW r \in Roles, Begin(r)
    PROVE  FanoutInv'
BY SMT DEF Begin

LEMMA EndKeeps ==
    ASSUME FanoutInv, NEW r \in Roles, End(r)
    PROVE  FanoutInv'
<1>1. task[r] = "running" /\ credited[r] # "none" => r \notin {"reviewer", "frontier"}
  BY SMT
<1>2. task' = [task EXCEPT ![r] = task'[r]] /\ task'[r] \in Finished
  BY SMT DEF End, IsRunning, Failures
<1>3. UNCHANGED <<turn, pc, credited, mode, correction, lost, confidence>>
  BY DEF End
<1>4. Typed' /\ CreditFits' /\ JoinedIsOver' /\ LossFits' /\ RequiredFits' /\ DoneFits'
  BY <1>1, <1>2, <1>3, SMT DEF End, IsRunning
<1>5. RejectionFits'
  <2>1. CASE r = "reviewer" /\ task'[r] = "ok"
    <3>1. Reviewed
      BY <2>1, SMT DEF End, Failures
    <3>2. pc \notin {"join_frontier"} \cup Late
      BY <2>1, SMT DEF End, IsRunning
    <3> QED  BY <1>3, <3>1, <3>2, SMT DEF Reviewed
  <2>2. CASE r = "frontier" /\ task'[r] = "ok"
    <3>1. credited["frontier"] = "none"
      BY <2>2, SMT DEF End, IsRunning
    <3> QED  BY <1>3, <2>2, <3>1, SMT DEF End, Consulted, Failures
  <2>3. CASE ~(r \in {"reviewer", "frontier"} /\ task'[r] = "ok")
    <3>1. UNCHANGED <<report, review, phase, opinion>>
      BY <1>2, <2>3, SMT DEF End, IsRunning
    <3> QED  BY <1>3, <3>1, SMT
  <2> QED  BY <2>1, <2>2, <2>3
<1> QED  BY <1>4, <1>5

(***************************************************************************)
(* The joins.                                                              *)
(***************************************************************************)
LEMMA JoinPlannerKeeps ==
    ASSUME FanoutInv, JoinPlanner \/ Replan
    PROVE  FanoutInv'
<1>1. CASE JoinPlanner
  BY <1>1, SMT DEF JoinPlanner, PlanIsMade, PlannerFails, Go, Raise, Fails, Taken, GivenUp,
                   Cancel, Escapes, Loses, Handled
<1>2. CASE Replan
  BY <1>2, SMT DEF Replan, PlanIsMade, PlannerFails, Go, Raise, Loses
<1> QED  BY <1>1, <1>2

\* A review that is taken keeps the verdict; a Reviewer that fails is not credited,
\* so its verdict counts no more, and the loss lowers the confidence.
LEMMA JoinReviewerKeeps ==
    ASSUME FanoutInv, JoinReviewer
    PROVE  FanoutInv'
BY SMT DEF JoinReviewer, ReviewIsTaken, ReviewerFails, Consult, Go, Raise, Fails, Taken, GivenUp,
           Cancel, Escapes, Loses, Handled

\* A material code review sets verdict and correction in the step that credits it.
LEMMA JoinFrontierKeeps ==
    ASSUME FanoutInv, JoinFrontier
    PROVE  FanoutInv'
<1>1. CASE Taken("frontier") /\ task["frontier"] = "ok"
  BY <1>1, SMT DEF JoinFrontier, FrontierRules, Go, Raise, Fails, Taken, GivenUp, Cancel, Escapes,
                   Handled, Loses
<1>2. CASE task["frontier"] # "ok"
  BY <1>2, SMT DEF JoinFrontier, Go, Raise, Fails, Taken, GivenUp, Cancel, Escapes, Loses,
                   Handled, Required
<1> QED  BY <1>1, <1>2 DEF Taken

\* The end: a required loss raises, a rejection sets the phase, and a Frontier that
\* was lost lowers the confidence that was derived before it was.
LEMMA SettleKeeps ==
    ASSUME FanoutInv, Settle
    PROVE  FanoutInv'
BY SMT DEF Settle, Unfit, Proceed, Go, Raise

LEMMA OthersKeep ==
    ASSUME FanoutInv,
           \/ DeadlinePasses \/ Disconnect \/ RemoteJudge \/ UNCHANGED vars
           \/ \E r \in Joined : Wait(r)
    PROVE  FanoutInv'
<1>1. CASE DeadlinePasses \/ RemoteJudge \/ UNCHANGED vars
  BY <1>1, SMT DEF DeadlinePasses, RemoteJudge, Go, Raise, vars
<1>2. CASE Disconnect
  BY <1>2, SMT DEF Disconnect
<1>3. CASE \E r \in Joined : Wait(r)
  BY <1>3, SMT DEF Wait
<1> QED  BY <1>1, <1>2, <1>3

-----------------------------------------------------------------------------

HIDE DEF FanoutInv

LEMMA FanoutInvariance == Spec => []FanoutInv
<1>1. FanoutInv /\ [Next]_vars => FanoutInv'
  <2> SUFFICES ASSUME FanoutInv, [Next]_vars
               PROVE  FanoutInv'
    OBVIOUS
  <2>1. CASE Coroutine
    BY <2>1, BeforeTheJoinsKeeps, JoinPlannerKeeps, JoinReviewerKeeps, JoinFrontierKeeps,
       SettleKeeps, OthersKeep DEF Coroutine
  <2>2. CASE DeadlinePasses \/ Disconnect \/ Rest \/ UNCHANGED vars
    BY <2>2, OthersKeep DEF Rest
  <2>3. CASE \E r \in Roles : Delegate(r)
    BY <2>3, BeginKeeps, EndKeeps DEF Delegate
  <2> QED  BY <2>1, <2>2, <2>3 DEF Next
<1> QED  BY <1>1, InitFits, PTL DEF Spec

\* The projection admits what it lacks: no required role is missing (but a Frontier
\* whose invocations are spent), no loss is hidden behind a high confidence, no
\* rejection is outvoted (prepare_executor, start_fanout, await_fan_in).
THEOREM TheProjectionAdmitsItsLosses == Spec => []ProjectionIsHonest
<1>1. FanoutInv => ProjectionIsHonest
  BY SMT DEF FanoutInv, ProjectionIsHonest, RequiredIsNotSkipped, ConfidenceAdmitsLoss, RejectionsStand
<1> QED  BY <1>1, FanoutInvariance, PTL

HIDE DEF Roles, Live, Finished, Ended, Early, ToReviewer, ToFrontier, Late,
         Typed, CreditFits, JoinedIsOver, LossFits, RequiredFits, RejectionFits, DoneFits,
         Rejected, findings

-----------------------------------------------------------------------------
(***************************************************************************)
(* The engineering loop: what holds of a session, stored or being worked   *)
(* on.                                                                     *)
(***************************************************************************)

\* The verdicts a loop without progress may have: no rule lifts them and leaves
\* the idle count.
Stuck == {"NO_PROGRESS", "DUPLICATE_FAILURE_LIMIT"}

SessionTyped(c) ==
    /\ c \in Session
    /\ c.iteration + c.left["iterations"] <= Budget["iterations"]
    /\ c.ended <= c.iteration

IdleFits(c) == c.idle = IdleLimit => c.live /\ c.reason \in Stuck

\* An approval stands only while no correction is open and nothing changed that
\* the review did not know of.
ApprovalFits(c, cs) ==
    c.review = "approved" =>
        /\ c.correct = "no"
        /\ \A i \in c.observed : cs[i] = "change" => i \in c.reviewed

\* What a session has observed was run, and what was run when its turn began it
\* has observed.
CallsFit(c, cs) == c.known \subseteq c.observed /\ c.observed \subseteq Ran(cs)

SessionFits(c) == SessionTyped(c) /\ IdleFits(c) /\ ApprovalFits(c, calls) /\ CallsFit(c, calls)

\* A step that is no completion.
Mild(c, d) ==
    /\ d.reason = "SUCCESS" => c.reason = "SUCCESS"
    /\ d.final = "completed" => c.final = "completed"

CallsTyped == calls \in Seq({"sent", "read", "change", "fail"}) /\ Len(calls) <= MaxCalls


\* What the parts of SessionFits speak of, left alone.
CountersKept(c, d) == d.iteration = c.iteration /\ d.left = c.left /\ d.ended = c.ended
IdleKept(c, d)     == d.idle = c.idle /\ d.live = c.live /\ d.reason = c.reason
ReviewKept(c, d)   == d.review = c.review /\ d.correct = c.correct /\ d.reviewed = c.reviewed
CallsKept(c, d)    == d.observed = c.observed /\ d.known = c.known

USE LoopAssumption

LEMMA LimitTyped == IdleLimit \in Nat /\ IdleLimit > 0 /\ 0 \in 0..IdleLimit
OBVIOUS

\* The four parts are about disjoint groups of fields.
LEMMA KeptFits ==
    ASSUME NEW c, SessionFits(c), NEW d \in Session
    PROVE  /\ CountersKept(c, d) => SessionTyped(d)
           /\ IdleKept(c, d) => IdleFits(d)
           /\ ReviewKept(c, d) /\ CallsKept(c, d) => ApprovalFits(d, calls)
           /\ CallsKept(c, d) => CallsFit(d, calls)
BY DEF SessionFits, SessionTyped, IdleFits, ApprovalFits, CallsFit,
       CountersKept, IdleKept, ReviewKept, CallsKept

LEMMA TerminateFits ==
    ASSUME NEW c, SessionFits(c), NEW reason \in Reasons \ {"none"}
    PROVE  /\ SessionFits(Terminate(c, reason))
           /\ reason # "SUCCESS" => Mild(c, Terminate(c, reason))
<1>1. CASE c.live /\ c.reason = "none"
  <2> DEFINE d == [c EXCEPT !.reason = reason]
  <2>1. c \in Session
    BY DEF SessionFits, SessionTyped
  <2>2. d \in Session
    BY <2>1 DEF Session
  <2>3. /\ CountersKept(c, d) /\ ReviewKept(c, d) /\ CallsKept(c, d)
        /\ d.idle = c.idle /\ d.live = c.live /\ d.final = c.final /\ d.reason = reason
    BY <2>1 DEF Session, CountersKept, ReviewKept, CallsKept
  <2>4. IdleFits(d)
    BY <2>3, <1>1 DEF SessionFits, IdleFits, Stuck
  <2>5. Terminate(c, reason) = d
    BY <1>1 DEF Terminate
  <2> QED BY <2>2, <2>3, <2>4, <2>5, KeptFits DEF SessionFits, Mild
<1>2. CASE ~(c.live /\ c.reason = "none")
  BY <1>2 DEF Terminate, Mild
<1> QED BY <1>1, <1>2

LEMMA BlockFits ==
    ASSUME NEW c, SessionFits(c)
    PROVE  /\ SessionFits(Block(c)) /\ Mild(c, Block(c)) /\ CallsKept(c, Block(c))
           /\ Block(c).final = "blocked"
<1> DEFINE d == Block(c)
<1>1. c \in Session
  BY DEF SessionFits, SessionTyped
<1>2. d \in Session
  BY <1>1 DEF Session, Block, Phases, Finals
<1>3. /\ CountersKept(c, d) /\ IdleKept(c, d) /\ ReviewKept(c, d) /\ CallsKept(c, d)
      /\ d.final = "blocked"
  BY <1>1 DEF Session, Block, CountersKept, IdleKept, ReviewKept, CallsKept
<1> QED BY <1>2, <1>3, KeptFits DEF SessionFits, Mild, IdleKept

LEMMA NoProgressFits ==
    ASSUME NEW c, SessionFits(c)
    PROVE  SessionFits(NoProgress(c)) /\ Mild(c, NoProgress(c))
<1>1. CASE ~c.live
  BY <1>1 DEF NoProgress, Mild
<1>2. CASE c.live
  <2> DEFINE idle   == IF c.idle < IdleLimit THEN c.idle + 1 ELSE c.idle
             reason == IF c.idle + 1 >= IdleLimit THEN "NO_PROGRESS" ELSE c.reason
             d      == [c EXCEPT !.idle = idle, !.reason = reason]
  <2>1. c \in Session /\ c.idle \in 0..IdleLimit /\ c.reason \in Reasons
    BY DEF SessionFits, SessionTyped, Session
  <2>2. idle \in 0..IdleLimit /\ reason \in Reasons
    BY <2>1 DEF Reasons
  <2>3. idle = IdleLimit => reason = "NO_PROGRESS"
    BY <2>1
  <2>4. reason = "SUCCESS" => c.reason = "SUCCESS"
    OBVIOUS
  <2>5. NoProgress(c) = d
    BY <1>2, <2>1 DEF NoProgress
  <2> HIDE DEF idle, reason
  <2>6. d \in Session
    BY <2>1, <2>2 DEF Session
  <2>7. /\ CountersKept(c, d) /\ ReviewKept(c, d) /\ CallsKept(c, d)
        /\ d.live = c.live /\ d.idle = idle /\ d.reason = reason /\ d.final = c.final
    BY <2>1 DEF Session, CountersKept, ReviewKept, CallsKept
  <2>8. IdleFits(d)
    BY <1>2, <2>3, <2>7 DEF IdleFits, Stuck
  <2> QED BY <2>4, <2>5, <2>6, <2>7, <2>8, KeptFits DEF SessionFits, Mild
<1> QED BY <1>1, <1>2

LEMMA ConsumeFits ==
    ASSUME NEW c, SessionFits(c), NEW kind \in Kinds
    PROVE  /\ SessionFits(Consume(c, kind)) /\ Mild(c, Consume(c, kind))
           /\ Admits(c, kind) => Consume(c, kind).final = c.final
<1>1. CASE ~c.live
  BY <1>1 DEF Consume, Mild
<1>2. CASE c.live /\ Admits(c, kind)
  <2> DEFINE left == [c.left EXCEPT ![kind] = @ - 1]
             d    == [c EXCEPT !.left = left]
  <2>1. /\ c \in Session /\ c.left \in [Kinds -> Nat] /\ c.left[kind] > 0
        /\ c.iteration \in Nat
    BY <1>2 DEF SessionFits, SessionTyped, Session, Admits
  <2>2. left \in [Kinds -> Nat] /\ left["iterations"] <= c.left["iterations"]
    BY <2>1 DEF Kinds
  <2>3. Consume(c, kind) = d
    BY <1>2, <2>1 DEF Consume
  <2> HIDE DEF left
  <2>4. d \in Session
    BY <2>1, <2>2 DEF Session
  <2>5. /\ IdleKept(c, d) /\ ReviewKept(c, d) /\ CallsKept(c, d)
        /\ d.left = left /\ d.iteration = c.iteration /\ d.ended = c.ended /\ d.final = c.final
    BY <2>1 DEF Session, IdleKept, ReviewKept, CallsKept
  <2>6. SessionTyped(d)
    BY <2>1, <2>2, <2>4, <2>5, "iterations" \in Kinds DEF SessionFits, SessionTyped, Kinds
  <2> QED BY <2>3, <2>4, <2>5, <2>6, KeptFits DEF SessionFits, Mild, IdleKept
<1>3. CASE c.live /\ ~Admits(c, kind)
  <2>1. Consume(c, kind) = Block(Terminate(c, "BUDGET_EXHAUSTED"))
    BY <1>3 DEF Consume
  <2>2. "BUDGET_EXHAUSTED" \in Reasons \ {"none"}
    BY DEF Reasons
  <2> QED BY <1>3, <2>1, <2>2, TerminateFits, BlockFits DEF Mild
<1> QED BY <1>1, <1>2, <1>3
LEMMA ResumeFits ==
    ASSUME NEW c, SessionFits(c)
    PROVE  SessionFits(Resume(c)) /\ Mild(c, Resume(c))
<1> DEFINE d == Resume(c)
<1>1. c \in Session
  BY DEF SessionFits, SessionTyped
<1>2. d \in Session
  <2> DEFINE shown == IF c.phase = "BLOCKED" THEN "REPLANNING" ELSE c.phase
  <2>1. shown \in Phases
    BY <1>1 DEF Session, Phases
  <2>2. d = [c EXCEPT !.reason = "none", !.idle = 0, !.stale = 0, !.final = "none", !.phase = shown]
    BY <1>1 DEF Resume, Session
  <2>3. "none" \in Reasons /\ "none" \in Finals /\ 0 \in 0..3 /\ 0 \in 0..IdleLimit
    BY LimitTyped DEF Finals, Reasons
  <2> HIDE DEF d, shown
  <2> QED BY <1>1, <2>1, <2>2, <2>3 DEF Session
<1>3. /\ CountersKept(c, d) /\ ReviewKept(c, d) /\ CallsKept(c, d)
      /\ d.idle = 0 /\ d.final = "none" /\ d.reason = "none"
  BY <1>1 DEF Session, Resume, CountersKept, ReviewKept, CallsKept
<1>4. IdleFits(d)
  BY <1>3, LimitTyped DEF IdleFits
<1> QED BY <1>2, <1>3, <1>4, KeptFits DEF SessionFits, Mild

Evidence == {"read", "failure", "expert", "outage", "finding", "approved", "rejected"}

LEMMA NoteFits ==
    ASSUME NEW c, SessionFits(c), NEW kind \in Evidence
    PROVE  /\ SessionFits(Note(c, kind)) /\ Mild(c, Note(c, kind))
           /\ CallsKept(c, Note(c, kind)) /\ Note(c, kind).final = c.final
<1>1. CASE ~c.live \/ kind \in c.seen
  BY <1>1 DEF Note, Mild, CallsKept
<1>2. CASE ~(~c.live \/ kind \in c.seen)
  <2> DEFINE seen == c.seen \cup {kind}
             d    == [c EXCEPT !.seen = seen, !.fresh = TRUE, !.idle = 0]
  <2>1. c \in Session /\ seen \subseteq Evidence
    BY DEF SessionFits, SessionTyped, Session, Evidence
  <2>2. d \in Session
    <3> HIDE DEF seen
    <3> QED BY <2>1, LimitTyped DEF Session, Evidence
  <2>3. /\ CountersKept(c, d) /\ ReviewKept(c, d) /\ CallsKept(c, d)
        /\ d.idle = 0 /\ d.final = c.final /\ d.reason = c.reason
    BY <2>1 DEF Session, CountersKept, ReviewKept, CallsKept
  <2>4. IdleFits(d)
    BY <2>3, LimitTyped DEF IdleFits
  <2>5. Note(c, kind) = d
    BY <1>2, <2>1 DEF Note, Session
  <2> QED BY <2>2, <2>3, <2>4, <2>5, KeptFits DEF SessionFits, Mild
<1> QED BY <1>1, <1>2

LEMMA NoteNewFits ==
    ASSUME NEW c, SessionFits(c)
    PROVE  /\ SessionFits(NoteNew(c)) /\ Mild(c, NoteNew(c))
           /\ NoteNew(c).idle # IdleLimit
           /\ ReviewKept(c, NoteNew(c)) /\ CallsKept(c, NoteNew(c))
           /\ NoteNew(c).met = c.met /\ NoteNew(c).final = c.final
           /\ NoteNew(c).reason = c.reason
<1>1. CASE ~c.live
  BY <1>1 DEF NoteNew, Mild, ReviewKept, CallsKept, SessionFits, IdleFits
<1>2. CASE c.live
  <2> DEFINE d == [c EXCEPT !.fresh = TRUE, !.idle = 0]
  <2>1. c \in Session
    BY DEF SessionFits, SessionTyped
  <2>2. d \in Session
    BY <2>1, LimitTyped DEF Session
  <2>3. /\ CountersKept(c, d) /\ ReviewKept(c, d) /\ CallsKept(c, d)
        /\ d.idle = 0 /\ d.final = c.final /\ d.reason = c.reason /\ d.met = c.met
    BY <2>1 DEF Session, CountersKept, ReviewKept, CallsKept
  <2>4. IdleFits(d)
    BY <2>3, LimitTyped DEF IdleFits
  <2>5. NoteNew(c) = d
    BY <1>2 DEF NoteNew
  <2> QED BY <2>2, <2>3, <2>4, <2>5, LimitTyped, KeptFits DEF SessionFits, Mild
<1> QED BY <1>1, <1>2

LEMMA BeginIterationFits ==
    ASSUME NEW c, SessionFits(c), NEW expired \in BOOLEAN
    PROVE  SessionFits(BeginIteration(c, expired))
<1>1. CASE c.reason # "none"
  BY <1>1 DEF BeginIteration
<1>2. CASE c.reason = "none"
  <2> DEFINE clock == c.clock /\ ~expired
             d == [c EXCEPT !.clock = clock]
             e == [d EXCEPT !.iteration = @ + 1, !.left["iterations"] = @ - 1, !.fresh = FALSE]
  <2>1. c \in Session
    BY DEF SessionFits, SessionTyped
  <2>2. d \in Session
    <3>1. clock \in BOOLEAN
      OBVIOUS
    <3> HIDE DEF clock
    <3> QED BY <2>1, <3>1 DEF Session
  <2>3. CountersKept(c, d) /\ IdleKept(c, d) /\ ReviewKept(c, d) /\ CallsKept(c, d)
    BY <2>1 DEF Session, CountersKept, IdleKept, ReviewKept, CallsKept
  <2>4. SessionFits(d)
    BY <2>2, <2>3, KeptFits DEF SessionFits
  <2> HIDE DEF d
  <2>5. "BUDGET_EXHAUSTED" \in Reasons \ {"none"}
    BY DEF Reasons
  <2>6. ASSUME d.left["iterations"] # 0 PROVE SessionFits(e)
    <3>1. /\ d.left \in [Kinds -> Nat] /\ d.iteration \in Nat /\ "iterations" \in Kinds
          /\ d.left["iterations"] \in Nat /\ Budget["iterations"] \in Nat /\ d.ended \in Nat
          /\ d.iteration + d.left["iterations"] <= Budget["iterations"] /\ d.ended <= d.iteration
      BY <2>2, <2>4 DEF Session, SessionFits, SessionTyped, Kinds
    <3> DEFINE left == [d.left EXCEPT !["iterations"] = @ - 1]
               step == d.iteration + 1
    <3>2. /\ left \in [Kinds -> Nat] /\ left["iterations"] = d.left["iterations"] - 1
          /\ step \in 0..Budget["iterations"] /\ d.ended <= step
          /\ step + left["iterations"] <= Budget["iterations"]
      BY <2>6, <3>1
    <3>3. e = [d EXCEPT !.iteration = step, !.left = left, !.fresh = FALSE]
      BY <2>2 DEF Session
    <3> HIDE DEF left, step, e
    <3>4. e \in Session
      BY <2>2, <3>2, <3>3 DEF Session
    <3>5. /\ IdleKept(d, e) /\ ReviewKept(d, e) /\ CallsKept(d, e)
          /\ e.iteration = step /\ e.left = left /\ e.ended = d.ended
      BY <2>2, <3>3 DEF Session, IdleKept, ReviewKept, CallsKept
    <3>6. SessionTyped(e)
      BY <3>2, <3>4, <3>5 DEF SessionTyped
    <3> QED BY <2>4, <3>4, <3>5, <3>6, KeptFits DEF SessionFits
  <2>7. BeginIteration(c, expired) \in {Terminate(d, "BUDGET_EXHAUSTED"), NoProgress(d), e}
        /\ (BeginIteration(c, expired) = e =>
               \/ d.left["iterations"] # 0
               \/ e \in {Terminate(d, "BUDGET_EXHAUSTED"), NoProgress(d)})
    <3>1. [c EXCEPT !.clock = @ /\ ~expired] = d
      BY <2>1 DEF d, Session
    <3> QED BY <1>2, <3>1 DEF BeginIteration
  <2> QED BY <2>4, <2>5, <2>6, <2>7, TerminateFits, NoProgressFits
<1> QED BY <1>1, <1>2

LEMMA RegisterFailureFits ==
    ASSUME NEW c, SessionFits(c)
    PROVE  /\ SessionFits(RegisterFailure(c)) /\ Mild(c, RegisterFailure(c))
           /\ CallsKept(c, RegisterFailure(c))
<1> DEFINE tried  == IF c.same = 0 \/ c.change \notin c.tried THEN c.tried \cup {c.change} ELSE c.tried
           same   == IF c.same = 0 \/ c.change \notin c.tried THEN 1
                     ELSE IF c.same < 3 THEN c.same + 1 ELSE c.same
           reason == IF c.same = 0 \/ c.change \notin c.tried THEN c.reason
                     ELSE IF c.same + 1 >= 3 THEN "DUPLICATE_FAILURE_LIMIT" ELSE c.reason
           d      == [c EXCEPT !.same = same, !.tried = tried, !.reason = reason]
<1>1. /\ c \in Session /\ c.same \in 0..3 /\ c.tried \subseteq 0..MaxCalls
      /\ c.change \in 0..MaxCalls /\ c.reason \in Reasons
  BY DEF SessionFits, SessionTyped, Session
<1>2. /\ same \in 0..3 /\ tried \subseteq 0..MaxCalls /\ reason \in Reasons
      /\ reason \in {c.reason, "DUPLICATE_FAILURE_LIMIT"}
  BY <1>1 DEF Reasons
<1>3. CASE ~c.live
  BY <1>3 DEF RegisterFailure, Mild, CallsKept
<1>4. CASE c.live
  <2>1. RegisterFailure(c) = d
    <3>1. CASE c.same = 0 \/ c.change \notin c.tried
      BY <1>1, <1>4, <3>1 DEF RegisterFailure, Session
    <3>2. CASE ~(c.same = 0 \/ c.change \notin c.tried)
      BY <1>1, <1>4, <3>2 DEF RegisterFailure, Session
    <3> QED BY <3>1, <3>2
  <2> HIDE DEF same, tried, reason
  <2>2. d \in Session
    BY <1>1, <1>2 DEF Session
  <2>3. /\ CountersKept(c, d) /\ ReviewKept(c, d) /\ CallsKept(c, d)
        /\ d.idle = c.idle /\ d.live = c.live /\ d.reason = reason /\ d.final = c.final
    BY <1>1 DEF Session, CountersKept, ReviewKept, CallsKept
  <2>4. IdleFits(d)
    BY <1>2, <2>3 DEF SessionFits, IdleFits, Stuck
  <2> QED BY <1>2, <2>1, <2>2, <2>3, <2>4, KeptFits DEF SessionFits, Mild
<1> QED BY <1>3, <1>4

-----------------------------------------------------------------------------
(***************************************************************************)
(* Controller._observe, over the calls a transcript holds.                 *)
(***************************************************************************)

\* All of SessionFits but what a new observation may break.
Observing(c) == SessionTyped(c) /\ IdleFits(c) /\ CallsFit(c, calls)

LEMMA ChangedFits ==
    ASSUME NEW c, Observing(c), NEW i \in 1..MaxCalls
    PROVE  /\ SessionFits(Changed(c, i)) /\ Mild(c, Changed(c, i))
           /\ CallsKept(c, Changed(c, i))
<1> DEFINE d == [c EXCEPT !.change = i, !.same = 0, !.tried = {}, !.failed = {}]
           e == IF c.correct # "no" THEN [d EXCEPT !.review = "deferred", !.correct = "no"]
                ELSE IF c.review = "approved" THEN [d EXCEPT !.review = "deferred"] ELSE d
<1>1. c \in Session /\ i \in 0..MaxCalls
  BY DEF Observing, SessionTyped
<1>2. d \in Session /\ d.correct = c.correct /\ d.review = c.review
  <2>1. {} \subseteq 0..MaxCalls /\ 0 \in 0..3
    OBVIOUS
  <2> QED BY <1>1, <2>1 DEF Session
<1>3. e \in Session
  <2>1. "deferred" \in Reviews
    BY DEF Reviews
  <2>2. [d EXCEPT !.review = "deferred", !.correct = "no"] \in Session
        /\ [d EXCEPT !.review = "deferred"] \in Session
    <3> HIDE DEF d
    <3> QED BY <1>2, <2>1 DEF Session
  <2> QED BY <1>2, <2>2
<1>4. /\ CountersKept(c, e) /\ IdleKept(c, e) /\ CallsKept(c, e)
      /\ e.review # "approved" /\ e.final = c.final
  BY <1>1, <1>2 DEF Session, CountersKept, IdleKept, CallsKept
<1>5. SessionFits(e)
  BY <1>3, <1>4 DEF SessionFits, Observing, SessionTyped, IdleFits, CallsFit, ApprovalFits,
                    CountersKept, IdleKept, CallsKept
<1>6. Changed(c, i) = NoteNew(e)
  <2>1. CASE c.correct # "no"
    BY <1>2, <2>1 DEF Changed, Defer, Session
  <2>2. CASE c.correct = "no" /\ c.review = "approved"
    BY <1>2, <2>2 DEF Changed, Defer
  <2>3. CASE c.correct = "no" /\ c.review # "approved"
    BY <1>2, <2>3 DEF Changed, Defer
  <2> QED BY <2>1, <2>2, <2>3
<1> HIDE DEF e
<1> QED BY <1>4, <1>5, <1>6, NoteNewFits DEF Mild, IdleKept, CallsKept

LEMMA ReadFits ==
    ASSUME NEW c, SessionFits(c)
    PROVE  SessionFits(Read(c)) /\ Mild(c, Read(c)) /\ CallsKept(c, Read(c))
<1> DEFINE e == IF c.correct = "evidence" THEN [c EXCEPT !.review = "deferred", !.correct = "no"] ELSE c
<1>1. c \in Session
  BY DEF SessionFits, SessionTyped
<1>2. e \in Session
  <2>1. "deferred" \in Reviews
    BY DEF Reviews
  <2>2. [c EXCEPT !.review = "deferred", !.correct = "no"] \in Session
    BY <1>1, <2>1 DEF Session
  <2> QED BY <1>1, <2>2
<1>3. /\ CountersKept(c, e) /\ IdleKept(c, e) /\ CallsKept(c, e) /\ e.final = c.final
      /\ e = c \/ e.review # "approved"
  BY <1>1 DEF Session, CountersKept, IdleKept, CallsKept
<1>4. SessionFits(e)
  BY <1>2, <1>3 DEF SessionFits, SessionTyped, IdleFits, CallsFit, ApprovalFits,
                    CountersKept, IdleKept, CallsKept
<1>5. Read(c) = Note(e, "read") /\ "read" \in Evidence
  BY <1>1 DEF Read, Defer, Session, Evidence
<1> HIDE DEF e
<1> QED BY <1>3, <1>4, <1>5, NoteFits DEF Mild, IdleKept, CallsKept

LEMMA FailedFits ==
    ASSUME NEW c, SessionFits(c)
    PROVE  SessionFits(Failed(c)) /\ Mild(c, Failed(c)) /\ CallsKept(c, Failed(c))
<1> DEFINE d == RegisterFailure(Note(c, "failure"))
           e == IF d.live /\ d.reason # "none" THEN Block(d) ELSE d
           f == [e EXCEPT !.failed = @ \cup {c.change}]
<1>1. SessionFits(d) /\ Mild(c, d) /\ CallsKept(c, d)
  BY NoteFits, RegisterFailureFits, "failure" \in Evidence DEF Mild, Evidence, CallsKept
<1> HIDE DEF d
<1>2. SessionFits(e) /\ Mild(c, e) /\ CallsKept(c, e)
  BY <1>1, BlockFits DEF Mild, CallsKept
<1> HIDE DEF e
<1>3. e \in Session /\ c.change \in 0..MaxCalls
  BY <1>2 DEF SessionFits, SessionTyped, Session
<1>4. f \in Session
  BY <1>3 DEF Session
<1>5. /\ CountersKept(e, f) /\ IdleKept(e, f) /\ ReviewKept(e, f) /\ CallsKept(e, f)
      /\ f.final = e.final
  BY <1>3 DEF Session, CountersKept, IdleKept, ReviewKept, CallsKept
<1>6. Failed(c) = f
  BY DEF Failed, e, d
<1> QED BY <1>2, <1>4, <1>5, <1>6, KeptFits DEF SessionFits, Mild, IdleKept, CallsKept

\* After the first n calls of the transcript.
Accumulated(c, acc, n) ==
    /\ acc = [c |-> acc.c, duplicate |-> acc.duplicate, cut |-> acc.cut]
    /\ SessionFits(acc.c) /\ Mild(c, acc.c)
    /\ acc.duplicate \in BOOLEAN /\ acc.cut \in BOOLEAN
    /\ \/ acc.duplicate \/ acc.cut
       \/ \A k \in Ran(calls) : k <= n => k \in acc.c.observed

LEMMA ObserveCallFits ==
    ASSUME CallsTyped, NEW c, NEW acc, NEW i \in Ran(calls), Accumulated(c, acc, i - 1), NEW blind
    PROVE  Accumulated(c, ObserveCall(acc, i, blind), i)
<1> DEFINE b == acc.c
           e == [b EXCEPT !.observed = @ \cup {i}]
           result == ObserveCall(acc, i, blind)
<1>1. b \in Session /\ SessionFits(b) /\ Mild(c, b)
  BY DEF Accumulated, SessionFits, SessionTyped
<1>2. i \in 1..Len(calls) /\ i \in 1..MaxCalls /\ calls[i] \in {"read", "change", "fail"}
  BY DEF Ran, CallsTyped
<1>3. \A k \in Ran(calls) : k <= i => k = i \/ k <= i - 1
  BY <1>2 DEF Ran, CallsTyped
<1>4. CASE acc.duplicate \/ acc.cut \/ i \in b.observed
  BY <1>3, <1>4 DEF ObserveCall, Accumulated
<1>5. CASE ~(acc.duplicate \/ acc.cut \/ i \in b.observed)
  <2>1. e \in Session
    BY <1>1, <1>2 DEF Session
  <2>2. /\ CountersKept(b, e) /\ IdleKept(b, e) /\ ReviewKept(b, e)
        /\ e.observed = b.observed \cup {i} /\ e.known = b.known /\ e.final = b.final
    BY <1>1 DEF Session, CountersKept, IdleKept, ReviewKept
  <2>3. Observing(e) /\ Mild(b, e)
    BY <1>1, <2>1, <2>2, KeptFits DEF Observing, SessionFits, CallsFit, Mild, IdleKept
  <2>4. calls[i] # "change" => SessionFits(e)
    BY <1>1, <2>2, <2>3 DEF SessionFits, Observing, ApprovalFits, ReviewKept
  <2> DEFINE d == CASE calls[i] = "change" -> Changed(e, i)
                    [] calls[i] = "read"   -> Read(e)
                    [] calls[i] = "fail"   -> IF i = blind THEN BlindFailed(e) ELSE Failed(e)
             dup == calls[i] = "fail" /\ i # blind /\ e.change \in e.failed
  <2>5. result = [c |-> d, duplicate |-> dup, cut |-> i = blind]
    BY <1>5 DEF ObserveCall
  <2>6. SessionFits(d) /\ Mild(e, d) /\ CallsKept(e, d)
    <3> HIDE DEF e
    <3>1. CASE calls[i] = "change"
      BY <1>2, <2>3, <3>1, ChangedFits
    <3>2. CASE calls[i] = "read"
      BY <2>4, <3>2, ReadFits
    <3>3. CASE calls[i] = "fail" /\ i = blind
      BY <2>4, <3>3, NoteFits, "failure" \in Evidence DEF BlindFailed, Evidence
    <3>4. CASE calls[i] = "fail" /\ i # blind
      BY <2>4, <3>4, FailedFits
    <3> QED BY <1>2, <3>1, <3>2, <3>3, <3>4
  <2>7. \A k \in Ran(calls) : k <= i => k \in d.observed
    <3> HIDE DEF d, e
    <3> QED BY <1>3, <1>5, <2>2, <2>6 DEF Accumulated, CallsKept
  <2> HIDE DEF d, dup, e
  <2>8. dup \in BOOLEAN
    BY DEF dup
  <2> QED BY <1>1, <2>3, <2>5, <2>6, <2>7, <2>8 DEF Accumulated, Mild
<1> QED BY <1>4, <1>5

LEMMA RetriedFits ==
    ASSUME NEW c, SessionFits(c)
    PROVE  SessionFits(Retried(c)) /\ Mild(c, Retried(c))
<1>1. CASE ~(c.reason = "CLIENT_CANCELLED" /\ c.control = "running")
  BY <1>1 DEF Retried, Mild
<1>2. CASE c.reason = "CLIENT_CANCELLED" /\ c.control = "running"
  <2> DEFINE shown == IF c.phase = "BLOCKED" THEN "REPLANNING" ELSE c.phase
             d     == [c EXCEPT !.reason = "none", !.final = "none", !.phase = shown]
  <2>1. c \in Session /\ shown \in Phases /\ "none" \in Reasons /\ "none" \in Finals
    BY DEF SessionFits, SessionTyped, Session, Phases, Finals, Reasons
  <2>2. Retried(c) = d
    BY <1>2, <2>1 DEF Retried, Session
  <2> HIDE DEF shown
  <2>3. d \in Session
    BY <2>1 DEF Session
  <2>4. /\ CountersKept(c, d) /\ ReviewKept(c, d) /\ CallsKept(c, d)
        /\ d.idle = c.idle /\ d.reason = "none" /\ d.final = "none"
    BY <2>1 DEF Session, CountersKept, ReviewKept, CallsKept
  <2>5. IdleFits(d)
    BY <1>2, <2>4 DEF SessionFits, IdleFits, Stuck
  <2> QED BY <2>2, <2>3, <2>4, <2>5, KeptFits DEF SessionFits, Mild
<1> QED BY <1>1, <1>2

LEMMA UserSpokeFits ==
    ASSUME NEW c, SessionFits(c), NEW new \in BOOLEAN
    PROVE  SessionFits(UserSpoke(c, new)) /\ Mild(c, UserSpoke(c, new))
<1> DEFINE d == IF new THEN NoteNew(c) ELSE c
<1>1. SessionFits(d) /\ Mild(c, d)
  BY NoteNewFits DEF Mild
<1>2. UserSpoke(c, new) \in {d, Resume(d)}
  BY DEF UserSpoke
<1> HIDE DEF d
<1> QED BY <1>1, <1>2, ResumeFits DEF Mild

\* A set of natural numbers with zero and every successor is all of them.
LEMMA AllNumbers ==
    ASSUME NEW T, T \subseteq Nat, 0 \in T, \A n \in T : n + 1 \in T
    PROVE  T = Nat
<1> SUFFICES ASSUME Nat \ T # {} PROVE FALSE
  OBVIOUS
<1>1. \E n \in Nat \ T : \A m \in Nat \ T : <<m, n>> \notin OpToRel(<, Nat)
  BY NatLessThanWellFounded, WFMin, Nat \ T \subseteq Nat, Zenon
<1>2. PICK n \in Nat \ T : \A m \in Nat \ T : ~(m < n)
  BY <1>1 DEF OpToRel
<1>3. n # 0 /\ n - 1 \in Nat /\ n - 1 < n /\ (n - 1) + 1 = n
  BY <1>2
<1>4. n - 1 \in T
  BY <1>2, <1>3
<1> QED BY <1>2, <1>3, <1>4

LEMMA ObservedFits ==
    ASSUME CallsTyped, NEW c, SessionFits(c), NEW new \in BOOLEAN, NEW blind
    PROVE  SessionFits(Observed(c, new, blind).c) /\ Mild(c, Observed(c, new, blind).c)
<1> DEFINE start == [c |-> UserSpoke(Retried(c), new), duplicate |-> FALSE, cut |-> FALSE]
           next(acc, n) == IF n \notin Ran(calls) THEN acc ELSE ObserveCall(acc, n, blind)
           IsFold(g, n) == g = [k \in 0..n |-> IF k = 0 THEN start ELSE next(g[k - 1], k)]
           N == Len(calls)
<1>1. N \in Nat /\ DOMAIN calls = 1..N
  BY DEF CallsTyped
<1>2. Accumulated(c, start, 0)
  BY <1>1, RetriedFits, UserSpokeFits DEF Accumulated, Mild, Ran
<1> HIDE DEF start
<1>3. \E g : IsFold(g, N)
  <2> DEFINE T == {n \in Nat : \E g : IsFold(g, n)}
  <2>1. 0 \in T
    <3>1. IsFold([k \in 0..0 |-> start], 0)
      OBVIOUS
    <3> QED BY <3>1
  <2>2. ASSUME NEW n \in T PROVE n + 1 \in T
    <3>1. PICK g : IsFold(g, n)
      OBVIOUS
    <3> DEFINE h == [k \in 0..(n + 1) |-> IF k = 0 THEN start ELSE next(g[k - 1], k)]
    <3>2. n \in Nat /\ \A k \in 0..n : h[k] = g[k]
      BY <3>1
    <3>3. \A k \in 0..(n + 1) : k # 0 => k - 1 \in 0..n /\ h[k - 1] = g[k - 1]
      <4> HIDE DEF h, IsFold
      <4> QED BY <3>2
    <3>4. IsFold(h, n + 1)
      <4>1. h = [k \in 0..(n + 1) |-> IF k = 0 THEN start ELSE next(h[k - 1], k)]
        <5> HIDE DEF next
        <5> QED BY <3>3
      <4> QED BY <4>1
    <3> HIDE DEF IsFold, h
    <3> QED BY <3>2, <3>4
  <2>3. T = Nat
    <3> HIDE DEF T
    <3> QED BY <2>1, <2>2, AllNumbers, T \subseteq Nat DEF T
  <2> QED BY <1>1, <2>3
<1> DEFINE noted(acc) == [acc.c EXCEPT !.known = IF acc.duplicate \/ acc.cut THEN {} ELSE Ran(calls)]
           final(acc) == IF ~acc.duplicate /\ ~acc.cut /\ noted(acc).stale >= 3
                         THEN [noted(acc) EXCEPT !.phase = "BLOCKED"] ELSE noted(acc)
<1>4. PICK g : IsFold(g, N) /\ Observed(c, new, blind) = [g[N] EXCEPT !.c = final(g[N])]
  BY <1>3 DEF Observed, start
<1>5. N \in {n \in Nat : n <= N => Accumulated(c, g[n], n)}
  <2> DEFINE T == {n \in Nat : n <= N => Accumulated(c, g[n], n)}
  <2>1. 0 \in T
    BY <1>1, <1>2, <1>4
  <2>2. ASSUME NEW n \in T PROVE n + 1 \in T
    <3> SUFFICES ASSUME n + 1 <= N PROVE Accumulated(c, g[n + 1], n + 1)
      OBVIOUS
    <3>1. Accumulated(c, g[n], n) /\ n + 1 \in 1..N /\ (n + 1) - 1 = n
      BY <1>1
    <3>2. g[n + 1] = next(g[n], n + 1)
      <4> HIDE DEF next, noted, final
      <4>1. n + 1 \in 0..N /\ n + 1 # 0 /\ (n + 1) - 1 = n
        BY <1>1, <3>1
      <4> QED BY <1>4, <4>1
    <3>3. CASE n + 1 \in Ran(calls)
      BY <3>1, <3>2, <3>3, ObserveCallFits
    <3>4. CASE n + 1 \notin Ran(calls)
      <4>1. \A k \in Ran(calls) : k <= n + 1 => k <= n
        BY <1>1, <3>4 DEF Ran
      <4> QED BY <3>1, <3>2, <3>4, <4>1 DEF Accumulated
    <3> QED BY <3>3, <3>4
  <2>3. T = Nat
    <3> HIDE DEF T
    <3> QED BY <2>1, <2>2, AllNumbers, T \subseteq Nat DEF T
  <2> QED BY <1>1, <2>3
<1> DEFINE acc == g[N]
<1>6. Accumulated(c, acc, N)
  BY <1>1, <1>5
<1>7. Observed(c, new, blind).c = final(acc)
  BY <1>4, <1>6 DEF Accumulated
<1> HIDE DEF acc, IsFold
<1>8. SessionFits(noted(acc)) /\ Mild(c, noted(acc))
  <2> DEFINE b == acc.c
             known == IF acc.duplicate \/ acc.cut THEN {} ELSE Ran(calls)
             d == [b EXCEPT !.known = known]
  <2>1. b \in Session /\ SessionFits(b) /\ Mild(c, b)
    BY <1>6 DEF Accumulated, SessionFits, SessionTyped
  <2>2. known \subseteq b.observed /\ known \subseteq 1..MaxCalls
    BY <1>1, <1>6, <2>1 DEF Accumulated, Ran, Session
  <2> HIDE DEF b, known
  <2>3. d \in Session
    BY <2>1, <2>2 DEF Session
  <2>4. /\ CountersKept(b, d) /\ IdleKept(b, d) /\ ReviewKept(b, d)
        /\ d.observed = b.observed /\ d.known = known /\ d.final = b.final
    BY <2>1 DEF Session, CountersKept, IdleKept, ReviewKept
  <2>5. CallsFit(d, calls) /\ ApprovalFits(d, calls)
    BY <2>1, <2>2, <2>4 DEF SessionFits, CallsFit, ApprovalFits, ReviewKept
  <2>6. SessionFits(d) /\ Mild(c, d)
    BY <2>1, <2>3, <2>4, <2>5, KeptFits DEF SessionFits, Mild, IdleKept
  <2> QED BY <2>6 DEF b, known
<1> HIDE DEF noted
<1>9. LET d == [noted(acc) EXCEPT !.phase = "BLOCKED"]
      IN  SessionFits(d) /\ Mild(c, d)
  <2> DEFINE b == noted(acc)
             d == [b EXCEPT !.phase = "BLOCKED"]
  <2>1. b \in Session
    BY <1>8 DEF SessionFits, SessionTyped
  <2> HIDE DEF b
  <2>2. d \in Session
    BY <2>1, "BLOCKED" \in Phases DEF Session, Phases
  <2>3. /\ CountersKept(b, d) /\ IdleKept(b, d) /\ ReviewKept(b, d) /\ CallsKept(b, d)
        /\ d.final = b.final
    BY <2>1 DEF Session, CountersKept, IdleKept, ReviewKept, CallsKept
  <2>4. SessionFits(d) /\ Mild(b, d)
    BY <1>8, <2>2, <2>3, KeptFits DEF SessionFits, Mild, IdleKept, b
  <2> QED BY <1>8, <2>4 DEF Mild, b
<1> QED BY <1>7, <1>8, <1>9

-----------------------------------------------------------------------------
(***************************************************************************)
(* The other rules that change a session, and what each leaves alone.      *)
(***************************************************************************)

LEMMA NewSessionFits == SessionFits(NewSession) /\ NewSession.final = "none"
<1>1. /\ Budget \in [Kinds -> Nat] /\ Budget["iterations"] \in Nat /\ "iterations" \in Kinds
      /\ 0 \in 0..Budget["iterations"] /\ 0 \in 0..MaxCalls /\ 0 \in 0..3
  BY DEF Kinds
<1>2. NewSession \in Session
  BY <1>1, LimitTyped DEF NewSession, Session, Reasons, Phases, Finals, Reviews
<1> QED
  BY <1>1, <1>2, LimitTyped
  DEF NewSession, SessionFits, SessionTyped, IdleFits, ApprovalFits, CallsFit

LEMMA RecoveredFits ==
    ASSUME NEW c, SessionFits(c)
    PROVE  SessionFits(Recovered(c)) /\ Mild(c, Recovered(c))
<1> DEFINE d == [c EXCEPT !.live = TRUE]
           e == [c EXCEPT !.clock = TRUE, !.revived = TRUE, !.reason = "none",
                          !.phase = "REPLANNING", !.final = "none"]
<1>1. /\ c \in Session /\ "none" \in Reasons /\ "none" \in Finals /\ "REPLANNING" \in Phases
  BY DEF SessionFits, SessionTyped, Reasons, Finals, Phases
<1>2. CASE ~c.live
  <2>1. d \in Session
    BY <1>1 DEF Session
  <2>2. /\ CountersKept(c, d) /\ ReviewKept(c, d) /\ CallsKept(c, d)
        /\ d.idle = c.idle /\ d.reason = c.reason /\ d.final = c.final
    BY <1>1 DEF Session, CountersKept, ReviewKept, CallsKept
  <2>3. IdleFits(d) /\ Recovered(c) = d
    BY <1>2, <2>2 DEF SessionFits, IdleFits, Recovered
  <2> QED BY <2>1, <2>2, <2>3, KeptFits DEF SessionFits, Mild
<1>3. CASE c.live /\ c.reason = "BUDGET_EXHAUSTED" /\ ~c.clock /\ ~c.revived
  <2>1. e \in Session
    BY <1>1 DEF Session
  <2>2. /\ CountersKept(c, e) /\ ReviewKept(c, e) /\ CallsKept(c, e)
        /\ e.idle = c.idle /\ e.reason = "none" /\ e.final = "none"
    BY <1>1 DEF Session, CountersKept, ReviewKept, CallsKept
  <2>3. IdleFits(e) /\ Recovered(c) = e
    BY <1>3, <2>2 DEF SessionFits, IdleFits, Recovered, Stuck
  <2> QED BY <2>1, <2>2, <2>3, KeptFits DEF SessionFits, Mild
<1>4. CASE c.live /\ ~(c.reason = "BUDGET_EXHAUSTED" /\ ~c.clock /\ ~c.revived)
  BY <1>4 DEF Recovered, Mild
<1> QED BY <1>2, <1>3, <1>4

LEMMA PolicyFits ==
    ASSUME NEW c, SessionFits(c), NEW verdict
    PROVE  SessionFits(Policy(c, verdict)) /\ Mild(c, Policy(c, verdict))
<1> DEFINE asked == (verdict = "approve")
           d     == [c EXCEPT !.asked = asked]
<1>1. c \in Session /\ asked \in BOOLEAN
  BY DEF SessionFits, SessionTyped
<1>2. /\ {"POLICY_BLOCKED", "PERMISSION_REQUIRED"} \subseteq Reasons \ {"none", "SUCCESS"}
  BY DEF Reasons
<1>3. Policy(c, verdict) \in {Terminate(Block(d), "POLICY_BLOCKED"),
                              Terminate(Block(d), "PERMISSION_REQUIRED"), d}
  BY DEF Policy
<1> HIDE DEF asked
<1>4. d \in Session
  BY <1>1 DEF Session
<1>5. /\ CountersKept(c, d) /\ IdleKept(c, d) /\ ReviewKept(c, d) /\ CallsKept(c, d)
      /\ d.final = c.final
  BY <1>1 DEF Session, CountersKept, IdleKept, ReviewKept, CallsKept
<1>6. SessionFits(d) /\ Mild(c, d)
  BY <1>4, <1>5, KeptFits DEF SessionFits, Mild, IdleKept
<1> HIDE DEF d
<1> QED BY <1>2, <1>3, <1>6, BlockFits, TerminateFits DEF Mild

LEMMA StalledFits ==
    ASSUME NEW c, SessionFits(c)
    PROVE  SessionFits(Stalled(c)) /\ Mild(c, Stalled(c))
<1> DEFINE stale == IF c.stale < 3 THEN c.stale + 1 ELSE c.stale
           b == [c EXCEPT !.stale = stale]
           d == NoProgress(b)
           e == [d EXCEPT !.phase = "BLOCKED"]
<1>1. c \in Session /\ stale \in 0..3
  BY DEF SessionFits, SessionTyped, Session
<1>2. [c EXCEPT !.stale = IF @ < 3 THEN @ + 1 ELSE @] = b
  BY <1>1 DEF Session
<1>3. Stalled(c) \in {d, e}
  BY <1>2 DEF Stalled
<1> HIDE DEF stale
<1>4. b \in Session
  BY <1>1 DEF Session
<1>5. /\ CountersKept(c, b) /\ IdleKept(c, b) /\ ReviewKept(c, b) /\ CallsKept(c, b)
      /\ b.final = c.final
  BY <1>1 DEF Session, CountersKept, IdleKept, ReviewKept, CallsKept
<1>6. SessionFits(b) /\ Mild(c, b)
  BY <1>4, <1>5, KeptFits DEF SessionFits, Mild, IdleKept
<1> HIDE DEF b
<1>7. SessionFits(d) /\ Mild(c, d) /\ d \in Session
  BY <1>6, NoProgressFits DEF Mild, SessionFits, SessionTyped
<1> HIDE DEF d
<1>8. e \in Session
  BY <1>7, "BLOCKED" \in Phases DEF Session, Phases
<1>9. /\ CountersKept(d, e) /\ IdleKept(d, e) /\ ReviewKept(d, e) /\ CallsKept(d, e)
      /\ e.final = d.final
  BY <1>7 DEF Session, CountersKept, IdleKept, ReviewKept, CallsKept
<1> QED BY <1>3, <1>7, <1>8, <1>9, KeptFits DEF SessionFits, Mild, IdleKept

\* Finishing a request may only block the session.
LEMMA IterationEndedFits ==
    ASSUME NEW c, SessionFits(c)
    PROVE  /\ SessionFits(IterationEnded(c)) /\ Mild(c, IterationEnded(c))
           /\ \/ IterationEnded(c).final = "blocked"
              \/ /\ ReviewKept(c, IterationEnded(c)) /\ CallsKept(c, IterationEnded(c))
                 /\ IterationEnded(c).met = c.met
<1> DEFINE d == [c EXCEPT !.ended = c.iteration]
           e == Block(Terminate(d, "BUDGET_EXHAUSTED"))
<1>1. /\ c \in Session /\ c.iteration \in 0..Budget["iterations"]
      /\ "BUDGET_EXHAUSTED" \in Reasons \ {"none"}
  BY DEF SessionFits, SessionTyped, Session, Reasons
<1>2. d \in Session
  BY <1>1 DEF Session
<1>3. /\ IdleKept(c, d) /\ ReviewKept(c, d) /\ CallsKept(c, d) /\ d.final = c.final
      /\ d.met = c.met /\ d.ended = c.iteration /\ d.iteration = c.iteration /\ d.left = c.left
  BY <1>1 DEF Session, IdleKept, ReviewKept, CallsKept
<1>4. SessionFits(d) /\ Mild(c, d)
  <2>1. SessionTyped(d)
    <3> HIDE DEF d
    <3> QED BY <1>1, <1>2, <1>3 DEF SessionFits, SessionTyped
  <2> QED BY <1>2, <1>3, <2>1, KeptFits DEF SessionFits, Mild, IdleKept
<1>5. IterationEnded(c) \in {d, e}
  BY DEF IterationEnded
<1> HIDE DEF d
<1>6. SessionFits(e) /\ Mild(c, e) /\ e.final = "blocked"
  BY <1>1, <1>4, TerminateFits, BlockFits DEF Mild
<1> HIDE DEF e
<1> QED BY <1>3, <1>4, <1>5, <1>6

LEMMA SettledFits ==
    ASSUME NEW c, SessionFits(c)
    PROVE  SessionFits(Settled(c)) /\ Settled(c).final = "none"
<1> DEFINE shown == IF c.review \in {"rejected", "rejected_frontier"} THEN "CORRECTION" ELSE "EXECUTING"
           d == [c EXCEPT !.phase = shown, !.final = "none"]
<1>1. c \in Session /\ shown \in Phases /\ "none" \in Finals
  BY DEF SessionFits, SessionTyped, Phases, Finals
<1>2. Settled(c) = d
  BY DEF Settled
<1> HIDE DEF shown
<1>3. d \in Session
  BY <1>1 DEF Session
<1>4. /\ CountersKept(c, d) /\ IdleKept(c, d) /\ ReviewKept(c, d) /\ CallsKept(c, d)
      /\ d.final = "none"
  BY <1>1 DEF Session, CountersKept, IdleKept, ReviewKept, CallsKept
<1> QED BY <1>2, <1>3, <1>4, KeptFits DEF SessionFits

LEMMA FrontierRejectsFits ==
    ASSUME NEW c, SessionFits(c), NEW wants \in {"change", "evidence"}
    PROVE  SessionFits(FrontierRejects(c, wants))
<1> DEFINE d == FrontierRejects(c, wants)
<1>1. /\ c \in Session /\ "rejected_frontier" \in Reviews
      /\ wants \in {"no", "change", "evidence"}
  BY DEF SessionFits, SessionTyped, Reviews
<1>2. d \in Session
  BY <1>1 DEF Session, FrontierRejects
<1>3. /\ CountersKept(c, d) /\ IdleKept(c, d) /\ CallsKept(c, d) /\ d.review = "rejected_frontier"
  BY <1>1 DEF Session, CountersKept, IdleKept, CallsKept, FrontierRejects
<1>4. ApprovalFits(d, calls)
  BY <1>3 DEF ApprovalFits
<1> QED BY <1>2, <1>3, <1>4, KeptFits DEF SessionFits

\* Changes of the fields nothing is said about.
LEMMA AsideFits ==
    ASSUME NEW c, SessionFits(c)
    PROVE  /\ \A shown \in Phases :
                 LET d == [c EXCEPT !.phase = shown]
                 IN  SessionFits(d) /\ d.final = c.final
           /\ \A final \in Finals :
                 LET d == [c EXCEPT !.final = final]
                 IN  SessionFits(d) /\ d.final = final
           /\ LET d == [c EXCEPT !.judged = TRUE]
              IN  SessionFits(d) /\ d.final = c.final
           /\ \A met \in BOOLEAN :
                 LET d == [c EXCEPT !.met = met]
                 IN  SessionFits(d) /\ d.final = c.final
<1>1. c \in Session
  BY DEF SessionFits, SessionTyped
<1>2. ASSUME NEW shown \in Phases
      PROVE  LET d == [c EXCEPT !.phase = shown]
             IN  SessionFits(d) /\ d.final = c.final
  <2> DEFINE d == [c EXCEPT !.phase = shown]
  <2>1. d \in Session
    BY <1>1 DEF Session
  <2>2. CountersKept(c, d) /\ IdleKept(c, d) /\ ReviewKept(c, d) /\ CallsKept(c, d) /\ d.final = c.final
    BY <1>1 DEF Session, CountersKept, IdleKept, ReviewKept, CallsKept
  <2> QED BY <2>1, <2>2, KeptFits DEF SessionFits
<1>3. ASSUME NEW final \in Finals
      PROVE  LET d == [c EXCEPT !.final = final]
             IN  SessionFits(d) /\ d.final = final
  <2> DEFINE d == [c EXCEPT !.final = final]
  <2>1. d \in Session
    BY <1>1 DEF Session
  <2>2. CountersKept(c, d) /\ IdleKept(c, d) /\ ReviewKept(c, d) /\ CallsKept(c, d) /\ d.final = final
    BY <1>1 DEF Session, CountersKept, IdleKept, ReviewKept, CallsKept
  <2> QED BY <2>1, <2>2, KeptFits DEF SessionFits
<1>4. LET d == [c EXCEPT !.judged = TRUE] IN  SessionFits(d) /\ d.final = c.final
  <2> DEFINE d == [c EXCEPT !.judged = TRUE]
  <2>1. d \in Session
    BY <1>1 DEF Session
  <2>2. CountersKept(c, d) /\ IdleKept(c, d) /\ ReviewKept(c, d) /\ CallsKept(c, d) /\ d.final = c.final
    BY <1>1 DEF Session, CountersKept, IdleKept, ReviewKept, CallsKept
  <2> QED BY <2>1, <2>2, KeptFits DEF SessionFits
<1>5. ASSUME NEW met \in BOOLEAN
      PROVE  LET d == [c EXCEPT !.met = met]
             IN  SessionFits(d) /\ d.final = c.final
  <2> DEFINE d == [c EXCEPT !.met = met]
  <2>1. d \in Session
    BY <1>1 DEF Session
  <2>2. CountersKept(c, d) /\ IdleKept(c, d) /\ ReviewKept(c, d) /\ CallsKept(c, d) /\ d.final = c.final
    BY <1>1 DEF Session, CountersKept, IdleKept, ReviewKept, CallsKept
  <2> QED BY <2>1, <2>2, KeptFits DEF SessionFits
<1> QED BY <1>2, <1>3, <1>4, <1>5

-----------------------------------------------------------------------------
(***************************************************************************)
(* The invariant, step by step.                                            *)
(***************************************************************************)

\* Between the end of a consultation and the end of the turn.
Underway == {"working", "reviewing", "reviewed", "judging"}

LoopInv ==
    /\ CallsTyped /\ begun \in 0..MaxTurns /\ commands \in 0..MaxCommands
    /\ stage \in [Slots -> Stages]
    /\ SessionFits(row)
    /\ copy \in [Slots -> Session] /\ \A t \in Slots : SessionFits(copy[t])
    /\ \A t \in Slots : stage[t] \in Underway => copy[t].final = "none"

Backed(c) ==
    /\ c.met /\ c.correct = "no"
    /\ \A i \in c.observed : calls[i] = "change" => i \in c.reviewed

\* What SuccessIsEarned says of a step; what the writing session knew of when
\* its turn began is among what it has observed (CallsFit).
Earned == Succeeded(row') => \/ Succeeded(row)
                             \/ /\ row'.met /\ row'.correct = "no"
                                /\ \A i \in row'.observed : calls[i] = "change" => i \in row'.reviewed

LEMMA LoopInitKeeps == LoopInit => LoopInv
<1> SUFFICES ASSUME LoopInit PROVE LoopInv
  OBVIOUS
<1>1. NewSession \in Session
  BY NewSessionFits DEF SessionFits, SessionTyped
<1>2. CallsTyped /\ begun \in 0..MaxTurns /\ commands \in 0..MaxCommands
  BY DEF LoopInit, CallsTyped
<1>3. stage \in [Slots -> Stages] /\ \A t \in Slots : stage[t] \notin Underway
  BY DEF LoopInit, Stages, Underway
<1>4. row = NewSession /\ copy = [t \in Slots |-> NewSession]
  BY DEF LoopInit
<1> HIDE DEF LoopInit
<1> QED BY <1>1, <1>2, <1>3, <1>4, NewSessionFits DEF LoopInv

\* Calls are only added, and one that was run stays as it ended.
LEMMA CallsGrow ==
    ASSUME CallsTyped, CallsTyped', NEW c, SessionFits(c),
           Len(calls) <= Len(calls'), \A i \in Ran(calls) : calls'[i] = calls[i]
    PROVE  ApprovalFits(c, calls') /\ CallsFit(c, calls')
<1>1. Len(calls) \in Nat /\ Len(calls') \in Nat
  BY DEF CallsTyped
<1>2. c.known \subseteq c.observed /\ c.observed \subseteq Ran(calls)
  BY DEF SessionFits, CallsFit
<1>3. Ran(calls) \subseteq Ran(calls')
  BY <1>1 DEF Ran
<1>4. CallsFit(c, calls')
  BY <1>1, <1>2, <1>3 DEF CallsFit
<1>5. ApprovalFits(c, calls')
  BY <1>2 DEF SessionFits, ApprovalFits
<1> QED BY <1>4, <1>5

LEMMA MoveOnKeeps ==
    ASSUME LoopInv, NEW t \in Slots, NEW c, SessionFits(c), NEW next \in Stages,
           next \in Underway => c.final = "none",
           MoveOn(t, c, next), row' = row \/ row' = c
    PROVE  LoopInv'
<1>1. /\ calls' = calls /\ begun' = begun /\ commands' = commands
      /\ copy' = [copy EXCEPT ![t] = c] /\ stage' = [stage EXCEPT ![t] = next]
  BY DEF MoveOn
<1>2. c \in Session
  BY DEF SessionFits, SessionTyped
<1>3. CallsTyped' /\ begun' \in 0..MaxTurns /\ commands' \in 0..MaxCommands
  BY <1>1 DEF LoopInv, CallsTyped
<1>4. stage' \in [Slots -> Stages] /\ copy' \in [Slots -> Session]
  BY <1>1, <1>2 DEF LoopInv
<1>5. SessionFits(row)'
  BY <1>1 DEF LoopInv, SessionFits
<1>6. ASSUME NEW u \in Slots
      PROVE  SessionFits(copy[u])' /\ (stage'[u] \in Underway => copy'[u].final = "none")
  <2>1. copy'[u] = IF u = t THEN c ELSE copy[u]
    BY <1>1 DEF LoopInv
  <2>2. stage'[u] = IF u = t THEN next ELSE stage[u]
    BY <1>1 DEF LoopInv
  <2> QED BY <1>1, <2>1, <2>2 DEF LoopInv, SessionFits
<1> QED BY <1>3, <1>4, <1>5, <1>6 DEF LoopInv

LEMMA FinalizedFits ==
    ASSUME NEW c, SessionFits(c), NEW status \in {"completed", "failed", "cancelled"}
    PROVE  LET d == IterationEnded(Finalized(c, status))
           IN  /\ SessionFits(d)
               /\ Succeeded(d) => status = "completed" /\ Succeeded(c)
               /\ Succeeded(d) /\ Backed(c) => Backed(d)
<1> DEFINE b == [c EXCEPT !.final = "cancelled"]
           f == [c EXCEPT !.final = "failed"]
<1>1. SessionFits(b) /\ b.final = "cancelled" /\ SessionFits(f) /\ f.final = "failed"
  BY AsideFits, {"failed", "cancelled"} \subseteq Finals DEF Finals
<1> HIDE DEF b, f
<1>2. /\ SessionFits(Finalized(c, status))
      /\ Finalized(c, status).final = "completed" => status = "completed" /\ Finalized(c, status) = c
  <2>1. CASE status = "cancelled"
    <3>1. /\ SessionFits(Terminate(b, "CLIENT_CANCELLED"))
          /\ Mild(b, Terminate(b, "CLIENT_CANCELLED"))
      BY <1>1, TerminateFits, "CLIENT_CANCELLED" \in Reasons \ {"none"} DEF Reasons
    <3> QED BY <2>1, <3>1, <1>1 DEF Finalized, b, Mild
  <2>2. CASE status = "failed" /\ c.final # "blocked"
    BY <1>1, <2>2 DEF Finalized, f
  <2>3. CASE status # "cancelled" /\ ~(status = "failed" /\ c.final # "blocked")
    BY <2>3 DEF Finalized
  <2> QED BY <2>1, <2>2, <2>3
<1> DEFINE g == Finalized(c, status)
           d == IterationEnded(g)
<1> HIDE DEF g
<1>3. /\ SessionFits(d) /\ Mild(g, d)
      /\ \/ d.final = "blocked"
         \/ ReviewKept(g, d) /\ CallsKept(g, d) /\ d.met = g.met
  BY <1>2, IterationEndedFits DEF g
<1>4. Succeeded(d) => status = "completed" /\ Succeeded(c)
  BY <1>2, <1>3 DEF Succeeded, Mild, g
<1>5. Succeeded(d) /\ Backed(c) => Backed(d)
  BY <1>2, <1>3 DEF Succeeded, Backed, Mild, ReviewKept, CallsKept, g
<1> QED BY <1>3, <1>4, <1>5 DEF g

\* A turn leaves, and d is what it saves.
LEMMA LeaveKeeps ==
    ASSUME LoopInv, NEW t \in Slots, NEW d, SessionFits(d), CallsTyped',
           Len(calls) <= Len(calls'), \A i \in Ran(calls) : calls'[i] = calls[i],
           row' = d, copy' = [copy EXCEPT ![t] = NewSession],
           stage' = [stage EXCEPT ![t] = "idle"], UNCHANGED <<begun, commands>>
    PROVE  LoopInv'
<1>1. ASSUME NEW c, SessionFits(c)
      PROVE  SessionTyped(c) /\ IdleFits(c) /\ ApprovalFits(c, calls') /\ CallsFit(c, calls')
  BY <1>1, CallsGrow DEF LoopInv, SessionFits
<1>2. NewSession \in Session /\ SessionFits(NewSession)
  BY NewSessionFits DEF SessionFits, SessionTyped
<1>3. begun' \in 0..MaxTurns /\ commands' \in 0..MaxCommands
  BY DEF LoopInv
<1>4. stage' \in [Slots -> Stages] /\ copy' \in [Slots -> Session]
  BY <1>2, "idle" \in Stages DEF LoopInv, Stages
<1>5. SessionFits(row)'
  BY <1>1 DEF SessionFits
<1>6. ASSUME NEW u \in Slots
      PROVE  SessionFits(copy[u])' /\ (stage'[u] \in Underway => copy'[u].final = "none")
  <2>1. copy'[u] = IF u = t THEN NewSession ELSE copy[u]
    BY DEF LoopInv
  <2>2. stage'[u] = IF u = t THEN "idle" ELSE stage[u]
    BY DEF LoopInv
  <2>3. SessionFits(copy'[u])
    BY <2>1, <1>2 DEF LoopInv
  <2>4. SessionFits(copy[u])'
    BY <2>3, <1>1 DEF SessionFits
  <2>5. stage'[u] \in Underway => copy'[u].final = "none"
    BY <2>1, <2>2 DEF LoopInv, Underway
  <2> QED BY <2>4, <2>5
<1> QED BY <1>3, <1>4, <1>5, <1>6 DEF LoopInv

LEMMA CloseKeeps ==
    ASSUME LoopInv, NEW t \in Slots, NEW c, SessionFits(c),
           NEW status \in {"completed", "failed", "cancelled"},
           Close(t, c, status), CallsTyped',
           Len(calls) <= Len(calls'), \A i \in Ran(calls) : calls'[i] = calls[i]
    PROVE  LoopInv' /\ ((Succeeded(c) /\ status = "completed" => Backed(c)) => Earned)
<1> DEFINE d == IterationEnded(Finalized(c, status))
<1>1. /\ begun' = begun /\ commands' = commands /\ row' = d
      /\ copy' = [copy EXCEPT ![t] = NewSession] /\ stage' = [stage EXCEPT ![t] = "idle"]
  BY DEF Close
<1>2. /\ SessionFits(d)
      /\ Succeeded(d) => status = "completed" /\ Succeeded(c)
      /\ Succeeded(d) /\ Backed(c) => Backed(d)
  BY FinalizedFits
<1> HIDE DEF d
<1>3. LoopInv'
  BY <1>1, <1>2, LeaveKeeps
<1> QED BY <1>1, <1>2, <1>3 DEF Earned, Backed
\* Only the stored session changes, or a turn begins with what is stored.
LEMMA RowKeeps ==
    ASSUME LoopInv, NEW d, SessionFits(d), row' = d, UNCHANGED calls,
           begun' \in 0..MaxTurns, commands' \in 0..MaxCommands,
           \/ UNCHANGED <<copy, stage>>
           \/ \E t \in Slots, next \in Stages \ Underway :
                 copy' = [copy EXCEPT ![t] = d] /\ stage' = [stage EXCEPT ![t] = next]
    PROVE  LoopInv'
<1>1. d \in Session
  BY DEF SessionFits, SessionTyped
<1>2. stage' \in [Slots -> Stages] /\ copy' \in [Slots -> Session] /\ CallsTyped'
  BY <1>1 DEF LoopInv, CallsTyped
<1>3. SessionFits(row)'
  BY DEF SessionFits
<1>4. ASSUME NEW u \in Slots
      PROVE  SessionFits(copy[u])' /\ (stage'[u] \in Underway => copy'[u].final = "none")
  <2>1. \/ copy'[u] = copy[u] /\ stage'[u] = stage[u]
        \/ copy'[u] = d /\ stage'[u] \notin Underway
        \/ copy'[u] = copy[u] /\ stage'[u] = stage[u]
    BY DEF LoopInv
  <2> QED BY <2>1 DEF LoopInv, SessionFits
<1> QED BY <1>2, <1>3, <1>4 DEF LoopInv

LEMMA BeginTurnKeeps ==
    ASSUME LoopInv, NEW t \in Slots, BeginTurn(t)
    PROVE  LoopInv' /\ Earned
<1>1. PICK new \in BOOLEAN, blind \in 0..Len(calls), verdict \in Verdicts, stalled \in BOOLEAN :
          LET acc == Observed(row, new, blind)
              c   == Policy(Recovered(acc.c), verdict)
              cont == acc.c.observed # row.observed
              refused == \/ verdict = "deny"
                         \/ verdict = "approve" /\ ~acc.c.approved
              d   == IF stalled THEN Stalled(c) ELSE c
          IN IF acc.duplicate
             THEN /\ row' = [acc.c EXCEPT !.final = IF @ = "blocked" THEN @ ELSE "failed"]
                  /\ UNCHANGED <<copy, stage, calls>>
             ELSE IF refused
             THEN /\ row' = IterationEnded([c EXCEPT !.final = "blocked"])
                  /\ UNCHANGED <<copy, stage, calls>>
             ELSE /\ row' = d
                  /\ copy' = [copy EXCEPT ![t] = d]
                  /\ stage' = [stage EXCEPT ![t] = IF cont THEN "continuing" ELSE "begun"]
                  /\ UNCHANGED calls
  BY DEF BeginTurn
<1> DEFINE acc == Observed(row, new, blind)
           b   == acc.c
           c   == Policy(Recovered(b), verdict)
           d   == IF stalled THEN Stalled(c) ELSE c
           e   == IF b.final = "blocked" THEN b.final ELSE "failed"
           f   == [b EXCEPT !.final = e]
           g   == [c EXCEPT !.final = "blocked"]
<1>2. begun' \in 0..MaxTurns /\ commands' \in 0..MaxCommands
  BY DEF BeginTurn, LoopInv
<1>3. SessionFits(b) /\ Mild(row, b)
  BY ObservedFits DEF LoopInv
<1>4. SessionFits(c) /\ Mild(row, c)
  <2> HIDE DEF b
  <2> QED BY <1>3, RecoveredFits, PolicyFits DEF Mild
<1>5. SessionFits(d) /\ Mild(row, d)
  <2> HIDE DEF c
  <2> QED BY <1>4, StalledFits DEF Mild
<1>6. SessionFits(f) /\ ~Succeeded(f)
  <2>1. b \in Session /\ e \in Finals /\ e # "completed"
    BY <1>3 DEF SessionFits, SessionTyped, Session, Finals
  <2> HIDE DEF b, e
  <2>2. SessionFits(f) /\ f.final = e
    BY <1>3, <2>1, AsideFits
  <2> HIDE DEF f
  <2> QED BY <2>1, <2>2 DEF Succeeded
<1>7. SessionFits(IterationEnded(g)) /\ ~Succeeded(IterationEnded(g))
  <2>1. SessionFits(g) /\ g.final = "blocked"
    <3> HIDE DEF c
    <3> QED BY <1>4, AsideFits, "blocked" \in Finals DEF Finals
  <2> HIDE DEF g
  <2> QED BY <2>1, IterationEndedFits DEF Mild, Succeeded
<1>8. CASE row' = f /\ UNCHANGED <<copy, stage, calls>>
  <2> HIDE DEF f
  <2> QED BY <1>2, <1>6, <1>8, RowKeeps DEF Earned, Succeeded
<1>9. CASE row' = IterationEnded(g) /\ UNCHANGED <<copy, stage, calls>>
  <2> HIDE DEF g
  <2> QED BY <1>2, <1>7, <1>9, RowKeeps DEF Earned, Succeeded
<1>10. CASE /\ row' = d /\ copy' = [copy EXCEPT ![t] = d]
            /\ stage' = [stage EXCEPT ![t] = IF b.observed # row.observed THEN "continuing" ELSE "begun"]
            /\ UNCHANGED calls
  <2> DEFINE next == IF b.observed # row.observed THEN "continuing" ELSE "begun"
  <2>1. next \in Stages \ Underway
    BY DEF Stages, Underway
  <2> HIDE DEF d, b, next
  <2>2. \E u \in Slots, to \in Stages \ Underway :
           copy' = [copy EXCEPT ![u] = d] /\ stage' = [stage EXCEPT ![u] = to]
    BY <1>10, <2>1 DEF next
  <2>3. LoopInv'
    BY <1>2, <1>5, <1>10, <2>2, RowKeeps
  <2> QED BY <1>5, <1>10, <2>3 DEF Earned, Succeeded, Mild
<1>11. [acc.c EXCEPT !.final = IF @ = "blocked" THEN @ ELSE "failed"] = f
  <2>1. b \in Session
    BY <1>3 DEF SessionFits, SessionTyped
  <2> HIDE DEF acc
  <2> QED BY <2>1 DEF Session
<1> QED
  <2> HIDE DEF f, g, c, acc
  <2> QED BY <1>1, <1>8, <1>9, <1>10, <1>11 DEF f, g, c, acc

\* A turn that fails, or is left, completes nothing.
LEMMA FailKeeps ==
    ASSUME LoopInv, NEW t \in Slots, NEW c, SessionFits(c), Fail(t, c)
    PROVE  LoopInv' /\ Earned
<1>1. Close(t, c, "failed") /\ calls' = calls /\ "failed" \in {"completed", "failed", "cancelled"}
  BY DEF Fail
<1>2. CallsTyped' /\ Len(calls) <= Len(calls') /\ \A i \in Ran(calls) : calls'[i] = calls[i]
  BY <1>1 DEF LoopInv, CallsTyped
<1> QED BY <1>1, <1>2, CloseKeeps

LEMMA SavedKeeps ==
    ASSUME LoopInv, NEW t \in Slots, NEW c, SessionFits(c), NEW next \in Stages,
           c.final = "none", Saved(t, c, next)
    PROVE  LoopInv' /\ Earned
<1>1. MoveOn(t, c, next) /\ row' = c
  BY DEF Saved
<1>2. LoopInv'
  BY <1>1, MoveOnKeeps
<1> QED BY <1>1, <1>2 DEF Earned, Succeeded

LEMMA KeptKeeps ==
    ASSUME LoopInv, NEW t \in Slots, NEW c, SessionFits(c), NEW next \in Stages,
           next \in Underway => c.final = "none", Kept(t, c, next)
    PROVE  LoopInv' /\ Earned
<1>1. MoveOn(t, c, next) /\ row' = row
  BY DEF Kept
<1>2. LoopInv'
  BY <1>1, MoveOnKeeps
<1> QED BY <1>1, <1>2 DEF Earned

LEMMA AdmitKeeps ==
    ASSUME LoopInv, NEW t \in Slots, Admit(t)
    PROVE  LoopInv' /\ Earned
<1>1. SessionFits(copy[t]) /\ "consulting" \in Stages /\ "consulting" \notin Underway
  BY DEF LoopInv, Stages, Underway
<1>2. CASE Stopped(copy[t]) /\ Fail(t, copy[t])
  BY <1>1, <1>2, FailKeeps
<1>3. CASE Kept(t, copy[t], "consulting")
  BY <1>1, <1>3, KeptKeeps
<1>4. ASSUME NEW expired \in BOOLEAN,
             LET c == BeginIteration(copy[t], expired)
             IN IF c.iteration > copy[t].iteration THEN Kept(t, c, "consulting")
                ELSE Fail(t, IF c.reason # "none" THEN Block(c) ELSE c)
      PROVE  LoopInv' /\ Earned
  <2> DEFINE c == BeginIteration(copy[t], expired)
             d == IF c.reason # "none" THEN Block(c) ELSE c
  <2>1. SessionFits(c)
    BY <1>1, BeginIterationFits
  <2>2. SessionFits(d)
    <3> HIDE DEF c
    <3> QED BY <2>1, BlockFits
  <2>3. Kept(t, c, "consulting") \/ Fail(t, d)
    BY <1>4
  <2> HIDE DEF c, d
  <2> QED BY <1>1, <2>1, <2>2, <2>3, KeptKeeps, FailKeeps
<1> QED BY <1>2, <1>3, <1>4 DEF Admit

LEMMA ConsultKeeps ==
    ASSUME LoopInv, NEW t \in Slots, ConsultExpert(t)
    PROVE  LoopInv' /\ Earned
<1> DEFINE c == copy[t]
           d == Consume(c, "expert_calls")
<1>1. /\ SessionFits(c) /\ "working" \in Stages /\ "expert_calls" \in Kinds
      /\ {"expert", "outage", "finding"} \subseteq Evidence
  BY DEF LoopInv, Stages, Kinds, Evidence
<1>2. SessionFits(d)
  <2> HIDE DEF c
  <2> QED BY <1>1, ConsumeFits
<1>3. \/ Saved(t, Settled(c), "working")
      \/ Fail(t, d)
      \/ Saved(t, Settled(Note(d, "expert")), "working")
      \/ Saved(t, Settled(Note(d, "outage")), "working")
      \/ \E wants \in {"change", "evidence"} :
            Saved(t, Settled(Note(FrontierRejects(d, wants), "finding")), "working")
  BY DEF ConsultExpert
<1> HIDE DEF c, d
<1>4. CASE Saved(t, Settled(c), "working")
  BY <1>1, <1>4, SettledFits, SavedKeeps
<1>5. CASE Fail(t, d)
  BY <1>2, <1>5, FailKeeps
<1>6. CASE Saved(t, Settled(Note(d, "expert")), "working")
  BY <1>1, <1>2, <1>6, NoteFits, SettledFits, SavedKeeps
<1>7. CASE Saved(t, Settled(Note(d, "outage")), "working")
  BY <1>1, <1>2, <1>7, NoteFits, SettledFits, SavedKeeps
<1>8. ASSUME NEW wants \in {"change", "evidence"},
             Saved(t, Settled(Note(FrontierRejects(d, wants), "finding")), "working")
      PROVE  LoopInv' /\ Earned
  BY <1>1, <1>2, <1>8, FrontierRejectsFits, NoteFits, SettledFits, SavedKeeps
<1> QED BY <1>3, <1>4, <1>5, <1>6, <1>7, <1>8

LEMMA ChargedFits ==
    ASSUME NEW c, SessionFits(c), NEW k \in Nat, Affords(c, k)
    PROVE  SessionFits(Charged(c, k)) /\ Charged(c, k).final = c.final
<1>1. CASE ~c.live
  BY <1>1 DEF Charged
<1>2. CASE c.live
  <2> DEFINE left == [c.left EXCEPT !["tool_calls"] = @ - k]
             d    == [c EXCEPT !.left = left]
  <2>1. /\ c \in Session /\ c.left \in [Kinds -> Nat] /\ k <= c.left["tool_calls"]
        /\ c.iteration \in Nat
    BY <1>2 DEF SessionFits, SessionTyped, Session, Affords
  <2>2. left \in [Kinds -> Nat] /\ left["iterations"] = c.left["iterations"]
    BY <2>1 DEF Kinds
  <2>3. Charged(c, k) = d
    BY <1>2, <2>1 DEF Charged
  <2> HIDE DEF left
  <2>4. d \in Session
    BY <2>1, <2>2 DEF Session
  <2>5. /\ IdleKept(c, d) /\ ReviewKept(c, d) /\ CallsKept(c, d)
        /\ d.left = left /\ d.iteration = c.iteration /\ d.ended = c.ended /\ d.final = c.final
    BY <2>1 DEF Session, IdleKept, ReviewKept, CallsKept
  <2>6. SessionTyped(d)
    BY <2>1, <2>2, <2>4, <2>5 DEF SessionFits, SessionTyped
  <2> QED BY <2>3, <2>4, <2>5, <2>6, KeptFits DEF SessionFits
<1> QED BY <1>1, <1>2

LEMMA ProposeCallsKeeps ==
    ASSUME LoopInv, NEW t \in Slots, ProposeCalls(t)
    PROVE  LoopInv' /\ Earned
<1>1. PICK k \in 0..MaxPerAnswer :
          LET c == Charged(copy[t], k) IN
          /\ Affords(copy[t], k)
          /\ \/ Fail(t, Terminate(Block(c), "POLICY_BLOCKED"))
             \/ ~Admits(c, "tool_calls") /\ Fail(t, Consume(c, "tool_calls"))
             \/ /\ k > 0 /\ Len(calls) + k <= MaxCalls
                /\ calls' = calls \o [i \in 1..k |-> "sent"]
                /\ Close(t, c, "completed")
  BY DEF ProposeCalls
<1> DEFINE c == Charged(copy[t], k)
<1>2. /\ SessionFits(copy[t]) /\ copy[t].final = "none" /\ "tool_calls" \in Kinds /\ k \in Nat
      /\ "POLICY_BLOCKED" \in Reasons \ {"none", "SUCCESS"}
  BY DEF LoopInv, ProposeCalls, Underway, Kinds, Reasons
<1>3. SessionFits(c) /\ c.final = "none"
  BY <1>1, <1>2, ChargedFits
<1> HIDE DEF c
<1>4. CASE Fail(t, Terminate(Block(c), "POLICY_BLOCKED"))
  BY <1>2, <1>3, <1>4, BlockFits, TerminateFits, FailKeeps
<1>5. CASE Fail(t, Consume(c, "tool_calls"))
  BY <1>2, <1>3, <1>5, ConsumeFits, FailKeeps
<1>6. CASE /\ Len(calls) + k <= MaxCalls /\ calls' = calls \o [i \in 1..k |-> "sent"]
           /\ Close(t, c, "completed")
  <2> DEFINE sent == [i \in 1..k |-> "sent"]
  <2>1. sent \in Seq({"sent", "read", "change", "fail"}) /\ Len(sent) = k
    BY <1>2
  <2> HIDE DEF sent
  <2>2. calls' = calls \o sent
    BY <1>6 DEF sent
  <2>3. /\ CallsTyped' /\ Len(calls) <= Len(calls')
        /\ \A i \in Ran(calls) : calls'[i] = calls[i]
    BY <1>2, <1>6, <2>1, <2>2 DEF LoopInv, CallsTyped, Ran
  <2> QED BY <1>3, <1>6, <2>3, CloseKeeps DEF Succeeded
<1> QED BY <1>1, <1>4, <1>5, <1>6 DEF c

LEMMA ClientRunsKeeps ==
    ASSUME LoopInv, NEW i \in 1..Len(calls), ClientRuns(i)
    PROVE  LoopInv' /\ Earned
<1>1. /\ calls[i] = "sent" /\ UNCHANGED <<row, copy, stage, begun, commands>>
      /\ \E outcome \in {"read", "change", "fail"} : calls' = [calls EXCEPT ![i] = outcome]
  BY DEF ClientRuns
<1>2. /\ CallsTyped /\ CallsTyped' /\ Len(calls) <= Len(calls')
      /\ \A j \in Ran(calls) : calls'[j] = calls[j]
  BY <1>1 DEF LoopInv, CallsTyped, Ran
<1>3. ASSUME NEW c, SessionFits(c)
      PROVE  SessionTyped(c) /\ IdleFits(c) /\ ApprovalFits(c, calls') /\ CallsFit(c, calls')
  BY <1>2, <1>3, CallsGrow DEF SessionFits
<1>4. SessionFits(row)'
  BY <1>1, <1>3 DEF LoopInv, SessionFits
<1>5. \A t \in Slots : SessionFits(copy[t])'
  BY <1>1, <1>3 DEF LoopInv, SessionFits
<1> QED BY <1>1, <1>2, <1>4, <1>5 DEF LoopInv, Earned

LEMMA BrokenKeeps ==
    ASSUME LoopInv, NEW t \in Slots, Broken(t)
    PROVE  LoopInv' /\ Earned
<1>1. SessionFits(copy[t]) /\ {"PROVIDER_UNAVAILABLE", "INTERNAL_FAILURE"} \subseteq Reasons \ {"none"}
  BY DEF LoopInv, Reasons
<1>2. \/ Fail(t, copy[t])
      \/ Fail(t, Terminate(copy[t], "PROVIDER_UNAVAILABLE"))
      \/ Fail(t, Terminate(copy[t], "INTERNAL_FAILURE"))
  BY DEF Broken
<1> QED BY <1>1, <1>2, TerminateFits, FailKeeps

LEMMA AskReviewerKeeps ==
    ASSUME LoopInv, NEW t \in Slots, AskReviewer(t)
    PROVE  LoopInv' /\ Earned
<1> DEFINE b == copy[t]
           c == [b EXCEPT !.phase = "REVIEWING"]
           d == Consume(c, "reviewer_calls")
<1>1. /\ SessionFits(b) /\ b.final = "none" /\ "reviewer_calls" \in Kinds
      /\ "REVIEWING" \in Phases /\ "reviewing" \in Stages
  BY DEF LoopInv, AskReviewer, Underway, Kinds, Phases, Stages
<1>2. \/ Admits(c, "reviewer_calls") /\ Kept(t, d, "reviewing")
      \/ Fail(t, d)
  BY DEF AskReviewer
<1> HIDE DEF b
<1>3. SessionFits(c) /\ c.final = "none"
  BY <1>1, AsideFits
<1> HIDE DEF c
<1>4. SessionFits(d) /\ (Admits(c, "reviewer_calls") => d.final = "none")
  BY <1>1, <1>3, ConsumeFits
<1> HIDE DEF d
<1> QED BY <1>1, <1>2, <1>4, KeptKeeps, FailKeeps

LEMMA NoReviewKeeps ==
    ASSUME LoopInv, NEW t \in Slots, NoReview(t)
    PROVE  LoopInv' /\ Earned
<1>1. /\ SessionFits(copy[t]) /\ copy[t].final = "none" /\ "reviewed" \in Stages
      /\ Kept(t, copy[t], "reviewed")
  BY DEF LoopInv, NoReview, Underway, Stages
<1> QED BY <1>1, KeptKeeps

LEMMA EndReviewKeeps ==
    ASSUME LoopInv, NEW t \in Slots, EndReview(t)
    PROVE  LoopInv' /\ Earned
<1> DEFINE b == copy[t]
           c(verdict) == [b EXCEPT !.review = verdict,
                          !.reviewed = IF verdict = "approved" THEN b.observed ELSE @,
                          !.phase = IF verdict = "approved" THEN "EXECUTING" ELSE "CORRECTION"]
           f == [b EXCEPT !.review = "failed"]
<1>1. /\ SessionFits(b) /\ b.final = "none" /\ b \in Session /\ "reviewed" \in Stages
      /\ {"approved", "rejected", "failed"} \subseteq Reviews
      /\ {"EXECUTING", "CORRECTION"} \subseteq Phases /\ {"approved", "rejected"} \subseteq Evidence
  BY DEF LoopInv, EndReview, Underway, Stages, Reviews, Phases, Evidence
<1>2. \/ \E said \in {"approved", "rejected"} :
            Saved(t, Note(c(Verdict(b, said)), Verdict(b, said)), "reviewed")
      \/ Saved(t, f, "reviewed")
      \/ Fail(t, f)
  BY DEF EndReview
<1> HIDE DEF b
<1>3. ASSUME NEW said \in {"approved", "rejected"},
             Saved(t, Note(c(Verdict(b, said)), Verdict(b, said)), "reviewed")
      PROVE  LoopInv' /\ Earned
  <2> DEFINE verdict  == Verdict(b, said)
             reviewed == IF verdict = "approved" THEN b.observed ELSE b.reviewed
             shown    == IF verdict = "approved" THEN "EXECUTING" ELSE "CORRECTION"
             d        == [b EXCEPT !.review = verdict, !.reviewed = reviewed, !.phase = shown]
  <2>1. verdict \in {"approved", "rejected"} /\ (verdict = "approved" => b.correct = "no")
    BY DEF Verdict
  <2>2. c(verdict) = d
    BY <1>1 DEF Session
  <2>3. reviewed \subseteq 1..MaxCalls /\ shown \in Phases /\ verdict \in Reviews
    BY <1>1, <2>1 DEF Session
  <2>4. verdict = "approved" => reviewed = b.observed
    OBVIOUS
  <2> HIDE DEF verdict, reviewed, shown, c
  <2>5. d \in Session
    BY <1>1, <2>3 DEF Session
  <2>6. /\ CountersKept(b, d) /\ IdleKept(b, d) /\ CallsKept(b, d) /\ d.final = b.final
        /\ d.review = verdict /\ d.correct = b.correct /\ d.reviewed = reviewed
    BY <1>1 DEF Session, CountersKept, IdleKept, CallsKept
  <2>7. ApprovalFits(d, calls)
    BY <2>1, <2>4, <2>6 DEF ApprovalFits, CallsKept
  <2>8. SessionFits(d) /\ d.final = "none"
    BY <1>1, <2>5, <2>6, <2>7, KeptFits DEF SessionFits
  <2>9. Saved(t, Note(d, verdict), "reviewed")
    BY <1>3, <2>2 DEF verdict
  <2> HIDE DEF d
  <2> QED BY <1>1, <2>1, <2>8, <2>9, NoteFits, SavedKeeps
<1>4. SessionFits(f) /\ f.final = "none"
  <2>1. f \in Session
    BY <1>1 DEF Session
  <2>2. /\ CountersKept(b, f) /\ IdleKept(b, f) /\ CallsKept(b, f) /\ f.final = b.final
        /\ f.review = "failed"
    BY <1>1 DEF Session, CountersKept, IdleKept, CallsKept
  <2> QED BY <1>1, <2>1, <2>2, KeptFits DEF SessionFits, ApprovalFits
<1> HIDE DEF f, c
<1> QED BY <1>1, <1>2, <1>3, <1>4, SavedKeeps, FailKeeps

\* SUCCESS is signalled with evidence and a review of all that was observed.
LEMMA SuccessFits ==
    ASSUME NEW c, SessionFits(c), Ready(c)
    PROVE  SessionFits(Success(c)) /\ Backed(Success(c))
<1> DEFINE d == [c EXCEPT !.phase = "COMPLETED", !.final = "completed"]
           e == [d EXCEPT !.reason = "SUCCESS"]
<1>1. /\ c \in Session /\ "COMPLETED" \in Phases /\ "completed" \in Finals
      /\ "SUCCESS" \in Reasons \ {"none"}
  BY DEF SessionFits, SessionTyped, Phases, Finals, Reasons
<1>2. d \in Session
  BY <1>1 DEF Session
<1>3. /\ CountersKept(c, d) /\ IdleKept(c, d) /\ ReviewKept(c, d) /\ CallsKept(c, d)
      /\ d.met = c.met
  BY <1>1 DEF Session, CountersKept, IdleKept, ReviewKept, CallsKept
<1>4. SessionFits(d) /\ Backed(d)
  BY <1>2, <1>3, KeptFits
  DEF SessionFits, Backed, Ready, ApprovalFits, ReviewKept, CallsKept
<1>5. Success(c) = Terminate(d, "SUCCESS") /\ Success(c) \in {d, e}
  BY DEF Success, Terminate
<1> HIDE DEF d
<1>6. SessionFits(Success(c))
  BY <1>1, <1>4, <1>5, TerminateFits
<1>7. Backed(e)
  <2>1. ReviewKept(d, e) /\ CallsKept(d, e) /\ e.met = d.met
    BY <1>2 DEF Session, ReviewKept, CallsKept
  <2> QED BY <1>4, <2>1 DEF Backed, ReviewKept, CallsKept
<1> HIDE DEF e
<1> QED BY <1>4, <1>5, <1>6, <1>7

\* A turn that hands in c and does not complete it, or has it backed.
LEMMA HandInKeeps ==
    ASSUME LoopInv, NEW t \in Slots, NEW c, SessionFits(c), c.final # "completed" \/ Backed(c),
           NEW status \in {"completed", "failed"}, Close(t, c, status), UNCHANGED calls
    PROVE  LoopInv' /\ Earned
<1>1. CallsTyped' /\ Len(calls) <= Len(calls') /\ \A i \in Ran(calls) : calls'[i] = calls[i]
  BY DEF LoopInv, CallsTyped
<1> QED BY <1>1, CloseKeeps DEF Succeeded

LEMMA SignalFits ==
    ASSUME NEW c, SessionFits(c), NEW reason \in Reasons \ {"none", "SUCCESS"}
    PROVE  SessionFits(Signal(c, reason)) /\ Signal(c, reason).final # "completed"
<1>1. SessionFits(Block(c)) /\ Block(c).final = "blocked"
  BY BlockFits
<1>2. SessionFits(Signal(c, reason)) /\ Mild(Block(c), Signal(c, reason))
  BY <1>1, TerminateFits DEF Signal
<1> QED BY <1>1, <1>2 DEF Mild

LEMMA ConcludeKeeps ==
    ASSUME LoopInv, NEW t \in Slots, Conclude(t)
    PROVE  LoopInv' /\ Earned
<1> DEFINE c == copy[t]
           p == [c EXCEPT !.phase = "COMPLETED", !.final = "degraded"]
           m == [c EXCEPT !.met = c.live]
           d(evidence) == IF evidence THEN NoteNew(m) ELSE c
<1>1. /\ SessionFits(c) /\ c \in Session /\ c.final = "none" /\ c.live \in BOOLEAN
      /\ "COMPLETED" \in Phases /\ "degraded" \in Finals
      /\ {"PERMISSION_REQUIRED", "PARTIAL_SUCCESS"} \subseteq Reasons \ {"none", "SUCCESS"}
  BY DEF LoopInv, Conclude, Underway, Phases, Finals, Reasons, Session
<1>2. /\ \/ Close(t, Signal(c, "PERMISSION_REQUIRED"), "completed")
         \/ Close(t, Terminate(p, "PARTIAL_SUCCESS"), "completed")
         \/ \E evidence \in BOOLEAN :
               Close(t, IF Ready(d(evidence)) THEN Success(d(evidence)) ELSE d(evidence), "completed")
      /\ UNCHANGED calls
  BY DEF Conclude
<1> HIDE DEF c
<1>3. CASE Close(t, Signal(c, "PERMISSION_REQUIRED"), "completed")
  BY <1>1, <1>2, <1>3, SignalFits, HandInKeeps
<1>4. CASE Close(t, Terminate(p, "PARTIAL_SUCCESS"), "completed")
  <2>1. p \in Session
    BY <1>1 DEF Session
  <2>2. /\ CountersKept(c, p) /\ IdleKept(c, p) /\ ReviewKept(c, p) /\ CallsKept(c, p)
        /\ p.final = "degraded"
    BY <1>1 DEF Session, CountersKept, IdleKept, ReviewKept, CallsKept
  <2>3. SessionFits(p)
    BY <1>1, <2>1, <2>2, KeptFits DEF SessionFits
  <2>4. /\ SessionFits(Terminate(p, "PARTIAL_SUCCESS"))
        /\ Terminate(p, "PARTIAL_SUCCESS").final # "completed"
    BY <1>1, <2>2, <2>3, TerminateFits DEF Mild
  <2> HIDE DEF p
  <2> QED BY <1>2, <1>4, <2>4, HandInKeeps
<1>5. ASSUME NEW evidence \in BOOLEAN,
             Close(t, IF Ready(d(evidence)) THEN Success(d(evidence)) ELSE d(evidence), "completed")
      PROVE  LoopInv' /\ Earned
  <2> DEFINE e == d(evidence)
             f == IF Ready(e) THEN Success(e) ELSE e
  <2>1. SessionFits(m) /\ m.final = "none"
    BY <1>1, AsideFits
  <2>2. SessionFits(e) /\ e.final = "none"
    <3> HIDE DEF m
    <3> QED BY <1>1, <2>1, NoteNewFits
  <2> HIDE DEF e
  <2>3. SessionFits(f) /\ (f.final # "completed" \/ Backed(f))
    BY <2>2, SuccessFits
  <2>4. Close(t, f, "completed")
    BY <1>5 DEF e
  <2> HIDE DEF f
  <2> QED BY <1>2, <2>3, <2>4, HandInKeeps
<1> HIDE DEF d
<1> QED BY <1>2, <1>3, <1>4, <1>5

LEMMA StartJudgeKeeps ==
    ASSUME LoopInv, NEW t \in Slots, StartJudge(t)
    PROVE  LoopInv' /\ Earned
<1> DEFINE b == copy[t]
           c == [b EXCEPT !.phase = "HEAVY_REVIEW"]
           d == Consume(c, "expert_calls")
<1>1. /\ SessionFits(b) /\ b.final = "none" /\ "expert_calls" \in Kinds
      /\ "HEAVY_REVIEW" \in Phases /\ "judging" \in Stages
  BY DEF LoopInv, StartJudge, Underway, Kinds, Phases, Stages
<1>2. \/ Admits(c, "expert_calls") /\ Saved(t, d, "judging")
      \/ Fail(t, d)
  BY DEF StartJudge
<1> HIDE DEF b
<1>3. SessionFits(c) /\ c.final = "none"
  BY <1>1, AsideFits
<1> HIDE DEF c
<1>4. SessionFits(d) /\ (Admits(c, "expert_calls") => d.final = "none")
  BY <1>1, <1>3, ConsumeFits
<1> HIDE DEF d
<1> QED BY <1>1, <1>2, <1>4, SavedKeeps, FailKeeps

LEMMA EndJudgeKeeps ==
    ASSUME LoopInv, NEW t \in Slots, EndJudge(t)
    PROVE  LoopInv' /\ Earned
<1> DEFINE b == copy[t]
           c == [b EXCEPT !.judged = TRUE]
           e == [c EXCEPT !.phase = "CORRECTION"]
           f == IF Ready(c) THEN Success(c) ELSE e
<1>1. /\ SessionFits(b) /\ b.final = "none" /\ "CORRECTION" \in Phases
      /\ "JUDGE_REJECTED" \in Reasons \ {"none", "SUCCESS"}
  BY DEF LoopInv, EndJudge, Underway, Phases, Reasons
<1>2. /\ \/ Close(t, f, "completed")
         \/ Close(t, e, "failed")
         \/ Close(t, Signal(c, "JUDGE_REJECTED"), "failed")
      /\ UNCHANGED calls
  BY DEF EndJudge
<1> HIDE DEF b
<1>3. SessionFits(c) /\ c.final = "none"
  BY <1>1, AsideFits
<1> HIDE DEF c
<1>4. SessionFits(e) /\ e.final = "none"
  BY <1>1, <1>3, AsideFits
<1> HIDE DEF e
<1>5. SessionFits(f) /\ (f.final # "completed" \/ Backed(f))
  BY <1>3, <1>4, SuccessFits
<1> HIDE DEF f
<1>6. CASE Close(t, f, "completed")
  BY <1>2, <1>5, <1>6, HandInKeeps
<1>7. CASE Close(t, e, "failed")
  BY <1>2, <1>4, <1>7, HandInKeeps
<1>8. CASE Close(t, Signal(c, "JUDGE_REJECTED"), "failed")
  BY <1>1, <1>2, <1>3, <1>8, SignalFits, HandInKeeps
<1> QED BY <1>2, <1>6, <1>7, <1>8

LEMMA CancelledKeeps ==
    ASSUME LoopInv, NEW t \in Slots, Cancelled(t)
    PROVE  LoopInv' /\ Earned
<1>1. SessionFits(copy[t]) /\ Close(t, copy[t], "cancelled") /\ calls' = calls
  BY DEF LoopInv, Cancelled
<1>2. CallsTyped' /\ Len(calls) <= Len(calls') /\ \A i \in Ran(calls) : calls'[i] = calls[i]
  BY <1>1 DEF LoopInv, CallsTyped
<1> QED BY <1>1, <1>2, CloseKeeps, "cancelled" # "completed"

LEMMA OperateKeeps ==
    ASSUME LoopInv, Operate
    PROVE  LoopInv' /\ Earned
<1>1. PICK control \in {"paused", "running", "terminated"} :
          row' = LET c == [row EXCEPT !.control = control]
                 IN IF control = "terminated"
                    THEN Terminate([c EXCEPT !.phase = "BLOCKED", !.final = "cancelled"], "CLIENT_CANCELLED")
                    ELSE c
  BY DEF Operate
<1> DEFINE c == [row EXCEPT !.control = control]
           d == [c EXCEPT !.phase = "BLOCKED", !.final = "cancelled"]
           e == IF control = "terminated" THEN Terminate(d, "CLIENT_CANCELLED") ELSE c
<1>2. /\ SessionFits(row) /\ row \in Session /\ "BLOCKED" \in Phases /\ "cancelled" \in Finals
      /\ "CLIENT_CANCELLED" \in Reasons \ {"none"}
  BY DEF LoopInv, SessionFits, SessionTyped, Phases, Finals, Reasons
<1>3. c \in Session
  BY <1>2 DEF Session
<1>4. /\ CountersKept(row, c) /\ IdleKept(row, c) /\ ReviewKept(row, c) /\ CallsKept(row, c)
      /\ c.final = row.final
  BY <1>2 DEF Session, CountersKept, IdleKept, ReviewKept, CallsKept
<1>5. SessionFits(c) /\ (Succeeded(c) => Succeeded(row))
  BY <1>2, <1>3, <1>4, KeptFits DEF SessionFits, Succeeded, IdleKept
<1> HIDE DEF c
<1>6. d \in Session
  BY <1>2, <1>3 DEF Session
<1>7. /\ CountersKept(c, d) /\ IdleKept(c, d) /\ ReviewKept(c, d) /\ CallsKept(c, d)
      /\ d.final = "cancelled"
  BY <1>3 DEF Session, CountersKept, IdleKept, ReviewKept, CallsKept
<1>8. SessionFits(d)
  BY <1>5, <1>6, <1>7, KeptFits DEF SessionFits
<1>9. SessionFits(e) /\ (Succeeded(e) => Succeeded(row))
  <2> HIDE DEF d
  <2> QED BY <1>2, <1>5, <1>7, <1>8, TerminateFits DEF Succeeded, Mild
<1>10. row' = e
  BY <1>1 DEF c
<1>11. UNCHANGED <<copy, stage, calls>> /\ begun' \in 0..MaxTurns /\ commands' \in 0..MaxCommands
  BY DEF LoopInv, Operate
<1> HIDE DEF e
<1>12. LoopInv'
  BY <1>9, <1>10, <1>11, RowKeeps
<1> QED BY <1>9, <1>10, <1>12 DEF Earned, Succeeded

LEMMA ApproveKeeps ==
    ASSUME LoopInv, Approve
    PROVE  LoopInv' /\ Earned
<1> DEFINE b == [row EXCEPT !.approved = TRUE]
           c == NoteNew(b)
           r == IF c.reason = "PERMISSION_REQUIRED" THEN "none" ELSE c.reason
           d == [c EXCEPT !.reason = r, !.phase = "REPLANNING", !.final = "none"]
<1>1. /\ SessionFits(row) /\ row \in Session
      /\ "none" \in Reasons /\ "none" \in Finals /\ "REPLANNING" \in Phases
  BY DEF LoopInv, SessionFits, SessionTyped, Reasons, Finals, Phases
<1>2. b \in Session
  BY <1>1 DEF Session
<1>3. CountersKept(row, b) /\ IdleKept(row, b) /\ ReviewKept(row, b) /\ CallsKept(row, b)
  BY <1>1 DEF Session, CountersKept, IdleKept, ReviewKept, CallsKept
<1>4. SessionFits(b)
  BY <1>1, <1>2, <1>3, KeptFits DEF SessionFits
<1> HIDE DEF b
<1>5. SessionFits(c) /\ c.idle # IdleLimit /\ c \in Session
  BY <1>4, NoteNewFits DEF SessionFits, SessionTyped
<1> HIDE DEF c
<1>6. r \in Reasons
  BY <1>1, <1>5 DEF Session
<1>7. row' = d
  <2>1. [c EXCEPT !.reason = IF @ = "PERMISSION_REQUIRED" THEN "none" ELSE @,
                  !.phase = "REPLANNING", !.final = "none"] = d
    BY <1>5 DEF Session
  <2> QED BY <2>1 DEF Approve, b, c
<1> HIDE DEF r
<1>8. d \in Session
  BY <1>1, <1>5, <1>6 DEF Session
<1>9. /\ CountersKept(c, d) /\ ReviewKept(c, d) /\ CallsKept(c, d)
      /\ d.idle = c.idle /\ d.final = "none"
  BY <1>5 DEF Session, CountersKept, ReviewKept, CallsKept
<1>10. SessionFits(d)
  BY <1>5, <1>8, <1>9, KeptFits DEF SessionFits, IdleFits
<1>11. UNCHANGED <<copy, stage, calls>> /\ begun' \in 0..MaxTurns /\ commands' \in 0..MaxCommands
  BY DEF LoopInv, Approve
<1> HIDE DEF d
<1>12. LoopInv'
  BY <1>7, <1>10, <1>11, RowKeeps
<1> QED BY <1>7, <1>9, <1>12 DEF Earned, Succeeded

LEMMA CrashKeeps ==
    ASSUME LoopInv, Crash
    PROVE  LoopInv' /\ Earned
<1>1. /\ UNCHANGED <<row, calls, begun, commands>>
      /\ copy' = [t \in Slots |-> NewSession] /\ stage' = [t \in Slots |-> "idle"]
  BY DEF Crash
<1>2. NewSession \in Session /\ SessionFits(NewSession)
  BY NewSessionFits DEF SessionFits, SessionTyped
<1>3. CallsTyped' /\ stage' \in [Slots -> Stages] /\ copy' \in [Slots -> Session]
  BY <1>1, <1>2 DEF LoopInv, CallsTyped, Stages
<1>4. SessionFits(row)'
  BY <1>1 DEF LoopInv, SessionFits
<1>5. \A t \in Slots : SessionFits(copy[t])' /\ stage'[t] \notin Underway
  BY <1>1, <1>2 DEF SessionFits, Underway
<1> QED BY <1>1, <1>3, <1>4, <1>5 DEF LoopInv, Earned

-----------------------------------------------------------------------------

\* Every step keeps the invariant and completes nothing that was not earned.
LEMMA NextKeeps ==
    ASSUME LoopInv, [LoopNext]_loopVars
    PROVE  LoopInv' /\ Earned
<1>1. ASSUME NEW t \in Slots, BeginTurn(t) PROVE LoopInv' /\ Earned
  BY <1>1, BeginTurnKeeps
<1>2. ASSUME NEW t \in Slots, Turn(t) PROVE LoopInv' /\ Earned
  BY <1>2, AdmitKeeps, ConsultKeeps, ProposeCallsKeeps, BrokenKeeps, AskReviewerKeeps,
     NoReviewKeeps, EndReviewKeeps, ConcludeKeeps, StartJudgeKeeps, EndJudgeKeeps,
     CancelledKeeps DEF Turn
<1>3. CASE UNCHANGED loopVars
  <2>1. /\ row' = row /\ copy' = copy /\ stage' = stage /\ calls' = calls
        /\ begun' = begun /\ commands' = commands
    BY <1>3 DEF loopVars
  <2> QED BY <2>1 DEF LoopInv, CallsTyped, SessionFits, Earned, Succeeded
<1> QED BY <1>1, <1>2, <1>3, ClientRunsKeeps, OperateKeeps, ApproveKeeps, CrashKeeps
        DEF LoopNext

LEMMA LoopInvariance == LoopSpec => []LoopInv
<1>1. LoopInv /\ [LoopNext]_loopVars => LoopInv'
  BY NextKeeps
<1> QED BY <1>1, LoopInitKeeps, PTL DEF LoopSpec

\* A loop that has used up its iterations without evidence has ended, in the row
\* and in every copy that may still be written over it; and the session is well
\* formed, with no budget below zero (record_no_progress, consume_budget, session).
THEOREM LoopsWithoutProgressEnd == LoopSpec => []IdleLoopsStop
<1>1. LoopInv => IdleLoopsStop
  <2> SUFFICES ASSUME LoopInv PROVE IdleLoopsStop
    OBVIOUS
  <2>1. row \in Session /\ copy \in [Slots -> Session] /\ stage \in [Slots -> Stages]
    BY DEF LoopInv, SessionFits, SessionTyped
  <2>2. calls \in BoundedSeq({"sent", "read", "change", "fail"}, MaxCalls)
    <3>1. calls \in [1..Len(calls) -> {"sent", "read", "change", "fail"}]
          /\ Len(calls) \in 0..MaxCalls
      BY DEF LoopInv, CallsTyped
    <3> QED BY <3>1 DEF BoundedSeq, SeqOf
  <2>3. TypeOK
    BY <2>1, <2>2 DEF LoopInv, TypeOK
  <2>4. ASSUME NEW c \in {row} \cup {copy[t] : t \in Slots}, c.idle = IdleLimit
        PROVE  c.reason # "none"
    BY <2>4 DEF LoopInv, SessionFits, IdleFits, Stuck
  <2> QED BY <2>3, <2>4 DEF IdleLoopsStop
<1> QED BY <1>1, LoopInvariance, PTL

\* A session is completed with SUCCESS only on evidence, with no correction open,
\* and by a review that knew of every change the writing turn had observed and of
\* every one the client had made when that turn began, whatever other turns
\* wrote over the row before; not of those other turns observed after it began,
\* nor of those behind a call without a fingerprint (apply_metadata, judge,
\* review, _observe, save).
THEOREM SuccessIsNeverAssumed == LoopSpec => SuccessIsEarned
<1>1. LoopInv /\ [LoopNext]_loopVars
      => [Succeeded(row') /\ ~Succeeded(row)
             => /\ row'.met /\ row'.correct = "no"
                /\ \A i \in row'.observed \cup row'.known :
                      calls[i] = "change" => i \in row'.reviewed]_loopVars
  <2> SUFFICES ASSUME LoopInv, [LoopNext]_loopVars, Succeeded(row'), ~Succeeded(row)
               PROVE  /\ row'.met /\ row'.correct = "no"
                      /\ \A i \in row'.observed \cup row'.known :
                            calls[i] = "change" => i \in row'.reviewed
    OBVIOUS
  <2>1. LoopInv' /\ Earned
    BY NextKeeps
  <2>2. row'.known \subseteq row'.observed
    BY <2>1 DEF LoopInv, SessionFits, CallsFit
  <2> QED BY <2>1, <2>2 DEF Earned
<1> QED BY <1>1, LoopInvariance, PTL DEF LoopSpec, SuccessIsEarned
=============================================================================
