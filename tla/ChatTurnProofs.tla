--------------------------- MODULE ChatTurnProofs ---------------------------
(***************************************************************************)
(* Proofs about ChatTurn, for any set of turns, kinds of request, settings *)
(* and moves of the Reviewer's record: an ended turn holds nothing, the    *)
(* Reviewer's guard stands exactly while a review is under way, and what   *)
(* was to be judged is approved before it is sent.                         *)
(***************************************************************************)
EXTENDS ChatTurn, TLAPS

Stage    == {"arrive", "roles", "admission", "leases", "session", "select", "call", "join",
             "synthesis", "review", "judging", "stand_in", "expert", "correct", "targeted",
             "gate", "over", "adjudicating"}
Beside   == {"select", "call", "join"}              \* the prepare task may be there
Awaiting == {"review", "stand_in", "targeted"}      \* the handler awaits its own review
Judged   == Awaiting \cup {"judging", "expert", "correct", "gate"}
GoneStages == {"over", "adjudicating"}

Found == [kind : Kind, status : {"none", "approved", "open"},
          asked : BOOLEAN, second : BOOLEAN, approved : BOOLEAN]
Thing == {"pin", "roles", "executor", "dynamic"}
Row   == {"none", "open", "completed", "failed", "timed_out", "cancelled"}
Reply == {"none", "200", "503", "error", "gone", "refused", "dropped", "judged"}
Task  == {"none", "running", "reviewing", "ready", "failed"}
Path  == {"none", "answer", "fanout", "fallback", "correction"}
Step  == {"none", "evaluation", "lock", "held", "done"}
Call  == [path : Path, step : Step,
          result : {"none", "approved", "rejected", "error", "raised"}]

Typed ==
    /\ setting \in Setting
    /\ at \in [Turns -> Stage] /\ turn \in [Turns -> Found]
    /\ held \in [Turns -> SUBSET Thing]
    /\ row \in [Turns -> Row] /\ answer \in [Turns -> Reply]
    /\ prep \in [Turns -> Task] /\ call \in [Turns -> Call]
    /\ evaluation \in Turns \cup {Free} /\ lock \in Turns \cup {Free}
    /\ guard \in BOOLEAN /\ record \in 0..MaxMoves
    /\ claim \in [Turns -> 0..MaxMoves + 1]

\* What a turn's stage says of the books.
BooksFit(t) ==
    /\ at[t] = "arrive" => held[t] = {} /\ row[t] = "none"
    /\ at[t] = "over" /\ answer[t] # "dropped" =>
         /\ held[t] = {} /\ row[t] # "open"
         /\ (row[t] = "completed") <=> (answer[t] = "200")
         /\ answer[t] = "gone" => row[t] = "cancelled"
    /\ at[t] = "adjudicating" => row[t] \notin {"open", "completed"}

\* A call of review() belongs to the handler where it awaits one, to the prepare task
\* beside it, or to nobody any more.
CallFits(t) ==
    /\ at[t] \notin Beside => prep[t] = "none"
    /\ call[t].step = "evaluation" => call[t].path = "answer"
    /\ at[t] \in Awaiting => call[t].path # "fanout"
    /\ at[t] \in Beside /\ prep[t] \in {"none", "running", "ready"} => call[t] = NoCall
    /\ at[t] \notin Awaiting => call[t] = NoCall \/ call[t].path = "fanout"
    /\ at[t] \notin Awaiting \cup Beside \cup GoneStages => call[t] = NoCall

\* Only what stands before the Judge, or has passed it, was asked about.
JudgeFits(t) ==
    /\ turn[t].asked => at[t] \in Judged
    /\ at[t] = "gate" /\ turn[t].asked => turn[t].approved

TurnFits(t) == BooksFit(t) /\ CallFits(t) /\ JudgeFits(t)

\* The two locks are where the calls say.
LocksFit ==
    \A t \in Turns :
        /\ (lock = t) <=> (call[t].step = "held")
        /\ evaluation = t => call[t].path = "answer" /\ call[t].step \in {"lock", "held"}

\* Until the record moves, whoever is in the review has the claim, nobody else has one.
GuardFits ==
    setting.guarded /\ record = 0 =>
        /\ guard <=> (\E t \in Turns : call[t].step = "held")
        /\ \A t \in Turns : claim[t] = IF call[t].step = "held" THEN 0 ELSE Unclaimed

IInv == Typed /\ (\A t \in Turns : TurnFits(t)) /\ LocksFit /\ GuardFits
-----------------------------------------------------------------------------
(***************************************************************************)
(* Lemmas: what the exits say, and what the four ways in which a step      *)
(* touches the Reviewer's locks preserve.                                  *)
(***************************************************************************)

\* An exit closes the row, and says "completed" exactly when the client gets its answer.
LEMMA ExitsAreHonest ==
    \A x \in DOMAIN Exit :
        /\ Exit[x][1] \in Row \ {"none", "open"} /\ Exit[x][2] \in Reply \ {"dropped"}
        /\ (Exit[x][1] = "completed") <=> (Exit[x][2] = "200")
        /\ Exit[x][2] = "gone" => Exit[x][1] = "cancelled"
BY DEF Exit, Row, Reply

\* A step of t leaves the other turns alone.
Others(t) ==
    \A u \in Turns \ {t} :
        /\ at'[u] = at[u] /\ turn'[u] = turn[u] /\ held'[u] = held[u] /\ row'[u] = row[u]
        /\ answer'[u] = answer[u] /\ prep'[u] = prep[u] /\ call'[u] = call[u]

Reviewer == evaluation \in Turns \cup {Free} /\ lock \in Turns \cup {Free} /\ guard \in BOOLEAN
                /\ claim \in [Turns -> 0..MaxMoves + 1] /\ LocksFit /\ GuardFits

\* A turn leaves the Reviewer, whether it was in it or only waited (the finally clauses).
LEMMA ReleaseKeeps ==
    ASSUME NEW t \in Turns, Typed, LocksFit, GuardFits, Release(t),
           \A u \in Turns \ {t} : call'[u] = call[u],
           call'[t].step # "held", UNCHANGED <<setting, record>>
    PROVE  Reviewer'
<1>1. /\ \A u \in Turns \ {t} : lock' = u <=> lock = u
      /\ lock' # t /\ evaluation' # t
      /\ \A u \in Turns \ {t} : evaluation' = u => evaluation = u
  BY TurnAssumption DEF Release, Left, Free
<1>2. LocksFit'
  BY <1>1 DEF LocksFit
<1>3. ASSUME setting'.guarded /\ record' = 0
      PROVE  /\ guard' <=> (\E u \in Turns : call'[u].step = "held")
             /\ \A u \in Turns : claim'[u] = IF call'[u].step = "held" THEN 0 ELSE Unclaimed'
  <2>1. /\ guard <=> (\E u \in Turns : call[u].step = "held")
        /\ \A u \in Turns : claim[u] = IF call[u].step = "held" THEN 0 ELSE Unclaimed
    BY <1>3 DEF GuardFits
  <2>2. Unclaimed # 0 /\ Unclaimed' = Unclaimed
    BY TurnAssumption DEF Unclaimed
  <2>3. claim' = [claim EXCEPT ![t] = Unclaimed] /\ claim \in [Turns -> 0..MaxMoves + 1]
    BY DEF Release, Typed
  <2>4. \A u \in Turns : claim'[u] = IF call'[u].step = "held" THEN 0 ELSE Unclaimed
    BY <2>1, <2>3
  <2>5. CASE call[t].step = "held"
    <3>1. ~guard'
      BY <1>3, <2>1, <2>5 DEF Release, Cleared
    <3>2. \A u \in Turns \ {t} : call[u].step # "held"
      BY <2>5 DEF LocksFit
    <3> QED  BY <2>2, <2>4, <3>1, <3>2
  <2>6. CASE call[t].step # "held"
    <3>1. guard' = guard
      BY <1>3, <2>1, <2>2, <2>6 DEF Release, Cleared, Typed
    <3> QED  BY <2>1, <2>2, <2>4, <2>6, <3>1
  <2> QED  BY <2>5, <2>6
<1>4. GuardFits'
  BY <1>3 DEF GuardFits
<1>5. /\ evaluation' \in Turns \cup {Free} /\ lock' \in Turns \cup {Free} /\ guard' \in BOOLEAN
      /\ claim' \in [Turns -> 0..MaxMoves + 1]
  BY TurnAssumption DEF Release, Left, Typed, Unclaimed
<1> QED  BY <1>2, <1>4, <1>5 DEF Reviewer

\* A turn calls review(), or a call that is over is forgotten: the locks stay as they are.
LEMMA CallKeeps ==
    ASSUME NEW t \in Turns, Typed, LocksFit, GuardFits,
           UNCHANGED <<evaluation, lock, guard, claim, setting, record>>,
           \A u \in Turns \ {t} : call'[u] = call[u],
           call[t].step \notin {"lock", "held"}, call'[t].step # "held"
    PROVE  Reviewer'
<1>1. LocksFit'
  BY DEF LocksFit
<1>2. Unclaimed' = Unclaimed
  BY DEF Unclaimed
<1>3. \A u \in Turns : (call'[u].step = "held") <=> (call[u].step = "held")
  OBVIOUS
<1>4. GuardFits'
  BY <1>2, <1>3 DEF GuardFits
<1> QED  BY <1>1, <1>4 DEF Reviewer, Typed

\* A turn enters: nobody else is in, and the guard is set under the record it sees.
LEMMA EntryKeeps ==
    ASSUME NEW t \in Turns, Typed, \A u \in Turns : TurnFits(u), LocksFit, GuardFits,
           EnterEvaluation(t) \/ EnterReview(t)
    PROVE  Reviewer'
<1>1. /\ \A u \in Turns \ {t} : call'[u] = call[u]
      /\ call[t].step \in {"evaluation", "lock"} /\ call'[t].path = call[t].path
      /\ UNCHANGED <<setting, record>> /\ SetGuard(t) /\ ~Collides(t)
      /\ Unclaimed' = Unclaimed
  BY DEF EnterEvaluation, EnterReview, Typed, Unclaimed, Call
<1>2. lock # t
  BY <1>1 DEF LocksFit
<1>3. IF lock = Free THEN lock' = t /\ call'[t].step = "held"
                     ELSE lock' = lock /\ call'[t].step = "lock"
  BY DEF EnterEvaluation, EnterReview, Typed, Call
<1>4. \/ evaluation' = t /\ evaluation = Free /\ call[t].step = "evaluation"
      \/ evaluation' = evaluation
  BY DEF EnterEvaluation, EnterReview
<1>5. call[t].step = "evaluation" => call[t].path = "answer"
  BY DEF TurnFits, CallFits
<1>6. \A u \in Turns : (lock' = u) <=> (call'[u].step = "held")
  BY <1>1, <1>2, <1>3, TurnAssumption DEF LocksFit, Free
<1>7. \A u \in Turns : evaluation' = u =>
          call'[u].path = "answer" /\ call'[u].step \in {"lock", "held"}
  BY <1>1, <1>3, <1>4, <1>5, TurnAssumption DEF LocksFit, Free
<1>8. LocksFit'
  BY <1>6, <1>7 DEF LocksFit
<1>9. ASSUME setting.guarded, record = 0
      PROVE  /\ guard' <=> (\E u \in Turns : call'[u].step = "held")
             /\ \A u \in Turns : claim'[u] = IF call'[u].step = "held" THEN 0 ELSE Unclaimed
  <2>1. /\ guard <=> (\E u \in Turns : call[u].step = "held")
        /\ \A u \in Turns : claim[u] = IF call[u].step = "held" THEN 0 ELSE Unclaimed
    BY <1>9 DEF GuardFits
  <2>2. lock = Free <=> ~guard
    BY <2>1, TurnAssumption DEF LocksFit, Typed, Free
  <2>3. CASE guard
    <3>1. EnterReview(t)
      BY <1>9, <2>3 DEF EnterEvaluation, EnterReview, Collides
    <3> QED  BY <2>2, <2>3, <3>1 DEF EnterReview
  <2>4. CASE ~guard
    <3>1. guard' = TRUE /\ claim' = [claim EXCEPT ![t] = 0] /\ call'[t].step = "held"
      BY <1>1, <1>3, <1>9, <2>2, <2>4 DEF SetGuard
    <3> QED  BY <1>1, <2>1, <3>1 DEF Typed
  <2> QED  BY <2>3, <2>4
<1>10. GuardFits'
  BY <1>1, <1>9 DEF GuardFits
<1>11. /\ evaluation' \in Turns \cup {Free} /\ lock' \in Turns \cup {Free} /\ guard' \in BOOLEAN
       /\ claim' \in [Turns -> 0..MaxMoves + 1]
  <2>1. record \in 0..MaxMoves + 1
    BY TurnAssumption DEF Typed
  <2>2. guard' \in BOOLEAN /\ claim' \in [Turns -> 0..MaxMoves + 1]
    BY <1>1, <2>1 DEF SetGuard, Typed
  <2> QED  BY <1>3, <1>4, <2>2 DEF Typed
<1> QED  BY <1>8, <1>10, <1>11 DEF Reviewer

-----------------------------------------------------------------------------
(***************************************************************************)
(* Lemmas: how a step of one turn preserves the invariant.                 *)
(***************************************************************************)

Shapes == /\ at \in [Turns -> Stage] /\ turn \in [Turns -> Found]
          /\ held \in [Turns -> SUBSET Thing] /\ row \in [Turns -> Row]
          /\ answer \in [Turns -> Reply] /\ prep \in [Turns -> Task] /\ call \in [Turns -> Call]

\* What holds of the turn that steps and of the Reviewer holds of everything.
LEMMA StepKeeps ==
    ASSUME NEW t \in Turns, IInv, Others(t), Shapes', TurnFits(t)', Reviewer',
           setting' = setting, record' \in 0..MaxMoves
    PROVE  IInv'
<1>1. ASSUME NEW u \in Turns \ {t} PROVE TurnFits(u)'
  BY <1>1 DEF IInv, Others, TurnFits, BooksFit, CallFits, JudgeFits
<1> QED  BY <1>1 DEF IInv, Typed, Shapes, Reviewer

\* Where the Reviewer's locks are not touched they stay right.
LEMMA Untouched ==
    ASSUME IInv, UNCHANGED <<setting, reviewing, record>>
    PROVE  Reviewer'
BY DEF IInv, Typed, Reviewer, LocksFit, GuardFits, reviewing, Unclaimed

\* Every way out of the handler: the row is closed, everything is given back, the task is
\* cancelled.
LEMMA EndKeeps ==
    ASSUME NEW t \in Turns, NEW x \in DOMAIN Exit, IInv, End(t, x)
    PROVE  IInv'
<1>1. /\ row' = [row EXCEPT ![t] = Exit[x][1]] /\ answer' = [answer EXCEPT ![t] = Exit[x][2]]
      /\ held' = [held EXCEPT ![t] = {}] /\ prep' = [prep EXCEPT ![t] = "none"]
      /\ at' = [at EXCEPT ![t] = "over"] /\ turn' = [turn EXCEPT ![t] = Fresh]
      /\ UNCHANGED <<setting, record>>
  BY DEF End, Finalize, ReleaseAll, CancelPrepare, Go
<1>2. \/ Release(t) /\ call' = [call EXCEPT ![t] = NoCall]
      \/ Orphans(t) /\ UNCHANGED reviewing
  BY DEF End, CancelPrepare, CancelCall
<1>3. /\ NoCall \in Call /\ NoCall.step = "none" /\ NoCall.path = "none"
      /\ Fresh \in Found /\ ~Fresh.asked
  BY DEF NoCall, Call, Path, Step, Fresh, Found, Kind
<1>4. /\ Exit[x][1] \in Row \ {"none", "open"} /\ Exit[x][2] \in Reply \ {"dropped"}
      /\ (Exit[x][1] = "completed") <=> (Exit[x][2] = "200")
      /\ Exit[x][2] = "gone" => Exit[x][1] = "cancelled"
  BY ExitsAreHonest
<1> HIDE DEF Exit
<1>5. call' \in [Turns -> Call] /\ \A u \in Turns \ {t} : call'[u] = call[u]
  BY <1>2, <1>3 DEF IInv, Typed, reviewing
<1>6. Others(t)
  BY <1>1, <1>5 DEF IInv, Typed, Others
<1>7. Shapes'
  <2>1. at' \in [Turns -> Stage] /\ turn' \in [Turns -> Found] /\ prep' \in [Turns -> Task]
    BY <1>1, <1>3 DEF IInv, Typed, Stage, Task
  <2>2. held' \in [Turns -> SUBSET Thing]
    BY <1>1 DEF IInv, Typed
  <2>3. row' \in [Turns -> Row] /\ answer' \in [Turns -> Reply]
    BY <1>1, <1>4 DEF IInv, Typed
  <2> QED  BY <1>5, <2>1, <2>2, <2>3 DEF Shapes
<1>8. call'[t] = NoCall \/ (call'[t] = call[t] /\ call[t].path = "fanout")
  BY <1>2, <1>3 DEF IInv, Typed, reviewing, Orphans
<1>9. TurnFits(t)'
  <2>1. /\ at'[t] = "over" /\ turn'[t] = Fresh /\ held'[t] = {} /\ prep'[t] = "none"
        /\ row'[t] = Exit[x][1] /\ answer'[t] = Exit[x][2]
    BY <1>1 DEF IInv, Typed
  <2>2. BooksFit(t)'
    BY <1>4, <2>1 DEF BooksFit
  <2>3. call'[t].step = "evaluation" => call'[t].path = "answer"
    BY <1>3, <1>8 DEF IInv, TurnFits, CallFits
  <2>4. CallFits(t)'
    BY <1>8, <2>1, <2>3 DEF CallFits, Awaiting, Beside, GoneStages
  <2>5. JudgeFits(t)'
    BY <1>3, <2>1 DEF JudgeFits
  <2> QED  BY <2>2, <2>4, <2>5 DEF TurnFits
<1>10. Reviewer'
  <2>1. CASE Release(t) /\ call' = [call EXCEPT ![t] = NoCall]
    <3>1. call'[t].step # "held"
      BY <1>3, <2>1 DEF IInv, Typed
    <3> QED  BY <1>1, <1>5, <2>1, <3>1, ReleaseKeeps DEF IInv
  <2>2. CASE UNCHANGED reviewing
    BY <1>1, <2>2, Untouched
  <2> QED  BY <1>2, <2>1, <2>2
<1> QED  BY <1>1, <1>6, <1>7, <1>9, <1>10, StepKeeps DEF IInv, Typed

-----------------------------------------------------------------------------
(***************************************************************************)
(* From the request to the Executor's answer.                              *)
(***************************************************************************)

\* What the invariant says of one turn.
LEMMA TurnKnown ==
    ASSUME NEW t \in Turns, IInv
    PROVE  /\ TurnFits(t) /\ at \in [Turns -> Stage] /\ turn \in [Turns -> Found]
           /\ held \in [Turns -> SUBSET Thing] /\ row \in [Turns -> Row]
           /\ answer \in [Turns -> Reply] /\ prep \in [Turns -> Task]
           /\ call \in [Turns -> Call] /\ record \in 0..MaxMoves
BY DEF IInv, Typed

\* A step of the handler that leaves the Reviewer alone.
LEMMA MoveKeeps ==
    ASSUME NEW t \in Turns, IInv, Others(t), Shapes', TurnFits(t)',
           UNCHANGED <<setting, reviewing, record>>
    PROVE  IInv'
BY Untouched, StepKeeps, TurnKnown

\* Refusals before there is a row, and the way up to the row.
LEMMA ArrivalKeeps ==
    ASSUME NEW t \in Turns, IInv, Refuse(t) \/ Accept(t) \/ OpenRow(t) PROVE IInv'
<1> USE TurnKnown DEF Go
<1>1. CASE Refuse(t)
  <2>1. Others(t) /\ Shapes'
    BY <1>1 DEF Refuse, Others, Shapes, reviewing, Stage, Reply
  <2>2. TurnFits(t)'
    BY <1>1 DEF Refuse, TurnFits, BooksFit, CallFits, JudgeFits, Beside, Awaiting, GoneStages,
                Judged, reviewing
  <2> QED  BY <1>1, <2>1, <2>2, MoveKeeps DEF Refuse
<1>2. CASE Accept(t)
  <2>1. PICK kind \in Kinds[t] : turn' = [turn EXCEPT ![t].kind = kind]
    BY <1>2 DEF Accept, Learn
  <2>2. kind \in Kind
    BY TurnAssumption
  <2>3. Others(t) /\ Shapes'
    <3>1. [turn[t] EXCEPT !.kind = kind] \in Found
      BY <2>2 DEF Found
    <3>2. turn' = [turn EXCEPT ![t] = [@ EXCEPT !.kind = kind]]
      BY <2>1
    <3>3. UNCHANGED <<books, prep, reviewing, record>> /\ at' = [at EXCEPT ![t] = "roles"]
      BY <1>2 DEF Accept, Go
    <3> QED  BY <3>1, <3>2, <3>3 DEF Others, Shapes, reviewing, books, Stage
  <2>4. TurnFits(t)'
    <3>1. BooksFit(t)'
      BY <1>2, <2>1, <2>2 DEF Accept, TurnFits, BooksFit, books, Found
    <3>2. CallFits(t)'
      BY <1>2, <2>1, <2>2 DEF Accept, TurnFits, CallFits, Beside, Awaiting, GoneStages, reviewing, books
    <3>3. JudgeFits(t)'
      BY <1>2, <2>1, <2>2 DEF Accept, Go, TurnFits, JudgeFits, Judged, Awaiting, books, Found
    <3> QED  BY <3>1, <3>2, <3>3 DEF TurnFits
  <2> QED  BY <1>2, <2>3, <2>4, MoveKeeps DEF Accept
<1>3. CASE OpenRow(t)
  <2>1. CASE End(t, "loading")
    <3>1. "loading" \in DOMAIN Exit
      BY DEF Exit
    <3> QED  BY <2>1, <3>1, EndKeeps
  <2>2. CASE ~End(t, "loading")
    <3>1. /\ row' = [row EXCEPT ![t] = "open"] /\ at[t] = "roles"
          /\ at' = [at EXCEPT ![t] = "admission"]
          /\ UNCHANGED <<setting, turn, held, answer, prep, reviewing, record>>
      BY <1>3, <2>2 DEF OpenRow
    <3>2. Others(t) /\ Shapes'
      BY <3>1 DEF Others, Shapes, reviewing, Stage, Row
    <3>3. TurnFits(t)'
      BY <3>1 DEF TurnFits, BooksFit, CallFits, JudgeFits, Beside, Awaiting, GoneStages,
                  Judged, reviewing
    <3> QED  BY <3>1, <3>2, <3>3, MoveKeeps
  <2> QED  BY <2>1, <2>2
<1> QED  BY <1>1, <1>2, <1>3

\* EndKeeps, with the exits by name.
LEMMA ExitKeeps ==
    ASSUME NEW t \in Turns, IInv,
           \E x \in {"completed", "queue", "loading", "frontier", "judge", "repeated", "policy",
                     "correction", "rejected", "backend", "internal", "timeout", "cancelled"} :
               End(t, x)
    PROVE  IInv'
<1>1. DOMAIN Exit = {"completed", "queue", "loading", "frontier", "judge", "repeated", "policy",
          "correction", "rejected", "backend", "internal", "timeout", "cancelled"}
  BY DEF Exit
<1>2. PICK x \in DOMAIN Exit : End(t, x)
  BY <1>1
<1> QED  BY <1>2, EndKeeps

\* The pin, the leases, and the client that goes before there is a try block.
LEMMA AdmissionKeeps ==
    ASSUME NEW t \in Turns, IInv, Admit(t) \/ TakeLeases(t) \/ EarlyDisconnect(t) PROVE IInv'
<1> USE TurnKnown DEF Go
<1>1. CASE Admit(t)
  <2>1. CASE End(t, "queue")
    BY <2>1, ExitKeeps
  <2>2. CASE ~End(t, "queue")
    <3>1. PICK things \in SUBSET {"pin"} : held' = [held EXCEPT ![t] = @ \cup things]
      BY <1>1, <2>2 DEF Admit, Take
    <3>2. /\ at[t] = "admission" /\ at' = [at EXCEPT ![t] = "leases"]
          /\ UNCHANGED <<setting, turn, row, answer, prep, reviewing, record>>
      BY <1>1, <2>2 DEF Admit
    <3>3. Others(t) /\ Shapes'
      BY <3>1, <3>2 DEF Others, Shapes, reviewing, Stage, Thing
    <3>4. TurnFits(t)'
      BY <3>2 DEF TurnFits, BooksFit, CallFits, JudgeFits, Beside, Awaiting, GoneStages,
                  Judged, reviewing
    <3> QED  BY <3>2, <3>3, <3>4, MoveKeeps
  <2> QED  BY <2>1, <2>2
<1>2. CASE TakeLeases(t)
  <2>1. CASE End(t, "loading")
    BY <2>1, ExitKeeps
  <2>2. CASE ~End(t, "loading")
    <3>1. PICK things \in SUBSET {"roles", "executor"} :
              held' = [held EXCEPT ![t] = @ \cup things]
      <4>1. PICK local \in SUBSET {"executor"} : Take(t, {"roles"} \cup local)
        BY <1>2, <2>2 DEF TakeLeases
      <4> QED  BY <4>1 DEF Take
    <3>2. /\ at[t] = "leases" /\ at' = [at EXCEPT ![t] = "session"]
          /\ UNCHANGED <<setting, turn, row, answer, prep, reviewing, record>>
      BY <1>2, <2>2 DEF TakeLeases
    <3>3. Others(t) /\ Shapes'
      BY <3>1, <3>2 DEF Others, Shapes, reviewing, Stage, Thing
    <3>4. TurnFits(t)'
      BY <3>2 DEF TurnFits, BooksFit, CallFits, JudgeFits, Beside, Awaiting, GoneStages,
                  Judged, reviewing
    <3> QED  BY <3>2, <3>3, <3>4, MoveKeeps
  <2> QED  BY <2>1, <2>2
<1>3. CASE EarlyDisconnect(t)
  <2>1. Others(t) /\ Shapes'
    BY <1>3 DEF EarlyDisconnect, Others, Shapes, reviewing, Stage, Reply
  <2>2. TurnFits(t)'
    BY <1>3 DEF EarlyDisconnect, TurnFits, BooksFit, CallFits, JudgeFits, Beside, Awaiting,
                GoneStages, Judged, reviewing
  <2> QED  BY <1>3, <2>1, <2>2, MoveKeeps DEF EarlyDisconnect
<1> QED  BY <1>1, <1>2, <1>3

\* A turn that goes remote, or gives up its pin, only gives leases back.
LEMMA ChoiceShrinks ==
    ASSUME NEW t \in Turns, IInv, Choose(t)
    PROVE  \E kept \in SUBSET Thing : held' = [held EXCEPT ![t] = kept]
<1>1. held \in [Turns -> SUBSET Thing]
  BY TurnKnown
<1>2. CASE held' = [held EXCEPT ![t] = @ \ {"executor"}]
  <2>1. held[t] \ {"executor"} \in SUBSET Thing
    BY <1>1
  <2> QED  BY <1>2, <2>1
<1>3. CASE UNCHANGED held
  <2>1. held[t] \in SUBSET Thing /\ held' = [held EXCEPT ![t] = held[t]]
    BY <1>1, <1>3
  <2> QED  BY <2>1
<1> QED  BY <1>2, <1>3 DEF Choose

\* The session, the route, the provider, the Executor's call.
LEMMA ExecutionKeeps ==
    ASSUME NEW t \in Turns, IInv, Recover(t) \/ SelectProvider(t) \/ CallExecutor(t)
    PROVE  IInv'
<1> USE TurnKnown DEF Go
<1>1. CASE Recover(t)
  <2>1. CASE \E x \in {"repeated", "policy"} : End(t, x)
    BY <2>1, ExitKeeps
  <2>2. CASE ~\E x \in {"repeated", "policy"} : End(t, x)
    <3>1. PICK kept \in SUBSET Thing : held' = [held EXCEPT ![t] = kept]
      BY <1>1, <2>2, ChoiceShrinks DEF Recover
    <3>2. PICK task \in {"none", "running"} : prep' = [prep EXCEPT ![t] = task]
      BY <1>1, <2>2 DEF Recover
    <3>3. /\ at[t] = "session" /\ at' = [at EXCEPT ![t] = "select"]
          /\ UNCHANGED <<setting, turn, row, answer, reviewing, record>>
      BY <1>1, <2>2 DEF Recover
    <3>4. Others(t) /\ Shapes'
      BY <3>1, <3>2, <3>3 DEF Others, Shapes, reviewing, Stage, Task
    <3>5. TurnFits(t)'
      BY <3>2, <3>3 DEF TurnFits, BooksFit, CallFits, JudgeFits, Beside, Awaiting, GoneStages,
                        Judged, reviewing
    <3> QED  BY <3>3, <3>4, <3>5, MoveKeeps
  <2> QED  BY <2>1, <2>2
<1>2. CASE SelectProvider(t)
  <2>1. CASE End(t, "rejected")
    BY <2>1, ExitKeeps
  <2>2. CASE ~End(t, "rejected")
    <3>1. PICK kept \in SUBSET Thing : held' = [held EXCEPT ![t] = kept]
      BY <1>2, <2>2, ChoiceShrinks DEF SelectProvider
    <3>2. /\ at[t] = "select" /\ at' = [at EXCEPT ![t] = "call"]
          /\ UNCHANGED <<setting, turn, row, answer, prep, reviewing, record>>
      BY <1>2, <2>2 DEF SelectProvider
    <3>3. Others(t) /\ Shapes'
      BY <3>1, <3>2 DEF Others, Shapes, reviewing, Stage
    <3>4. TurnFits(t)'
      BY <3>2 DEF TurnFits, BooksFit, CallFits, JudgeFits, Beside, Awaiting, GoneStages,
                  Judged, reviewing
    <3> QED  BY <3>2, <3>3, <3>4, MoveKeeps
  <2> QED  BY <2>1, <2>2
<1>3. CASE CallExecutor(t)
  <2>1. CASE \E x \in Failures(t) : End(t, x)
    BY <2>1, ExitKeeps DEF Failures
  <2>2. CASE /\ held' = [held EXCEPT ![t] = @ \ {"pin", "executor"}]
             /\ UNCHANGED <<setting, at, turn, row, answer, prep, reviewing, record>>
    <3>1. Others(t) /\ Shapes'
      BY <2>2 DEF Others, Shapes, reviewing
    <3>2. at[t] = "call"
      BY <1>3 DEF CallExecutor
    <3>3. TurnFits(t)'
      BY <2>2, <3>2 DEF TurnFits, BooksFit, CallFits, JudgeFits, reviewing
    <3> QED  BY <2>2, <3>1, <3>3, MoveKeeps
  <2>3. CASE /\ at' = [at EXCEPT ![t] = "join"]
             /\ UNCHANGED <<setting, turn, books, prep, reviewing, record>>
    <3>1. at[t] = "call"
      BY <1>3 DEF CallExecutor
    <3>2. Others(t) /\ Shapes'
      BY <2>3 DEF Others, Shapes, reviewing, books, Stage
    <3>3. TurnFits(t)'
      BY <2>3, <3>1 DEF TurnFits, BooksFit, CallFits, JudgeFits, Beside, Awaiting, GoneStages,
                        Judged, reviewing, books
    <3> QED  BY <2>3, <3>2, <3>3, MoveKeeps
  <2> QED  BY <1>3, <2>1, <2>2, <2>3 DEF CallExecutor
<1> QED  BY <1>1, <1>2, <1>3

-----------------------------------------------------------------------------
(***************************************************************************)
(* The prepare task and the calls of review().                             *)
(***************************************************************************)

\* A turn enters the Reviewer's locks, or only waits on.
LEMMA ReviewEntryKeeps ==
    ASSUME NEW t \in Turns, IInv, EnterEvaluation(t) \/ EnterReview(t) PROVE IInv'
<1> USE TurnKnown
<1>1. Reviewer' /\ UNCHANGED <<setting, at, turn, books, prep, record>>
  BY EntryKeeps DEF IInv, EnterEvaluation, EnterReview
<1>2. PICK s \in {"lock", "held"} : call' = [call EXCEPT ![t].step = s]
  BY DEF EnterEvaluation, EnterReview
<1>3. call[t].step \in {"evaluation", "lock"}
  BY DEF EnterEvaluation, EnterReview
<1>4. Others(t) /\ Shapes'
  BY <1>1, <1>2 DEF Others, Shapes, books, Call, Step
<1>5. call[t] # NoCall /\ call'[t].path = call[t].path /\ call'[t].step = s
  BY <1>2, <1>3 DEF NoCall, Call
<1>6. TurnFits(t)'
  BY <1>1, <1>5 DEF TurnFits, BooksFit, CallFits, JudgeFits, books
<1> QED  BY <1>1, <1>4, <1>6, StepKeeps

\* What the turn learns of the review leaves its question to the Judge as it is.
LEMMA StatusLearnt ==
    ASSUME NEW t \in Turns, IInv, NEW s \in {"none", "approved", "open"}, Learn(t, "status", s)
    PROVE  /\ turn' \in [Turns -> Found]
           /\ \A u \in Turns \ {t} : turn'[u] = turn[u]
           /\ turn'[t].asked = turn[t].asked /\ turn'[t].approved = turn[t].approved
BY TurnKnown DEF Learn, Found

\* The task calls review(), beside the handler.
LEMMA PrepReviewsKeeps ==
    ASSUME NEW t \in Turns, IInv, PrepReviews(t) PROVE IInv'
<1> USE TurnKnown
<1>1. prep[t] = "running" /\ at[t] \in Beside /\ call[t] = NoCall
  BY DEF PrepReviews, TurnFits, CallFits
<1> DEFINE new == [path |-> "fanout", result |-> "none", step |-> "lock"]
<1>2. /\ call' = [call EXCEPT ![t] = new] /\ prep' = [prep EXCEPT ![t] = "reviewing"]
      /\ UNCHANGED <<setting, at, turn, row, answer, record, evaluation, lock, guard, claim>>
  BY DEF PrepReviews, StartReview
<1>3. PICK things \in SUBSET {"dynamic"} : held' = [held EXCEPT ![t] = @ \cup things]
  BY DEF PrepReviews, Ensure, Take
<1>4. new \in Call /\ new.path = "fanout" /\ new.step = "lock"
  BY DEF Call, Path, Step
<1> HIDE DEF new
<1>5. Others(t) /\ Shapes'
  BY <1>2, <1>3, <1>4 DEF Others, Shapes, Task, Thing
<1>6. Reviewer'
  BY <1>1, <1>2, <1>4, CallKeeps DEF IInv, NoCall
<1>7. TurnFits(t)'
  BY <1>1, <1>2, <1>4 DEF TurnFits, BooksFit, CallFits, JudgeFits, Beside, Awaiting, GoneStages,
                          Judged
<1> QED  BY <1>2, <1>5, <1>6, <1>7, StepKeeps

\* The Reviewer answers the task, or nobody any more.
LEMMA FanoutKeeps ==
    ASSUME NEW t \in Turns, IInv, FanoutReviewed(t) PROVE IInv'
<1> USE TurnKnown
<1>1. PICK r \in {"approved", "rejected", "error", "raised"} :
         /\ call' = [call EXCEPT ![t] =
                       IF Gone(t) THEN NoCall ELSE [@ EXCEPT !.step = "done", !.result = r]]
         /\ IF Gone(t) THEN UNCHANGED turn ELSE Learn(t, "status", StatusAfter(r))
         /\ r \in Results(t)
  BY DEF FanoutReviewed, Results
<1>2. /\ call[t].path = "fanout" /\ Release(t)
      /\ UNCHANGED <<setting, at, held, row, answer, prep, record>>
  BY DEF FanoutReviewed, books
<1>3. IF Gone(t) THEN call'[t] = NoCall
                 ELSE /\ call'[t] \in Call
                      /\ call'[t].path = "fanout" /\ call'[t].step = "done"
  <2>1. call[t] \in Call /\ t \in DOMAIN call
    OBVIOUS
  <2>2. /\ [call[t] EXCEPT !.step = "done", !.result = r] \in Call
        /\ [call[t] EXCEPT !.step = "done", !.result = r].path = "fanout"
        /\ [call[t] EXCEPT !.step = "done", !.result = r].step = "done"
    BY <1>2, <2>1 DEF Call, Step
  <2> QED  BY <1>1, <2>1, <2>2
<1>4. /\ turn' \in [Turns -> Found] /\ \A u \in Turns \ {t} : turn'[u] = turn[u]
      /\ turn'[t].asked = turn[t].asked /\ turn'[t].approved = turn[t].approved
  <2>1. CASE Gone(t)
    BY <1>1, <2>1
  <2>2. CASE ~Gone(t)
    <3>1. StatusAfter(r) \in {"none", "approved", "open"}
      BY DEF StatusAfter
    <3> QED  BY <1>1, <2>2, <3>1, StatusLearnt
  <2> QED  BY <2>1, <2>2
<1>5. call'[t] \in Call /\ call'[t].step \notin {"held", "evaluation"}
  BY <1>3 DEF Call, Path, Step, NoCall
<1>6. call' \in [Turns -> Call] /\ \A u \in Turns \ {t} : call'[u] = call[u]
  BY <1>1, <1>5
<1>7. Others(t) /\ Shapes'
  BY <1>2, <1>4, <1>6 DEF Others, Shapes
<1>8. Reviewer'
  BY <1>2, <1>5, <1>6, ReleaseKeeps DEF IInv
<1>9. TurnFits(t)'
  <2>1. call[t] # NoCall /\ at[t] \notin Awaiting
    BY <1>2 DEF NoCall, TurnFits, CallFits
  <2>2. at[t] \in Beside \cup GoneStages
    BY <1>2, <2>1 DEF TurnFits, CallFits
  <2>3. Gone(t) <=> at[t] \in GoneStages
    BY DEF Gone, GoneStages
  <2>4. call'[t] = NoCall \/ (call'[t].path = "fanout" /\ at[t] \in Beside)
    BY <1>3, <2>2, <2>3
  <2>5. CallFits(t)'
    BY <1>2, <1>5, <2>1, <2>2, <2>4 DEF TurnFits, CallFits, Beside, GoneStages, Awaiting
  <2> QED  BY <1>2, <1>4, <2>5 DEF TurnFits, BooksFit, JudgeFits
<1> QED  BY <1>2, <1>7, <1>8, <1>9, StepKeeps

\* The task takes the review's result, gives up on it, or ends.
LEMMA PrepareKeeps ==
    ASSUME NEW t \in Turns, IInv, PrepTakesReview(t) \/ PrepGivesUp(t) \/ PrepEnds(t)
    PROVE  IInv'
<1> USE TurnKnown
<1>1. prep[t] \in {"running", "reviewing"} /\ at[t] \in Beside
  BY DEF PrepTakesReview, PrepGivesUp, PrepEnds, TurnFits, CallFits
<1>2. NoCall \in Call /\ NoCall.step = "none" /\ NoCall.path = "none"
  BY DEF NoCall, Call, Path, Step
<1>3. CASE PrepTakesReview(t)
  <2>1. PICK task \in {"failed", "running"} : prep' = [prep EXCEPT ![t] = task]
    BY <1>3 DEF PrepTakesReview
  <2>2. /\ call' = [call EXCEPT ![t] = NoCall] /\ call[t].step = "done"
        /\ UNCHANGED <<setting, at, turn, held, row, answer, evaluation, lock, guard, record,
                       claim>>
    BY <1>3 DEF PrepTakesReview, books
  <2>3. Others(t) /\ Shapes'
    BY <1>2, <2>1, <2>2 DEF Others, Shapes, Task
  <2>4. Reviewer'
    BY <1>2, <2>2, CallKeeps DEF IInv
  <2>5. TurnFits(t)'
    BY <1>1, <1>2, <2>1, <2>2 DEF TurnFits, BooksFit, CallFits, JudgeFits, Beside, Awaiting,
                                  GoneStages, Judged
  <2> QED  BY <2>2, <2>3, <2>4, <2>5, StepKeeps
<1>4. CASE PrepGivesUp(t)
  <2>1. /\ call' = [call EXCEPT ![t] = NoCall] /\ Release(t) /\ Learn(t, "status", "open")
        /\ prep' = [prep EXCEPT ![t] = "running"]
        /\ UNCHANGED <<setting, at, held, row, answer, record>>
    BY <1>4 DEF PrepGivesUp, CancelCall, books
  <2>2. /\ turn' \in [Turns -> Found] /\ \A u \in Turns \ {t} : turn'[u] = turn[u]
        /\ turn'[t].asked = turn[t].asked /\ turn'[t].approved = turn[t].approved
    BY <2>1, StatusLearnt
  <2>3. Others(t) /\ Shapes'
    BY <1>2, <2>1, <2>2 DEF Others, Shapes, Task
  <2>4. Reviewer'
    BY <1>2, <2>1, ReleaseKeeps DEF IInv
  <2>5. TurnFits(t)'
    BY <1>1, <1>2, <2>1, <2>2 DEF TurnFits, BooksFit, CallFits, JudgeFits, Beside, Awaiting,
                                  GoneStages, Judged
  <2> QED  BY <2>1, <2>3, <2>4, <2>5, StepKeeps
<1>5. CASE PrepEnds(t)
  <2>1. PICK task \in {"ready", "failed"} :
            prep' = [prep EXCEPT ![t] = task] /\ (task = "ready" => prep[t] = "running")
    BY <1>5 DEF PrepEnds
  <2>2. UNCHANGED <<setting, at, turn, books, reviewing, record>>
    BY <1>5 DEF PrepEnds
  <2>3. Others(t) /\ Shapes'
    BY <2>1, <2>2 DEF Others, Shapes, Task, books, reviewing
  <2>4. TurnFits(t)'
    BY <1>1, <2>1, <2>2 DEF TurnFits, BooksFit, CallFits, JudgeFits, Beside, Awaiting,
                            GoneStages, Judged, books, reviewing
  <2> QED  BY <2>2, <2>3, <2>4, MoveKeeps
<1> QED  BY <1>3, <1>4, <1>5

\* The Reviewer's record moves under a review: its guard is no longer promised.
LEMMA RecordKeeps == ASSUME IInv, RecordMoves PROVE IInv'
<1>1. record' # 0 /\ record' \in 0..MaxMoves
  BY TurnAssumption DEF RecordMoves, IInv, Typed
<1>2. UNCHANGED <<setting, at, turn, held, row, answer, prep, call, evaluation, lock, guard,
                  claim>>
  BY DEF RecordMoves, books, reviewing
<1> QED  BY <1>1, <1>2 DEF IInv, Typed, TurnFits, BooksFit, CallFits, JudgeFits, LocksFit,
                           GuardFits

-----------------------------------------------------------------------------
(***************************************************************************)
(* The answer is reviewed, judged, corrected and sent.                     *)
(***************************************************************************)

\* The handler begins to await a review of its own.
LEMMA ReviewBegins ==
    ASSUME NEW t \in Turns, IInv, NEW p \in {"answer", "fallback", "correction"},
           StartReview(t, p), call[t] = NoCall, prep'[t] = "none", at'[t] \in Awaiting,
           at' \in [Turns -> Stage], turn' \in [Turns -> Found],
           held' \in [Turns -> SUBSET Thing], prep' \in [Turns -> Task],
           \A u \in Turns \ {t} : /\ at'[u] = at[u] /\ turn'[u] = turn[u]
                                  /\ held'[u] = held[u] /\ prep'[u] = prep[u],
           UNCHANGED <<setting, row, answer, record>>
    PROVE  IInv'
<1> USE TurnKnown
<1>1. PICK s \in {"evaluation", "lock"} :
          /\ call' = [call EXCEPT ![t] = [path |-> p, result |-> "none", step |-> s]]
          /\ s = "evaluation" => p = "answer"
  BY DEF StartReview
<1> DEFINE new == [path |-> p, result |-> "none", step |-> s]
<1>2. new \in Call /\ new.path = p /\ new.step = s
  BY DEF Call, Path, Step
<1>3. call' = [call EXCEPT ![t] = new]
  BY <1>1
<1> HIDE DEF new
<1>4. call' \in [Turns -> Call] /\ call'[t] = new /\ \A u \in Turns \ {t} : call'[u] = call[u]
  BY <1>2, <1>3
<1>5. Others(t) /\ Shapes'
  BY <1>4 DEF Others, Shapes
<1>6. Reviewer'
  <2>1. UNCHANGED <<evaluation, lock, guard, claim>>
    BY DEF StartReview
  <2>2. call[t].step \notin {"lock", "held"} /\ call'[t].step # "held"
    BY <1>2, <1>4 DEF NoCall
  <2> QED  BY <1>4, <2>1, <2>2, CallKeeps DEF IInv
<1>7. TurnFits(t)'
  BY <1>1, <1>2, <1>4 DEF TurnFits, BooksFit, CallFits, JudgeFits, Beside, Awaiting, GoneStages,
                          Judged
<1> QED  BY <1>5, <1>6, <1>7, StepKeeps

\* The handler's review is over and the handler goes on.
LEMMA ReviewOver ==
    ASSUME NEW t \in Turns, IInv, CancelCall(t), at[t] \in Awaiting,
           at' \in [Turns -> Stage], turn' \in [Turns -> Found],
           \A u \in Turns \ {t} : at'[u] = at[u] /\ turn'[u] = turn[u],
           at'[t] \in {"judging", "expert", "gate"},
           at'[t] = "gate" /\ turn'[t].asked => turn'[t].approved,
           UNCHANGED <<setting, books, prep, record>>
    PROVE  IInv'
<1> USE TurnKnown
<1>1. NoCall \in Call /\ NoCall.step = "none" /\ NoCall.path = "none"
  BY DEF NoCall, Call, Path, Step
<1>2. call' = [call EXCEPT ![t] = NoCall] /\ Release(t)
  BY DEF CancelCall
<1>3. Others(t) /\ Shapes'
  BY <1>1, <1>2 DEF Others, Shapes, books
<1>4. Reviewer'
  BY <1>1, <1>2, ReleaseKeeps DEF IInv
<1>5. TurnFits(t)'
  BY <1>1, <1>2 DEF TurnFits, BooksFit, CallFits, JudgeFits, Beside, Awaiting, GoneStages,
                    Judged, books
<1> QED  BY <1>3, <1>4, <1>5, StepKeeps

\* The handler goes on without a review.
LEMMA GoesOn ==
    ASSUME NEW t \in Turns, IInv, call[t] = NoCall, prep'[t] = "none",
           at[t] \notin GoneStages, at' \in [Turns -> Stage], turn' \in [Turns -> Found],
           held' \in [Turns -> SUBSET Thing], prep' \in [Turns -> Task],
           \A u \in Turns \ {t} : /\ at'[u] = at[u] /\ turn'[u] = turn[u]
                                  /\ held'[u] = held[u] /\ prep'[u] = prep[u],
           at'[t] \in Judged \cup {"synthesis"},
           turn'[t].asked => at'[t] \in Judged,
           at'[t] = "gate" /\ turn'[t].asked => turn'[t].approved,
           UNCHANGED <<setting, row, answer, reviewing, record>>
    PROVE  IInv'
<1> USE TurnKnown
<1>1. Others(t) /\ Shapes'
  BY DEF Others, Shapes, reviewing
<1>2. call'[t].step # "evaluation" /\ call'[t].path # "fanout" /\ call'[t] = NoCall
  BY DEF reviewing, NoCall
<1>3. TurnFits(t)'
  BY <1>2 DEF TurnFits, BooksFit, CallFits, JudgeFits, Beside, Awaiting, GoneStages, Judged
<1> QED  BY <1>1, <1>3, MoveKeeps

\* Whether the Judge is to be asked is all a turn learns here.
LEMMA AskedLearnt ==
    ASSUME NEW t \in Turns, turn \in [Turns -> Found], NEW v \in BOOLEAN, Learn(t, "asked", v)
    PROVE  /\ turn' \in [Turns -> Found] /\ turn'[t].asked = v
           /\ \A u \in Turns \ {t} : turn'[u] = turn[u]
<1>1. turn' = [turn EXCEPT ![t] = [@ EXCEPT !.asked = v]]
  BY DEF Learn
<1>2. [turn[t] EXCEPT !.asked = v] \in Found /\ [turn[t] EXCEPT !.asked = v].asked = v
  BY DEF Found
<1> QED  BY <1>1, <1>2

\* What Verdicts leaves: whoever is sent to the gate from here was not to be judged.
LEMMA VerdictsFit ==
    ASSUME NEW t \in Turns, IInv, NEW asked \in BOOLEAN, Verdicts(t, asked),
           turn[t].asked => asked
    PROVE  /\ at' \in [Turns -> Stage] /\ turn' \in [Turns -> Found]
           /\ \A u \in Turns \ {t} : at'[u] = at[u] /\ turn'[u] = turn[u]
           /\ at'[t] \in {"judging", "gate"}
           /\ at'[t] = "gate" => ~turn'[t].asked
<1> USE TurnKnown
<1>1. CASE Learn(t, "asked", TRUE) /\ Go(t, "judging")
  BY <1>1, AskedLearnt DEF Go, Stage
<1>2. CASE Learn(t, "asked", FALSE) /\ Go(t, "gate")
  BY <1>2, AskedLearnt DEF Go, Stage
<1>3. CASE ~asked /\ UNCHANGED turn /\ Go(t, "gate")
  BY <1>3 DEF Go, Stage
<1> QED  BY <1>1, <1>2, <1>3 DEF Verdicts

\* The answer is looked at: it ends the turn, is reviewed, or passes.
LEMMA CheckAnswerKeeps ==
    ASSUME NEW t \in Turns, IInv, at[t] \in {"join", "synthesis"}, call[t] = NoCall,
           CheckAnswer(t)
    PROVE  IInv'
<1> USE TurnKnown
<1>1. CASE \E x \in {"repeated", "loading"} : End(t, x)
  BY <1>1, ExitKeeps
<1>2. CASE ~\E x \in {"repeated", "loading"} : End(t, x)
  <2>1. PICK asked \in BOOLEAN :
         /\ IF asked THEN Ensure(t) ELSE UNCHANGED held
         /\ \/ /\ turn[t].status # "approved"
               /\ Learn(t, "asked", asked) /\ StartReview(t, "answer") /\ Go(t, "review")
            \/ /\ turn[t].status = "approved" \/ ~asked
               /\ Verdicts(t, asked) /\ UNCHANGED reviewing
         /\ prep' = [prep EXCEPT ![t] = "none"]
         /\ UNCHANGED <<setting, row, answer, record>>
    BY <1>2 DEF CheckAnswer
  <2>2. held' \in [Turns -> SUBSET Thing] /\ \A u \in Turns \ {t} : held'[u] = held[u]
    BY <2>1 DEF Ensure, Take, Thing
  <2>3. /\ prep' \in [Turns -> Task] /\ prep'[t] = "none"
        /\ \A u \in Turns \ {t} : prep'[u] = prep[u]
    BY <2>1 DEF Task
  <2>4. ~turn[t].asked /\ at[t] \notin GoneStages
    BY DEF TurnFits, JudgeFits, Judged, Awaiting, GoneStages
  <2>5. CASE Learn(t, "asked", asked) /\ StartReview(t, "answer") /\ Go(t, "review")
    <3>1. /\ turn' \in [Turns -> Found] /\ at' \in [Turns -> Stage] /\ at'[t] = "review"
          /\ \A u \in Turns \ {t} : at'[u] = at[u] /\ turn'[u] = turn[u]
      BY <2>5 DEF Learn, Go, Found, Stage
    <3> QED  BY <2>1, <2>2, <2>3, <2>5, <3>1, ReviewBegins DEF Awaiting
  <2>6. CASE Verdicts(t, asked) /\ UNCHANGED reviewing
    <3>1. /\ at' \in [Turns -> Stage] /\ turn' \in [Turns -> Found]
          /\ \A u \in Turns \ {t} : at'[u] = at[u] /\ turn'[u] = turn[u]
          /\ at'[t] \in {"judging", "gate"} /\ (at'[t] = "gate" => ~turn'[t].asked)
      BY <2>4, <2>6, VerdictsFit
    <3> QED  BY <2>1, <2>2, <2>3, <2>4, <2>6, <3>1, GoesOn DEF Judged
  <2> QED  BY <2>1, <2>5, <2>6
<1> QED  BY <1>1, <1>2

\* The task is joined, what it found is put to the Executor.
LEMMA JoinKeeps ==
    ASSUME NEW t \in Turns, IInv, JoinPrepare(t) \/ Synthesize(t) PROVE IInv'
<1> USE TurnKnown
<1>1. CASE JoinPrepare(t)
  <2>1. at[t] = "join"
    BY <1>1 DEF JoinPrepare
  <2>2. CASE prep[t] = "failed" /\ \E x \in PrepFailures : End(t, x)
    BY <2>2, ExitKeeps DEF PrepFailures
  <2>3. CASE /\ prep[t] = "ready" /\ Go(t, "synthesis") /\ prep' = [prep EXCEPT ![t] = "none"]
             /\ UNCHANGED <<setting, turn, books, reviewing, record>>
    <3>1. call[t] = NoCall /\ ~turn[t].asked /\ at[t] \notin GoneStages
      BY <2>1, <2>3 DEF TurnFits, CallFits, JudgeFits, Beside, Judged, Awaiting, GoneStages
    <3>2. /\ at' \in [Turns -> Stage] /\ at'[t] = "synthesis" /\ prep' \in [Turns -> Task]
          /\ prep'[t] = "none"
          /\ \A u \in Turns \ {t} : at'[u] = at[u] /\ prep'[u] = prep[u]
      BY <2>3 DEF Go, Stage, Task
    <3> QED  BY <2>3, <3>1, <3>2, GoesOn DEF books
  <2>4. CASE prep[t] \in {"ready", "none"} /\ CheckAnswer(t)
    <3>1. call[t] = NoCall
      BY <2>1, <2>4 DEF TurnFits, CallFits, Beside
    <3> QED  BY <2>1, <2>4, <3>1, CheckAnswerKeeps
  <2> QED  BY <1>1, <2>2, <2>3, <2>4 DEF JoinPrepare
<1>2. CASE Synthesize(t)
  <2>1. CASE \E x \in Failures(t) : End(t, x)
    BY <2>1, ExitKeeps DEF Failures
  <2>2. CASE CheckAnswer(t)
    <3>1. at[t] = "synthesis"
      BY <1>2 DEF Synthesize
    <3>2. call[t] = NoCall
      BY <3>1 DEF TurnFits, CallFits, Beside, Awaiting, GoneStages
    <3> QED  BY <2>2, <3>1, <3>2, CheckAnswerKeeps
  <2> QED  BY <1>2, <2>1, <2>2 DEF Synthesize
<1> QED  BY <1>1, <1>2

\* What an approval and a wish for edits leave.
LEMMA ApprovalFits ==
    ASSUME NEW t \in Turns, IInv, Approves(t) \/ WantsEdits(t)
    PROVE  /\ at' \in [Turns -> Stage] /\ turn' \in [Turns -> Found]
           /\ \A u \in Turns \ {t} : at'[u] = at[u] /\ turn'[u] = turn[u]
           /\ at'[t] \in {"gate", "expert"}
           /\ at'[t] = "gate" => turn'[t].approved
<1> USE TurnKnown
<1>1. CASE Approves(t)
  <2>1. at' = [at EXCEPT ![t] = "gate"] /\ "gate" \in Stage
    BY <1>1 DEF Approves, Go, Stage
  <2>2. turn' = [turn EXCEPT ![t] = [@ EXCEPT !.approved = TRUE]]
    BY <1>1 DEF Approves, Learn
  <2>3. [turn[t] EXCEPT !.approved = TRUE] \in Found /\ [turn[t] EXCEPT !.approved = TRUE].approved
    BY DEF Found
  <2> QED  BY <2>1, <2>2, <2>3
<1>2. CASE WantsEdits(t)
  BY <1>2 DEF WantsEdits, Go, Stage
<1> QED  BY <1>1, <1>2

\* The three reviews the handler awaits.
LEMMA ReviewsKeep ==
    ASSUME NEW t \in Turns, IInv, Review(t) \/ StandIn(t) \/ TargetedReview(t) PROVE IInv'
<1> USE TurnKnown
<1>1. ASSUME NEW r, ReviewFails(t, r) PROVE IInv'
  BY <1>1, ExitKeeps DEF ReviewFails
<1>2. CASE Review(t)
  <2>1. at[t] \in Awaiting
    BY <1>2 DEF Review, Awaiting
  <2>2. CASE /\ Verdicts(t, turn[t].asked) /\ CancelCall(t)
             /\ UNCHANGED <<setting, books, prep, record>>
    <3>1. turn[t].asked \in BOOLEAN
      BY DEF Found
    <3>2. /\ at' \in [Turns -> Stage] /\ turn' \in [Turns -> Found]
          /\ \A u \in Turns \ {t} : at'[u] = at[u] /\ turn'[u] = turn[u]
          /\ at'[t] \in {"judging", "gate"} /\ (at'[t] = "gate" => ~turn'[t].asked)
      BY <2>2, <3>1, VerdictsFit
    <3> QED  BY <2>1, <2>2, <3>2, ReviewOver
  <2> QED  BY <1>1, <1>2, <2>2 DEF Review
<1>3. CASE StandIn(t)
  <2>1. at[t] \in Awaiting
    BY <1>3 DEF StandIn, Awaiting
  <2>2. CASE End(t, "correction")
    BY <2>2, ExitKeeps
  <2>3. CASE /\ Approves(t) \/ WantsEdits(t)
             /\ CancelCall(t) /\ UNCHANGED <<setting, books, prep, record>>
    <3>1. /\ at' \in [Turns -> Stage] /\ turn' \in [Turns -> Found]
          /\ \A u \in Turns \ {t} : at'[u] = at[u] /\ turn'[u] = turn[u]
          /\ at'[t] \in {"gate", "expert"} /\ (at'[t] = "gate" => turn'[t].approved)
      BY <2>3, ApprovalFits
    <3> QED  BY <2>1, <2>3, <3>1, ReviewOver
  <2> QED  BY <1>1, <1>3, <2>2, <2>3 DEF StandIn
<1>4. CASE TargetedReview(t)
  <2>1. at[t] \in Awaiting
    BY <1>4 DEF TargetedReview, Awaiting
  <2>2. CASE End(t, "correction")
    BY <2>2, ExitKeeps
  <2>3. CASE /\ CancelCall(t) /\ UNCHANGED <<setting, books, prep, record>>
             /\ Approves(t) \/ (Learn(t, "second", TRUE) /\ Go(t, "judging"))
    <3>1. /\ at' \in [Turns -> Stage] /\ turn' \in [Turns -> Found]
          /\ \A u \in Turns \ {t} : at'[u] = at[u] /\ turn'[u] = turn[u]
          /\ at'[t] \in {"gate", "expert", "judging"} /\ (at'[t] = "gate" => turn'[t].approved)
      <4>1. CASE Approves(t)
        BY <4>1, ApprovalFits
      <4>2. CASE Learn(t, "second", TRUE) /\ Go(t, "judging")
        BY <4>2 DEF Learn, Go, Found, Stage
      <4> QED  BY <2>3, <4>1, <4>2
    <3> QED  BY <2>1, <2>3, <3>1, ReviewOver
  <2> QED  BY <1>1, <1>4, <2>2, <2>3 DEF TargetedReview
<1> QED  BY <1>2, <1>3, <1>4

\* The Judge, the expert, the correction, the gate.
LEMMA JudgementKeeps ==
    ASSUME NEW t \in Turns, IInv, Judge(t) \/ FrontierB(t) \/ Correct(t) \/ OutputGate(t)
    PROVE  IInv'
<1> USE TurnKnown
<1>1. at[t] \in {"judging", "expert", "correct", "gate"}
  BY DEF Judge, FrontierB, Correct, OutputGate
<1>2. call[t] = NoCall /\ prep[t] = "none" /\ at[t] \notin GoneStages
  BY <1>1 DEF TurnFits, CallFits, Beside, Awaiting, GoneStages
<1>3. CASE Judge(t)
  <2>1. CASE \E x \in {"correction", "timeout", "backend", "repeated", "judge"} : End(t, x)
    BY <2>1, ExitKeeps
  <2>2. CASE /\ Approves(t) \/ WantsEdits(t)
             /\ UNCHANGED <<setting, books, prep, reviewing, record>>
    <3>1. /\ at' \in [Turns -> Stage] /\ turn' \in [Turns -> Found]
          /\ \A u \in Turns \ {t} : at'[u] = at[u] /\ turn'[u] = turn[u]
          /\ at'[t] \in {"gate", "expert"} /\ (at'[t] = "gate" => turn'[t].approved)
      BY <2>2, ApprovalFits
    <3> QED  BY <1>2, <2>2, <3>1, GoesOn DEF Judged, books
  <2>3. CASE /\ StartReview(t, "fallback") /\ Go(t, "stand_in")
             /\ UNCHANGED <<setting, turn, books, prep, record>>
    <3>1. /\ at' \in [Turns -> Stage] /\ at'[t] = "stand_in"
          /\ \A u \in Turns \ {t} : at'[u] = at[u]
      BY <2>3 DEF Go, Stage
    <3> QED  BY <1>2, <2>3, <3>1, ReviewBegins DEF Awaiting, books
  <2> QED  BY <1>3, <2>1, <2>2, <2>3 DEF Judge
<1>4. CASE FrontierB(t)
  <2>1. CASE End(t, "frontier")
    BY <2>1, ExitKeeps
  <2>2. CASE Go(t, "correct") /\ UNCHANGED <<setting, turn, books, prep, reviewing, record>>
    <3>1. /\ at' \in [Turns -> Stage] /\ at'[t] = "correct"
          /\ \A u \in Turns \ {t} : at'[u] = at[u]
      BY <2>2 DEF Go, Stage
    <3> QED  BY <1>2, <2>2, <3>1, GoesOn DEF Judged, books
  <2> QED  BY <1>4, <2>1, <2>2 DEF FrontierB
<1>5. CASE Correct(t)
  <2>1. CASE \E x \in Failures(t) \cup {"correction"} : End(t, x)
    BY <2>1, ExitKeeps DEF Failures
  <2>2. CASE /\ StartReview(t, "correction") /\ Go(t, "targeted")
             /\ UNCHANGED <<setting, turn, books, prep, record>>
    <3>1. /\ at' \in [Turns -> Stage] /\ at'[t] = "targeted"
          /\ \A u \in Turns \ {t} : at'[u] = at[u]
      BY <2>2 DEF Go, Stage
    <3> QED  BY <1>2, <2>2, <3>1, ReviewBegins DEF Awaiting, books
  <2> QED  BY <1>5, <2>1, <2>2 DEF Correct
<1>6. CASE OutputGate(t)
  BY <1>6, ExitKeeps DEF OutputGate
<1> QED  BY <1>3, <1>4, <1>5, <1>6

\* The session of a turn that ended with 503 is judged on an operator's order.
LEMMA AdjudicationKeeps ==
    ASSUME NEW t \in Turns, IInv, Adjudicate(t) \/ Adjudicated(t) PROVE IInv'
<1> USE TurnKnown DEF Go
<1>1. CASE Adjudicate(t)
  <2>1. Others(t) /\ Shapes'
    BY <1>1 DEF Adjudicate, Take, Others, Shapes, reviewing, Stage, Thing
  <2>2. TurnFits(t)'
    BY <1>1 DEF Adjudicate, TurnFits, BooksFit, CallFits, JudgeFits, Beside, Awaiting,
                GoneStages, Judged, reviewing
  <2> QED  BY <1>1, <2>1, <2>2, MoveKeeps DEF Adjudicate
<1>2. CASE Adjudicated(t)
  <2>1. PICK x \in {"judged", "error"} : answer' = [answer EXCEPT ![t] = x]
    BY <1>2 DEF Adjudicated
  <2>2. Others(t) /\ Shapes'
    BY <1>2, <2>1 DEF Adjudicated, ReleaseAll, Others, Shapes, reviewing, Stage, Reply
  <2>3. TurnFits(t)'
    BY <1>2, <2>1 DEF Adjudicated, ReleaseAll, TurnFits, BooksFit, CallFits, JudgeFits, Beside,
                      Awaiting, GoneStages, Judged, reviewing
  <2> QED  BY <1>2, <2>2, <2>3, MoveKeeps DEF Adjudicated
<1> QED  BY <1>1, <1>2

-----------------------------------------------------------------------------
(***************************************************************************)
(* The theorems.                                                           *)
(***************************************************************************)

LEMMA InitFits == ASSUME Init PROVE IInv
<1>1. NoCall \in Call /\ Fresh \in Found /\ ~Fresh.asked
  BY DEF NoCall, Call, Path, Step, Fresh, Found, Kind
<1>2. Typed
  <2>1. record \in 0..MaxMoves /\ claim \in [Turns -> 0..MaxMoves + 1]
    BY TurnAssumption DEF Init, Unclaimed
  <2>2. setting \in Setting
    BY TurnAssumption DEF Init
  <2>3. /\ at \in [Turns -> Stage] /\ held \in [Turns -> SUBSET Thing]
        /\ row \in [Turns -> Row] /\ answer \in [Turns -> Reply] /\ prep \in [Turns -> Task]
    BY DEF Init, Stage, Row, Reply, Task
  <2>4. turn \in [Turns -> Found] /\ call \in [Turns -> Call]
    BY <1>1 DEF Init
  <2> QED  BY <2>1, <2>2, <2>3, <2>4 DEF Init, Typed
<1>3. LocksFit /\ GuardFits
  BY TurnAssumption DEF Init, LocksFit, GuardFits, NoCall
<1>4. ASSUME NEW t \in Turns PROVE TurnFits(t)
  BY <1>1 DEF Init, TurnFits, BooksFit, CallFits, JudgeFits, Beside, Awaiting, NoCall
<1> QED  BY <1>2, <1>3, <1>4 DEF IInv

LEMMA StutterKeeps == ASSUME IInv, UNCHANGED vars PROVE IInv'
BY DEF IInv, vars, reviewing, books, Typed, TurnFits, BooksFit, CallFits, JudgeFits, LocksFit,
       GuardFits, Unclaimed

\* Every step of every turn, of its task and of its reviews keeps the invariant.
LEMMA NextKeeps == ASSUME IInv, [Next]_vars PROVE IInv'
<1>1. ASSUME NEW t \in Turns, Handler(t) PROVE IInv'
  BY <1>1, ArrivalKeeps, AdmissionKeeps, ExecutionKeeps, JoinKeeps, ReviewsKeep,
     JudgementKeeps, AdjudicationKeeps DEF Handler
<1>2. ASSUME NEW t \in Turns, Prepare(t) \/ PrepReviews(t) \/ PrepGivesUp(t) PROVE IInv'
  BY <1>2, PrepareKeeps, PrepReviewsKeeps DEF Prepare
<1>3. ASSUME NEW t \in Turns, ReviewCall(t) PROVE IInv'
  BY <1>3, ReviewEntryKeeps, FanoutKeeps DEF ReviewCall
<1>4. ASSUME NEW t \in Turns, Adjudicate(t) \/ EarlyDisconnect(t) \/ Disconnect(t) PROVE IInv'
  <2>1. CASE Disconnect(t)
    BY <2>1, ExitKeeps DEF Disconnect
  <2> QED  BY <1>4, <2>1, AdjudicationKeeps, AdmissionKeeps
<1>5. CASE Rest
  BY <1>5, StutterKeeps DEF Rest
<1> QED  BY <1>1, <1>2, <1>3, <1>4, <1>5, RecordKeeps, StutterKeeps DEF Next

\* The inductive invariant of the chat handler.
THEOREM Invariance == Spec => []IInv
<1>1. Init => IInv
  BY InitFits
<1>2. IInv /\ [Next]_vars => IInv'
  BY NextKeeps
<1> QED  BY <1>1, <1>2, PTL DEF Spec

\* However many turns meet at the Reviewer, one that ended - by any exit but an early
\* disconnect - holds no pin, lease, task, evaluation lock or open row, and its row says
\* what the client was told.
THEOREM EndedTurnsAreSettled == Spec => []EndedTurnsHoldNothing
<1>1. ASSUME IInv PROVE EndedTurnsHoldNothing
  <2> SUFFICES ASSUME NEW t \in Turns, at[t] = "over", answer[t] # "dropped"
               PROVE  /\ held[t] = {} /\ prep[t] = "none" /\ row[t] # "open"
                      /\ evaluation # t /\ (lock = t => call[t].path = "fanout")
                      /\ (row[t] = "completed") <=> (answer[t] = "200")
                      /\ answer[t] = "gone" => row[t] = "cancelled"
    BY DEF EndedTurnsHoldNothing
  <2>1. TurnFits(t) /\ LocksFit
    BY <1>1 DEF IInv
  <2>2. call[t] = NoCall \/ call[t].path = "fanout"
    BY <2>1 DEF TurnFits, CallFits, Awaiting
  <2>3. evaluation # t /\ (lock = t => call[t].path = "fanout")
    BY <2>1, <2>2 DEF LocksFit, NoCall
  <2> QED  BY <2>1, <2>3 DEF TurnFits, BooksFit, CallFits, Beside
<1> QED  BY <1>1, Invariance, PTL

\* The guard that keeps the Reviewer loaded stands exactly while a review is under way,
\* however reviews collide, fail or are cancelled, as long as its record does not move.
THEOREM TheGuardStandsWhileReviewed == Spec => []ReviewsAreGuarded
<1>1. IInv => ReviewsAreGuarded
  BY DEF IInv, GuardFits, ReviewsAreGuarded
<1> QED  BY <1>1, Invariance, PTL

\* Nothing that was to be judged is sent without the approval it was to have.
THEOREM NothingIsSentUnapproved == Spec => AnswersAreApproved
<1>1. ASSUME IInv
      PROVE  \A t \in Turns : at[t] = "gate" /\ answer'[t] = "200" /\ turn[t].asked =>
                                  turn[t].approved
  BY <1>1 DEF IInv, TurnFits, JudgeFits
<1> QED  BY <1>1, Invariance, PTL DEF AnswersAreApproved

=============================================================================
