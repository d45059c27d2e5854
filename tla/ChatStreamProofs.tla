-------------------------- MODULE ChatStreamProofs --------------------------
(***************************************************************************)
(* Proofs about ChatStream, for both endpoints and any number of retries   *)
(* and loads: what reaches the client was checked first, what is recorded  *)
(* of a turn is what its client saw, and no two turns of a request run at  *)
(* once.                                                                   *)
(***************************************************************************)
EXTENDS ChatStream, TLAPS

Stream ==
    [remote : BOOLEAN, draft : {"none", "plain", "open", "closed"}, published : BOOLEAN,
     held : BOOLEAN, tools : BOOLEAN, markup : BOOLEAN, finish : BOOLEAN, done : BOOLEAN,
     completed : BOOLEAN, remoteFailed : BOOLEAN, stage : Stages, raised : BOOLEAN,
     rejected : BOOLEAN, gated : BOOLEAN, checked : BOOLEAN]
Sent ==
    [claims : {"none", "passed", "unchecked"}, tools : {"none", "checked", "unchecked"},
     finish : BOOLEAN, error : BOOLEAN, done : Nat, late : BOOLEAN]

Typed == TypeOK /\ st \in Stream /\ sent \in Sent

\* Before it is read a stream has sent nothing.
Unread == {"preparing", "ready"}

\* A turn holds its pin from chat() to the end of its stream.
Holding == {"preparing", "ready", "closing"} \cup Publishing
PinsFit == pins = IF turn \in Holding THEN 1 ELSE 0

\* Tool calls are looked at before they are published, claims before they are sent.
ChecksFit ==
    /\ turn \in Unread => sent = Nothing
    /\ turn = "admitted" => st.checked
    /\ ToolCallsArePreflighted /\ ClaimsAreGated

\* A stream counts as completed from its [DONE] on, and only if it reported no error; an
\* error is reported by a remote failure, or at the end of a stream that is not complete.
TellingFits ==
    /\ turn \in {"preparing", "ready", "loop", "admitted", "correcting", "failing"} =>
          ~st.completed
    /\ turn = "ended" => IF st.tools THEN ~st.completed ELSE sent.done > 0
    /\ turn \in Publishing /\ sent.error => st.remoteFailed
    /\ turn \in Publishing \cup {"closing"} /\ st.completed =>
          sent.done > 0 /\ (sent.error => st.remoteFailed)
    /\ CompletedWasSaid

IInv == Typed /\ PinsFit /\ ChecksFit /\ TellingFits
-----------------------------------------------------------------------------
(***************************************************************************)
(* Lemmas: one chunk of the stream.                                        *)
(***************************************************************************)

\* A step inside the stream.  What the record of the stream and what was sent must still
\* say of each other is all there is to show.
LEMMA StreamKeeps ==
    ASSUME IInv, InStream, turn \in Publishing \cup {"ready"}, turn' \in Publishing \cup {"closing"},
           st' \in Stream, sent' \in Sent,
           turn' = "admitted" => st'.checked,
           sent'.tools # "unchecked", sent'.claims = "unchecked" => st'.tools,
           turn' \in {"loop", "admitted", "correcting", "failing"} => ~st'.completed,
           turn' = "ended" => IF st'.tools THEN ~st'.completed ELSE sent'.done > 0,
           turn' \in Publishing /\ sent'.error => st'.remoteFailed,
           st'.completed => sent'.done > 0 /\ (sent'.error => st'.remoteFailed)
    PROVE  IInv'
<1>1. turn' \in Turns /\ turn' \notin {"preparing", "ready", "over"}
  BY DEF Publishing, Turns
<1>2. UNCHANGED <<mode, client, driver, asked, pins, status, answer>>
  BY DEF InStream
<1>3. Typed'
  BY <1>1, <1>2 DEF IInv, Typed, TypeOK, Stream, Sent
<1>4. PinsFit'
  BY <1>2 DEF IInv, PinsFit, Holding, Publishing
<1>5. ChecksFit'
  BY <1>1 DEF ChecksFit, Unread, ToolCallsArePreflighted, ClaimsAreGated
<1>6. TellingFits'
  BY <1>1 DEF TellingFits, CompletedWasSaid
<1> QED  BY <1>3, <1>4, <1>5, <1>6 DEF IInv

\* What the invariant says of a stream that is read.
LEMMA StreamKnown ==
    ASSUME IInv, turn \in {"loop", "ended", "admitted", "correcting", "failing"}
    PROVE  /\ st \in Stream /\ sent \in Sent
           /\ turn = "admitted" => st.checked
           /\ sent.tools # "unchecked" /\ (sent.claims = "unchecked" => st.tools)
           /\ turn # "ended" => ~st.completed
           /\ turn = "ended" => IF st.tools THEN ~st.completed ELSE sent.done > 0
           /\ sent.error => st.remoteFailed
           /\ st.completed => sent.done > 0
BY DEF IInv, Typed, ChecksFit, TellingFits, ToolCallsArePreflighted, ClaimsAreGated, Publishing

\* s is the stream with one more chunk.
After(s) == /\ s \in Stream /\ (st.tools => s.tools) /\ s.completed = st.completed
            /\ s.remoteFailed = st.remoteFailed /\ s.checked = st.checked

\* A malformed chunk, a draft that fails the gate, tool calls that fail preflight.
LEMMA InvalidKeeps ==
    ASSUME IInv, turn \in {"loop", "ended"}, NEW s, After(s), s.tools => ~s.completed,
           Invalid(s), InStream
    PROVE  IInv'
<1>1. st' = [s EXCEPT !.stage = "failed", !.raised = ~s.tools] /\ sent' = sent
  BY DEF Invalid, Refuse
<1>2. turn' \in {"closing", "failing", "correcting"} /\ (~s.tools => turn' = "closing")
  BY DEF Invalid, Refuse
<1>3. /\ st' \in Stream /\ st'.tools = s.tools /\ st'.completed = s.completed
      /\ st'.remoteFailed = s.remoteFailed
  BY <1>1 DEF After, Stream, Stages
<1>4. turn' \in Publishing \cup {"closing"} /\ turn \in Publishing
  BY <1>2 DEF Publishing
<1> QED  BY <1>1, <1>2, <1>3, <1>4, StreamKnown, StreamKeeps DEF After

\* t is the stream s, once the gate passed its draft.
ReleasedFrom(s, t) ==
    /\ t \in Stream /\ t.tools = s.tools /\ t.completed = s.completed
    /\ t.remoteFailed = s.remoteFailed /\ t.checked = s.checked /\ t.gated = Claims(t)

LEMMA ReleasedStands ==
    ASSUME NEW s \in Stream
    PROVE  ReleasedFrom(s, Released(s))
<1> DEFINE claims == Claims(s)
<1>1. claims \in BOOLEAN
  BY DEF Claims
<1>2. Released(s) = [s EXCEPT !.held = FALSE, !.gated = claims]
  BY DEF Released
<1>3. Claims(Released(s)) = claims
  <2>1. Released(s).draft = s.draft
    BY <1>2 DEF Stream
  <2> QED  BY <2>1 DEF Claims
<1> HIDE DEF claims
<1>4. Released(s) \in Stream /\ Released(s).gated = claims
  BY <1>1, <1>2 DEF Stream
<1>5. /\ Released(s).tools = s.tools /\ Released(s).completed = s.completed
      /\ Released(s).remoteFailed = s.remoteFailed /\ Released(s).checked = s.checked
  BY <1>2 DEF Stream
<1> QED  BY <1>3, <1>4, <1>5 DEF ReleasedFrom

\* What was sent when the draft of s went out.
EmitsOf(s) ==
    /\ sent' \in Sent /\ sent'.tools = sent.tools /\ sent'.error = sent.error
    /\ sent'.done = sent.done
    /\ s.gated = Claims(s) /\ sent'.claims = "unchecked" => sent.claims = "unchecked"

LEMMA EmitStands ==
    ASSUME sent \in Sent, NEW s \in Stream, Emit(s)
    PROVE  EmitsOf(s)
<1> DEFINE claims == IF ~Claims(s) THEN sent.claims
                     ELSE IF s.gated /\ sent.claims # "unchecked" THEN "passed" ELSE "unchecked"
           late   == sent.late \/ sent.done > 0
           finish == s.finish
<1>1. sent' = [sent EXCEPT !.finish = finish, !.claims = claims, !.late = late]
  BY DEF Emit
<1>2. claims \in {"none", "passed", "unchecked"}
  BY DEF Sent
<1>3. s.gated = Claims(s) /\ claims = "unchecked" => sent.claims = "unchecked"
  OBVIOUS
<1>4. late \in BOOLEAN
  BY DEF Sent
<1>5. finish \in BOOLEAN
  BY DEF Stream
<1> HIDE DEF claims, late, finish
<1>6. sent' \in Sent
  BY <1>1, <1>2, <1>4, <1>5 DEF Sent
<1>7. sent'.tools = sent.tools /\ sent'.error = sent.error /\ sent'.done = sent.done
  BY <1>1 DEF Sent
<1>8. sent'.claims = claims
  BY <1>1 DEF Sent
<1> QED  BY <1>3, <1>6, <1>7, <1>8 DEF EmitsOf

\* A draft goes out when the gate passed it, or nothing of it.
LEMMA PublishKeeps ==
    ASSUME IInv, turn = "loop", NEW s, After(s), ~s.tools, Publish(s), InStream
    PROVE  IInv'
<1> USE StreamKnown
<1>1. CASE s.draft = "open" /\ st' = [s EXCEPT !.held = TRUE] /\ UNCHANGED <<turn, sent>>
  <2>1. /\ st' \in Stream /\ st'.tools = s.tools /\ st'.completed = s.completed
        /\ st'.remoteFailed = s.remoteFailed
    BY <1>1 DEF After, Stream
  <2> QED  BY <1>1, <2>1, StreamKeeps DEF After, Publishing
<1>2. CASE s.draft # "open" /\ st' = Released(s) /\ Emit(st') /\ UNCHANGED turn
  <2>1. Claims(s) \in BOOLEAN
    BY DEF Claims
  <2>2. ReleasedFrom(s, st')
    BY <1>2, <2>1, ReleasedStands DEF After
  <2>3. EmitsOf(st')
    BY <1>2, <2>2, EmitStands DEF ReleasedFrom
  <2> QED  BY <1>2, <2>2, <2>3, StreamKeeps DEF After, Publishing, ReleasedFrom, EmitsOf
<1>3. CASE s.draft = "closed" /\ Invalid(s)
  BY <1>3, InvalidKeeps
<1> QED  BY <1>1, <1>2, <1>3 DEF Publish

\* The chunk is kept, nothing goes out.
LEMMA ChunkKept ==
    ASSUME IInv, turn = "loop", NEW s, After(s), st' = s, UNCHANGED <<turn, sent>>, InStream
    PROVE  IInv'
BY StreamKnown, StreamKeeps DEF After, Publishing

\* The chunks of the loop.
LEMMA ChunksKeep ==
    ASSUME IInv, \/ Content \/ Finish \/ ToolDelta \/ Markup \/ MarkupDone \/ Done
                 \/ Malformed \/ RemoteFailure \/ Broken \/ TimedOut \/ Repetitive
    PROVE  IInv'
<1>1. turn = "loop" /\ InStream
  BY DEF Content, Finish, ToolDelta, Markup, MarkupDone, Done, Malformed, RemoteFailure, Broken,
         TimedOut, Repetitive, More, Reading
<1> USE <1>1, StreamKnown
<1>2. CASE Content
  <2>1. PICK d \in Drafts(st.draft), final \in Last(st) :
          LET s == [st EXCEPT !.draft = d, !.gated = FALSE, !.published = @ \/ ~st.tools,
                              !.finish = final]
          IN  IF st.tools THEN st' = s /\ UNCHANGED <<turn, sent>> ELSE Publish(s)
    BY <1>2 DEF Content
  <2> DEFINE s == [st EXCEPT !.draft = d, !.gated = FALSE, !.published = @ \/ ~st.tools,
                             !.finish = final]
  <2>2. After(s) /\ s.tools = st.tools
    BY DEF After, Stream, Drafts, Last
  <2>3. IF st.tools THEN st' = s /\ UNCHANGED <<turn, sent>> ELSE Publish(s)
    BY <2>1
  <2> HIDE DEF s
  <2> QED  BY <2>2, <2>3, ChunkKept, PublishKeeps
<1>3. CASE Finish
  <2> DEFINE s == [st EXCEPT !.finish = TRUE]
  <2>1. IF st.tools THEN st' = s /\ UNCHANGED <<turn, sent>> ELSE Publish(s)
    BY <1>3 DEF Finish
  <2>2. After(s) /\ s.tools = st.tools
    BY DEF After, Stream
  <2> HIDE DEF s
  <2> QED  BY <2>1, <2>2, ChunkKept, PublishKeeps
<1>4. CASE ToolDelta
  <2>1. PICK final \in Last(st) :
          LET s == [st EXCEPT !.tools = TRUE, !.finish = final]
          IN  (st' = s /\ UNCHANGED <<turn, sent>>) \/ Invalid(s)
    BY <1>4 DEF ToolDelta
  <2> DEFINE s == [st EXCEPT !.tools = TRUE, !.finish = final]
  <2>2. After(s) /\ ~s.completed
    BY DEF After, Stream, Last
  <2>3. (st' = s /\ UNCHANGED <<turn, sent>>) \/ Invalid(s)
    BY <2>1
  <2> HIDE DEF s
  <2> QED  BY <2>2, <2>3, ChunkKept, InvalidKeeps
<1>5. CASE Markup
  <2> DEFINE s == [st EXCEPT !.markup = TRUE]
  <2>1. After(s) /\ st' = s /\ UNCHANGED <<turn, sent>>
    BY <1>5 DEF Markup, After, Stream
  <2> HIDE DEF s
  <2> QED  BY <2>1, ChunkKept
<1>6. CASE MarkupDone
  <2>1. CASE /\ st' = [st EXCEPT !.tools = TRUE, !.finish = TRUE, !.done = TRUE]
             /\ turn' = "ended" /\ UNCHANGED sent
    <3>1. /\ st' \in Stream /\ st'.tools /\ st'.completed = st.completed
          /\ st'.remoteFailed = st.remoteFailed
      BY <2>1 DEF Stream
    <3> QED  BY <2>1, <3>1, StreamKeeps DEF Publishing
  <2>2. CASE Invalid(st)
    <3>1. After(st)
      BY DEF After
    <3> QED  BY <2>2, <3>1, InvalidKeeps
  <2> QED  BY <1>6, <2>1, <2>2 DEF MarkupDone
<1>7. CASE Done
  <2>1. /\ st' \in Stream /\ st'.tools = st.tools /\ st'.remoteFailed = st.remoteFailed
        /\ st'.completed = (~st.tools /\ ~st.remoteFailed) /\ turn' = "ended"
    BY <1>7 DEF Done, Stream
  <2>2. /\ sent' \in Sent /\ sent'.tools = sent.tools /\ sent'.error = sent.error
        /\ sent'.claims = sent.claims /\ (~st.tools => sent'.done > 0)
    BY <1>7 DEF Done, Sent
  <2> QED  BY <2>1, <2>2, StreamKeeps DEF Publishing
<1>8. CASE Malformed
  <2>1. After(st)
    BY DEF After
  <2> QED  BY <1>8, <2>1, InvalidKeeps DEF Malformed
<1>9. CASE RemoteFailure
  <2>1. /\ st' \in Stream /\ st'.tools = st.tools /\ st'.completed = st.completed
        /\ st'.remoteFailed /\ turn' = turn
    BY <1>9 DEF RemoteFailure, Stream
  <2>2. /\ sent' \in Sent /\ sent'.tools = sent.tools /\ sent'.claims = sent.claims
    BY <1>9 DEF RemoteFailure, Sent
  <2> QED  BY <2>1, <2>2, StreamKeeps DEF Publishing
<1>10. CASE Broken \/ TimedOut \/ Repetitive
  <2>1. /\ st' \in Stream /\ st'.tools = st.tools /\ st'.completed = st.completed
        /\ st'.remoteFailed = st.remoteFailed /\ turn' = "closing" /\ sent' = sent
    <3>1. CASE Broken \/ TimedOut
      BY <3>1 DEF Broken, TimedOut, Raise, Stream, Stages
    <3>2. CASE Repetitive
      BY <3>2 DEF Repetitive, Stream
    <3> QED  BY <1>10, <3>1, <3>2
  <2> QED  BY <2>1, StreamKeeps DEF Publishing
<1> QED  BY <1>2, <1>3, <1>4, <1>5, <1>6, <1>7, <1>8, <1>9, <1>10

\* What is flushed may be unchecked only where tool calls came with it.
LEMMA FlushStands ==
    ASSUME sent \in Sent, NEW s \in Stream, Flush(s)
    PROVE  /\ sent' \in Sent /\ sent'.tools = sent.tools /\ sent'.error = sent.error
           /\ sent'.done = sent.done
           /\ s.gated = Claims(s) /\ sent'.claims = "unchecked" => sent.claims = "unchecked"
<1>1. CASE Emit(s)
  BY <1>1, EmitStands DEF EmitsOf
<1>2. CASE sent' = sent
  BY <1>2
<1> QED  BY <1>1, <1>2 DEF Flush

\* One more [DONE].
LEMMA OneMoreDone ==
    ASSUME sent \in Sent, NEW tools \in {"none", "checked", "unchecked"}, NEW finish \in BOOLEAN,
           NEW error \in BOOLEAN,
           sent' = [sent EXCEPT !.tools = tools, !.finish = finish, !.error = error, !.done = @ + 1]
    PROVE  /\ sent' \in Sent /\ sent'.tools = tools /\ sent'.error = error /\ sent'.done > 0
           /\ sent'.claims = sent.claims
<1> DEFINE done == sent.done + 1
<1>1. done \in Nat /\ done > 0
  BY DEF Sent
<1>2. sent' = [sent EXCEPT !.tools = tools, !.finish = finish, !.error = error, !.done = done]
  OBVIOUS
<1> HIDE DEF done
<1>3. sent'.done = done
  BY <1>2 DEF Sent
<1> QED  BY <1>1, <1>2, <1>3 DEF Sent

\* The end of the stream: the last of the draft, or the preflight of the tool calls.
LEMMA WrapUpKeeps ==
    ASSUME IInv, WrapUp
    PROVE  IInv'
<1>1. turn = "ended" /\ InStream
  BY DEF WrapUp, WrapUpText, WrapUpTools, WrappingUp
<1> USE <1>1, StreamKnown
<1>2. CASE ~st.tools /\ Claims(st) /\ Invalid(st)
  <2>1. After(st)
    BY DEF After
  <2> QED  BY <1>2, <2>1, InvalidKeeps
<1>3. CASE /\ ~st.tools /\ st' = [Released(st) EXCEPT !.completed = ~st.remoteFailed]
           /\ Flush(st') /\ turn' = "closing"
  <2>1. ReleasedFrom(st, Released(st))
    BY ReleasedStands
  <2>2. /\ st' \in Stream /\ st'.tools = st.tools /\ st'.completed = ~st.remoteFailed
        /\ st'.remoteFailed = st.remoteFailed
    BY <1>3, <2>1 DEF ReleasedFrom, Stream
  <2>3. st'.gated = Released(st).gated /\ st'.draft = Released(st).draft
    BY <1>3, <2>1 DEF ReleasedFrom, Stream
  <2>4. st'.gated = Claims(st')
    BY <2>1, <2>3 DEF ReleasedFrom, Claims
  <2> QED  BY <1>3, <2>2, <2>4, FlushStands, StreamKeeps DEF Publishing
<1>4. CASE WrapUpTools
  <2>1. st.tools /\ Flush(st')
    BY <1>4 DEF WrapUpTools
  <2>2. st' \in Stream /\ st'.tools /\ ~st'.completed /\ st'.remoteFailed = st.remoteFailed
    <3>1. CASE st' = [Flushed(st) EXCEPT !.checked = TRUE]
      BY <2>1, <3>1 DEF Flushed, Stream
    <3>2. CASE Refuse(Flushed(st))
      BY <2>1, <3>2 DEF Refuse, Flushed, Stream, Stages
    <3>3. CASE st' = [Flushed(st) EXCEPT !.stage = "failed"]
      BY <2>1, <3>3 DEF Flushed, Stream, Stages
    <3>4. CASE st' = [Flushed(st) EXCEPT !.stage = "failed", !.raised = TRUE]
      BY <2>1, <3>4 DEF Flushed, Stream, Stages
    <3> QED  BY <1>4, <3>1, <3>2, <3>3, <3>4 DEF WrapUpTools
  <2>3. turn' = "admitted" => st'.checked
    <3>1. SUFFICES ASSUME st' = [Flushed(st) EXCEPT !.checked = TRUE] PROVE st'.checked
      BY <1>4 DEF WrapUpTools, Refuse
    <3> QED  BY <3>1 DEF Flushed, Stream
  <2>4. turn' \in {"admitted", "closing", "failing", "correcting"}
    BY <1>4 DEF WrapUpTools, Refuse
  <2> QED  BY <2>1, <2>2, <2>3, <2>4, FlushStands, StreamKeeps DEF Publishing
<1> QED  BY <1>2, <1>3, <1>4 DEF WrapUp, WrapUpText

\* The tool calls, their correction, an error, and the client's departure.
LEMMA TailKeeps ==
    ASSUME IInv, PublishTools \/ Correct \/ ReportError \/ Interrupt
    PROVE  IInv'
<1>1. InStream
  BY DEF PublishTools, Correct, ReportError, Interrupt
<1> USE <1>1, StreamKnown
<1>2. CASE PublishTools
  <2>1. turn = "admitted" /\ turn' = "closing"
    BY <1>2 DEF PublishTools
  <2>2. /\ st' \in Stream /\ st'.completed = ~st.remoteFailed /\ st'.remoteFailed = st.remoteFailed
        /\ st'.tools = st.tools
    BY <1>2, <2>1 DEF PublishTools, Stream
  <2>3. /\ sent' \in Sent /\ sent'.tools = "checked" /\ sent'.done > 0
        /\ sent'.claims = sent.claims /\ sent'.error = sent.error
    <3>1. sent' = [sent EXCEPT !.tools = "checked", !.finish = TRUE, !.error = sent.error,
                               !.done = @ + 1]
      BY <1>2, <2>1 DEF PublishTools, Sent
    <3> QED  BY <2>1, <3>1, OneMoreDone DEF Sent
  <2> QED  BY <2>1, <2>2, <2>3, StreamKeeps DEF Publishing
<1>3. CASE Correct
  <2>1. turn = "correcting" /\ sent' = sent /\ turn' \in {"admitted", "failing", "closing"}
    BY <1>3 DEF Correct
  <2>2. /\ st' \in Stream /\ st'.completed = st.completed /\ st'.remoteFailed = st.remoteFailed
        /\ st'.tools = st.tools /\ (turn' = "admitted" => st'.checked)
    <3>1. CASE st' = [st EXCEPT !.done = TRUE, !.finish = TRUE, !.checked = TRUE]
      BY <2>1, <3>1 DEF Stream
    <3>2. CASE st' \in {st, [st EXCEPT !.raised = TRUE]} /\ turn' # "admitted"
      BY <2>1, <3>2 DEF Stream
    <3> QED  BY <1>3, <3>1, <3>2 DEF Correct
  <2> QED  BY <2>1, <2>2, StreamKeeps DEF Publishing
<1>4. CASE ReportError
  <2>1. turn = "failing" /\ turn' = "closing"
    BY <1>4 DEF ReportError
  <2>2. /\ st' \in Stream /\ st'.completed = st.completed /\ st'.remoteFailed = st.remoteFailed
        /\ st'.tools = st.tools
    BY <1>4, <2>1 DEF ReportError, Stream
  <2>3. sent' \in Sent /\ sent'.tools = sent.tools /\ sent'.claims = sent.claims
    <3>1. sent' = [sent EXCEPT !.tools = sent.tools, !.finish = sent.finish, !.error = TRUE,
                               !.done = @ + 1]
      BY <1>4, <2>1 DEF ReportError, Sent
    <3> QED  BY <2>1, <3>1, OneMoreDone DEF Sent
  <2> QED  BY <2>1, <2>2, <2>3, StreamKeeps DEF Publishing
<1>5. CASE Interrupt
  <2>1. turn \in Publishing \cup {"ready"} /\ turn' = "closing" /\ sent' = sent
    BY <1>5 DEF Interrupt
  <2>2. st \in Stream /\ sent \in Sent
    BY DEF IInv, Typed
  <2>3. /\ st' \in Stream /\ st'.completed = st.completed /\ st'.remoteFailed = st.remoteFailed
        /\ st'.tools = st.tools
    BY <1>5, <2>2 DEF Interrupt, Stream, Stages
  <2>4. CASE turn = "ready"
    <3>1. ~st.completed /\ sent.tools = "none" /\ sent.claims = "none"
      BY <2>4 DEF IInv, ChecksFit, TellingFits, Unread, Nothing
    <3> QED  BY <2>1, <2>2, <2>3, <3>1, StreamKeeps DEF Publishing
  <2>5. CASE turn \in Publishing
    BY <2>1, <2>3, <2>5, StreamKeeps DEF Publishing
  <2> QED  BY <2>1, <2>4, <2>5
<1> QED  BY <1>2, <1>3, <1>4, <1>5

\* finish_stream records what the stream ended with.
LEMMA FinishKeeps ==
    ASSUME IInv, FinishStream
    PROVE  IInv'
<1>1. /\ turn = "closing" /\ turn' = "over" /\ pins' = pins - 1
      /\ UNCHANGED <<mode, client, asked, st, sent, answer>>
  BY DEF FinishStream
<1>2. pins = 1 /\ st \in Stream /\ sent \in Sent
  BY <1>1 DEF IInv, PinsFit, Holding, Typed
<1>3. status' \in Stages
  BY <1>2 DEF FinishStream, Stages, Stream
<1>4. driver' \in {"calling", "reading", "over"}
  BY DEF FinishStream, IInv, Typed, TypeOK
<1>5. Typed'
  BY <1>1, <1>2, <1>3, <1>4 DEF IInv, Typed, TypeOK, Turns
<1>6. PinsFit'
  BY <1>1, <1>2 DEF PinsFit, Holding, Publishing
<1>7. ChecksFit'
  BY <1>1 DEF IInv, ChecksFit, Unread, ToolCallsArePreflighted, ClaimsAreGated
<1>8. status' = "completed" => sent.done > 0 /\ ~sent.error
  <2>1. status' = "completed" => st.completed /\ ~st.remoteFailed
    BY DEF FinishStream, Terminal
  <2> QED  BY <1>1, <2>1 DEF IInv, TellingFits
<1>9. TellingFits'
  BY <1>1, <1>8 DEF TellingFits, Publishing, CompletedWasSaid
<1> QED  BY <1>5, <1>6, <1>7, <1>9 DEF IInv

\* A turn begins with nothing sent, and is ready with a fresh stream.
LEMMA BeginKeeps ==
    ASSUME IInv, Call \/ Prepared
    PROVE  IInv'
<1>1. \A remote \in BOOLEAN : NewStream(remote) \in Stream /\ ~NewStream(remote).completed
  BY DEF NewStream, Stream, Stages
<1>2. Nothing \in Sent /\ Nothing.tools = "none" /\ Nothing.claims = "none" /\ Nothing.done = 0
  BY DEF Nothing, Sent
<1>3. /\ turn' \in Unread /\ sent' = Nothing /\ st' \in {NewStream(TRUE), NewStream(FALSE)}
      /\ pins' = 1 /\ status' \in Stages
      /\ UNCHANGED <<mode, client, driver, asked, answer>>
  <2>1. CASE Call
    BY <2>1 DEF Call, Unread, IInv, PinsFit, Holding, Publishing, Stages
  <2>2. CASE Prepared
    BY <2>2 DEF Prepared, Unread, IInv, PinsFit, Holding, ChecksFit, Typed, TypeOK
  <2> QED  BY <2>1, <2>2
<1>4. st' \in Stream /\ ~st'.completed
  BY <1>1, <1>3
<1>5. Typed'
  BY <1>1, <1>2, <1>3, <1>4 DEF IInv, Typed, TypeOK, Unread, Turns, Results, Stream, Sent
<1>6. PinsFit'
  BY <1>3 DEF PinsFit, Holding, Unread
<1>7. ChecksFit'
  BY <1>2, <1>3 DEF ChecksFit, Unread, ToolCallsArePreflighted, ClaimsAreGated
<1>8. TellingFits'
  BY <1>3, <1>4 DEF TellingFits, Unread, Publishing, CompletedWasSaid
<1> QED  BY <1>5, <1>6, <1>7, <1>8 DEF IInv

\* Outside the stream: nothing is sent, and a turn only ends.
LEMMA RestKeeps ==
    ASSUME IInv, UNCHANGED <<mode, st, sent>>, client' \in {"here", "gone"},
           driver' \in {"calling", "reading", "over"},
           asked' \in [stream : BOOLEAN, remote : BOOLEAN, retries : 0..RetryLimit,
                       loads : 0..MaxLoads, judged : BOOLEAN],
           answer' \in {"none", "created", "completed", "failed"},
           \/ UNCHANGED <<turn, pins, status>>
           \/ turn = "ready" /\ turn' = "loop" /\ UNCHANGED <<pins, status>>
           \/ /\ turn = "preparing" /\ turn' \in {"over", "error", "loading", "judge", "answered"}
              /\ pins' = pins - 1 /\ status' \in Stages
              /\ turn' = "over" => status' = "cancelled"
           \/ turn \notin Holding /\ turn' = "none" /\ UNCHANGED <<pins, status>>
    PROVE  IInv'
<1>1. CASE UNCHANGED <<turn, pins, status>>
  BY <1>1 DEF IInv, Typed, TypeOK, PinsFit, ChecksFit, TellingFits, CompletedWasSaid,
              ToolCallsArePreflighted, ClaimsAreGated
<1>2. CASE turn = "ready" /\ turn' = "loop" /\ UNCHANGED <<pins, status>>
  <2>1. sent = Nothing /\ ~st.completed
    BY <1>2 DEF IInv, ChecksFit, TellingFits, Unread
  <2>2. Typed'
    BY <1>2 DEF IInv, Typed, TypeOK, Turns, Publishing
  <2>3. PinsFit'
    BY <1>2 DEF IInv, PinsFit, Holding, Publishing
  <2>4. ChecksFit'
    BY <1>2 DEF IInv, ChecksFit, Unread, ToolCallsArePreflighted, ClaimsAreGated
  <2>5. TellingFits'
    BY <1>2, <2>1 DEF TellingFits, Publishing, CompletedWasSaid, Nothing
  <2> QED  BY <2>2, <2>3, <2>4, <2>5 DEF IInv
<1>3. CASE /\ turn = "preparing" /\ turn' \in {"over", "error", "loading", "judge", "answered"}
           /\ pins' = pins - 1 /\ status' \in Stages
           /\ turn' = "over" => status' = "cancelled"
  <2>1. pins = 1
    BY <1>3 DEF IInv, PinsFit, Holding
  <2>2. Typed'
    BY <1>3, <2>1 DEF IInv, Typed, TypeOK, Turns, Results
  <2>3. PinsFit'
    BY <1>3, <2>1 DEF PinsFit, Holding, Publishing
  <2>4. ChecksFit'
    BY <1>3 DEF IInv, ChecksFit, Unread, ToolCallsArePreflighted, ClaimsAreGated
  <2>5. TellingFits'
    BY <1>3 DEF TellingFits, Publishing, CompletedWasSaid
  <2> QED  BY <2>2, <2>3, <2>4, <2>5 DEF IInv
<1>4. CASE turn \notin Holding /\ turn' = "none" /\ UNCHANGED <<pins, status>>
  <2>1. Typed'
    BY <1>4 DEF IInv, Typed, TypeOK, Turns
  <2>2. PinsFit'
    BY <1>4 DEF IInv, PinsFit, Holding, Publishing
  <2>3. ChecksFit'
    BY <1>4 DEF IInv, ChecksFit, Unread, ToolCallsArePreflighted, ClaimsAreGated
  <2>4. TellingFits'
    BY <1>4 DEF TellingFits, Publishing, CompletedWasSaid
  <2> QED  BY <2>1, <2>2, <2>3, <2>4 DEF IInv
<1> QED  BY <1>1, <1>2, <1>3, <1>4

\* Everything the request does between two streams.
LEMMA DrivesKeep ==
    ASSUME IInv,
           \/ Answered \/ ChatReturned \/ Open \/ Reads \/ Complete \/ Fail \/ Retry \/ GiveUp
           \/ JudgeRetry \/ TranslateAnswer \/ AwaitLoading \/ ReportFailure
           \/ Leave \/ Abandon \/ Over \/ UNCHANGED vars
    PROVE  IInv'
<1>1. /\ client \in {"here", "gone"} /\ driver \in {"calling", "reading", "over"}
      /\ asked \in [stream : BOOLEAN, remote : BOOLEAN, retries : 0..RetryLimit,
                    loads : 0..MaxLoads, judged : BOOLEAN]
      /\ answer \in {"none", "created", "completed", "failed"}
      /\ RetryLimit \in Nat /\ MaxLoads \in Nat
  BY StreamAssumption DEF IInv, Typed, TypeOK
<1> USE <1>1
<1>2. CASE Answered
  BY <1>2, RestKeeps DEF Answered, Stages
<1>3. CASE Open
  BY <1>3, RestKeeps DEF Open
<1>4. CASE ChatReturned \/ Reads
  BY <1>4, RestKeeps DEF ChatReturned, Reads, Stay
<1>5. CASE Complete \/ Fail \/ GiveUp \/ ReportFailure
  BY <1>5, RestKeeps DEF Complete, Fail, GiveUp, ReportFailure, Answer, Stay
<1>6. CASE TranslateAnswer
  BY <1>6, RestKeeps DEF TranslateAnswer, Stay
<1>7. CASE Retry
  <2>1. turn = "over" /\ turn' = "none" /\ UNCHANGED <<mode, client, pins, st, sent, status, answer>>
        /\ driver' = "calling"
    BY <1>7 DEF Retry, Read, StreamOver
  <2>2. asked' \in [stream : BOOLEAN, remote : BOOLEAN, retries : 0..RetryLimit,
                    loads : 0..MaxLoads, judged : BOOLEAN]
    <3>1. PICK reason \in Reasons : asked' = AskAgain(reason)
      BY <1>7 DEF Retry
    <3> DEFINE retries == asked.retries + 1
               remote  == asked.remote \/ reason \in Quality
    <3>2. retries \in 0..RetryLimit /\ remote \in BOOLEAN
      BY <1>7 DEF Retry, RetriesLeft
    <3>3. asked' = [asked EXCEPT !.retries = retries, !.remote = remote]
      BY <3>1 DEF AskAgain
    <3> HIDE DEF retries, remote
    <3> QED  BY <3>2, <3>3
  <2> QED  BY <2>1, <2>2, RestKeeps DEF Holding, Publishing
<1>8. CASE JudgeRetry
  BY <1>8, RestKeeps DEF JudgeRetry, Holding, Publishing
<1>9. CASE AwaitLoading
  <2>1. turn = "loading" /\ turn' = "none"
        /\ UNCHANGED <<mode, client, driver, pins, st, sent, status, answer>>
    BY <1>9 DEF AwaitLoading
  <2>2. asked' \in [stream : BOOLEAN, remote : BOOLEAN, retries : 0..RetryLimit,
                    loads : 0..MaxLoads, judged : BOOLEAN]
    <3> DEFINE loads == asked.loads + 1
    <3>1. loads \in 0..MaxLoads
      BY <1>9 DEF AwaitLoading
    <3>2. asked' = [asked EXCEPT !.loads = loads]
      BY <1>9 DEF AwaitLoading
    <3> HIDE DEF loads
    <3> QED  BY <3>1, <3>2
  <2> QED  BY <2>1, <2>2, RestKeeps DEF Holding, Publishing
<1>10. CASE Leave \/ Over \/ UNCHANGED vars
  BY <1>10, RestKeeps DEF Leave, Over, vars
<1>11. CASE Abandon
  BY <1>11, RestKeeps DEF Abandon, Stages
<1> QED  BY <1>2, <1>3, <1>4, <1>5, <1>6, <1>7, <1>8, <1>9, <1>10, <1>11
-----------------------------------------------------------------------------
(***************************************************************************)
(* The theorems.                                                           *)
(***************************************************************************)

\* The inductive invariant: where the request stands fixes whether its turn holds its pin,
\* and what the stream recorded is what it sent.
THEOREM Invariance == Spec => []IInv
<1>1. Init => IInv
  <2> SUFFICES ASSUME Init PROVE IInv
    OBVIOUS
  <2>1. st \in Stream /\ ~st.completed /\ sent \in Sent /\ sent.tools = "none" /\ sent.claims = "none"
    BY DEF Init, NewStream, Nothing, Stream, Sent, Stages
  <2>2. Typed
    <3>1. asked \in [stream : BOOLEAN, remote : BOOLEAN, retries : 0..RetryLimit,
                     loads : 0..MaxLoads, judged : BOOLEAN]
      BY StreamAssumption DEF Init
    <3>2. st.draft \in {"none", "plain", "open", "closed"} /\ st.stage \in Stages
          /\ sent.claims \in {"none", "passed", "unchecked"} /\ sent.done \in Nat
          /\ sent.tools \in {"none", "checked", "unchecked"}
      BY <2>1 DEF Stream, Sent
    <3> QED  BY <2>1, <3>1, <3>2 DEF Init, Typed, TypeOK, Turns, Stages
  <2>3. PinsFit
    BY DEF Init, PinsFit, Holding, Publishing
  <2>4. ChecksFit
    BY <2>1 DEF Init, ChecksFit, Unread, ToolCallsArePreflighted, ClaimsAreGated
  <2>5. TellingFits
    BY DEF Init, TellingFits, Publishing, CompletedWasSaid
  <2> QED  BY <2>2, <2>3, <2>4, <2>5 DEF IInv
<1>2. IInv /\ [Next]_vars => IInv'
  BY ChunksKeep, WrapUpKeeps, TailKeeps, FinishKeeps, BeginKeeps, DrivesKeep
  DEF Next, Chunk, Publishes, Returns, Drives
<1> QED  BY <1>1, <1>2, PTL DEF Spec

\* No tool call reaches the client before all calls of its answer passed preflight and were
\* admitted, and no draft that claims completion before the output gate passed it: stream_response
\* and its corrected answer, for either endpoint and any number of retries.
THEOREM WhatIsSentWasChecked == Spec => []OutputIsChecked
<1>1. IInv => OutputIsChecked
  BY DEF IInv, Typed, ChecksFit, OutputIsChecked
<1> QED  BY <1>1, Invariance, PTL

\* A turn is recorded as completed only if its client was told so and told of no error, and
\* the turns of a request never overlap: finish_stream against what was sent.
THEOREM WhatIsRecordedWasTold == Spec => []TurnsAreTold
<1>1. IInv => TurnsAreTold
  BY DEF IInv, PinsFit, TellingFits, TurnsAreTold, OneTurnAtATime
<1> QED  BY <1>1, Invariance, PTL

=============================================================================
