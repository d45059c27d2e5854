------------------------------ MODULE ChatStream ------------------------------
(***************************************************************************)
(* A streamed turn: the Executor's SSE is read, checked and published      *)
(* chunk by chunk (forward_sse, stream_response), the turn is closed once  *)
(* (finish_stream), and on /v1/responses a second generator reads that     *)
(* stream, buffers its translation and may ask for the turn again          *)
(* (responses_sse, response_stream).  The client may leave at any await.   *)
(* Text is abstracted to what the output gate tells apart: a draft without *)
(* completion claims ("plain"), one that claims and stops in the middle of *)
(* a sentence ("open"), one that claims and ends a sentence ("closed").    *)
(***************************************************************************)
EXTENDS Naturals

CONSTANTS Modes,       \* which endpoints are explored: "chat", "responses"
          MayLeave,    \* may the client disconnect?
          RetryLimit,  \* progress-only retries of one Responses request
          MaxLoads     \* bound: answers "model_loading" before the deadline

ASSUME StreamAssumption ==
    /\ Modes \subseteq {"chat", "responses"}
    /\ MayLeave \in BOOLEAN
    /\ RetryLimit \in Nat /\ MaxLoads \in Nat

VARIABLES mode,    \* the endpoint
          client,  \* "here" or "gone"
          driver,  \* the reader: "calling" chat(), "reading" its stream, or "over"
          asked,   \* what the Responses generator asks chat() for
          turn,    \* where chat() and its stream are
          pins,    \* turns that hold their pin, leases and usage row
          st,      \* the stream of the latest turn
          sent,    \* what came out of that stream
          status,  \* the status it was recorded with
          answer   \* the Responses events the client got

vars == <<mode, client, driver, asked, turn, pins, st, sent, status, answer>>

Publishing == {"loop", "ended", "admitted", "correcting", "failing"}
Results    == {"ready", "answered", "judge", "loading", "error"}
Turns      == {"none", "preparing", "closing", "over"} \cup Publishing \cup Results
Stages     == {"none", "completed", "failed", "timed_out", "cancelled"}
Quality    == {"invalid_output", "language_mismatch", "truncated_response",
               "unsafe_tool_call", "duplicate_tool_call"}

\* StreamObservation and the locals of stream_response.
NewStream(remote) ==
    [remote |-> remote, draft |-> "none", published |-> FALSE, held |-> FALSE,
     tools |-> FALSE, markup |-> FALSE, finish |-> FALSE, done |-> FALSE,
     completed |-> FALSE, remoteFailed |-> FALSE, stage |-> "none", raised |-> FALSE,
     rejected |-> FALSE, gated |-> FALSE, checked |-> FALSE]

Nothing == [claims |-> "none", tools |-> "none", finish |-> FALSE,
            error |-> FALSE, done |-> 0, late |-> FALSE]

Init ==
    /\ mode \in Modes
    /\ client = "here" /\ driver = "calling" /\ turn = "none"
    /\ asked = [stream |-> TRUE, remote |-> FALSE, retries |-> 0, loads |-> 0, judged |-> FALSE]
    /\ pins = 0
    /\ st = NewStream(FALSE) /\ sent = Nothing
    /\ status = "none" /\ answer = "none"

-----------------------------------------------------------------------------

\* The chat() call of the request, or the next one of a Responses request.
Call ==
    /\ driver = "calling" /\ turn = "none"
    /\ turn' = "preparing" /\ pins' = pins + 1
    /\ st' = NewStream(FALSE) /\ sent' = Nothing /\ status' = "none"
    /\ UNCHANGED <<mode, client, driver, asked, answer>>

\* chat() returns a stream with the turn still open, ...
Prepared ==
    /\ turn = "preparing" /\ asked.stream
    /\ \E remote \in IF asked.remote THEN {TRUE} ELSE BOOLEAN : st' = NewStream(remote)
    /\ turn' = "ready"
    /\ UNCHANGED <<mode, client, driver, asked, pins, sent, status, answer>>

\* ... or an answer, with the turn finalized.
Answered ==
    /\ turn = "preparing"
    /\ turn' \in {"error", "loading"} \cup IF asked.stream THEN {"judge"} ELSE {"answered"}
    /\ status' = IF turn' = "answered" THEN "completed" ELSE "failed"
    /\ pins' = pins - 1
    /\ UNCHANGED <<mode, client, driver, asked, st, sent, answer>>

\* Chat Completions: the server iterates the stream, or the JSON answer is all.
ChatReturned ==
    /\ mode = "chat" /\ driver = "calling" /\ turn \in Results
    /\ driver' = IF turn = "ready" THEN "reading" ELSE "over"
    /\ UNCHANGED <<mode, client, asked, turn, pins, st, sent, status, answer>>

Open ==
    /\ driver = "reading" /\ turn = "ready"
    /\ turn' = "loop"
    /\ UNCHANGED <<mode, client, driver, asked, pins, st, sent, status, answer>>

-----------------------------------------------------------------------------
\* forward_sse and the loop of stream_response.  Each action reads one chunk.

Reading == driver = "reading" /\ turn = "loop"
More    == Reading /\ ~st.markup /\ ~st.finish /\ ~st.remoteFailed

InStream == UNCHANGED <<mode, client, driver, asked, pins, status, answer>>

\* Mutant: the failure of the remote Executor leaves no trace.
RemoteFailureUnseen ==
    /\ More /\ st.remote
    /\ st' = [st EXCEPT !.finish = TRUE]
    /\ sent' = [sent EXCEPT !.error = TRUE]
    /\ UNCHANGED turn /\ InStream

\* How the draft may look after one more piece of content.
Drafts(d) == IF d \in {"open", "closed"} THEN {"open", "closed"} ELSE {"plain", "open", "closed"}

\* A remote answer is one chunk with everything in it, then [DONE].
Last(s) == IF s.remote THEN {TRUE} ELSE BOOLEAN

Claims(s) == s.draft \in {"open", "closed"}

\* What is held goes out.
Emit(s) ==
    sent' = [sent EXCEPT !.finish = s.finish,
                         !.claims = IF ~Claims(s) THEN @
                                    ELSE IF s.gated /\ @ # "unchecked" THEN "passed"
                                    ELSE "unchecked",
                         !.late = @ \/ sent.done > 0]

\* A ValueError: with a tool call seen and nothing published, one correction;
\* without a tool call the stream breaks off.
Refuse(s) ==
    /\ st' = [s EXCEPT !.stage = "failed", !.raised = ~s.tools]
    /\ turn' = IF ~s.tools THEN "closing" ELSE IF s.published THEN "failing" ELSE "correcting"

Invalid(s) == Refuse(s) /\ UNCHANGED sent

\* Any other exception.
Raise(s, stage) ==
    /\ st' = [s EXCEPT !.stage = stage, !.raised = TRUE]
    /\ turn' = "closing"
    /\ UNCHANGED sent

\* check_output_completion passed the draft, if there was anything to check.
Released(s) == [s EXCEPT !.held = FALSE, !.gated = Claims(s)]

\* Mutant: looks at the end of the sentence only.
PublishUngated(s) ==
    IF s.draft = "open" THEN st' = [s EXCEPT !.held = TRUE] /\ UNCHANGED <<turn, sent>>
    ELSE st' = [s EXCEPT !.held = FALSE] /\ Emit(st') /\ UNCHANGED turn

\* A chunk of content, or the finish chunk: held until the draft ends a sentence
\* if it makes claims, then published if check_output_completion lets it.
Publish(s) ==
    \/ /\ s.draft = "open"
       /\ st' = [s EXCEPT !.held = TRUE]
       /\ UNCHANGED <<turn, sent>>
    \/ /\ s.draft # "open"
       /\ st' = Released(s) /\ Emit(st')
       /\ UNCHANGED turn
    \/ s.draft = "closed" /\ Invalid(s)

Content ==
    /\ More
    /\ \E d \in Drafts(st.draft), final \in Last(st) :
         LET s == [st EXCEPT !.draft = d, !.gated = FALSE, !.published = @ \/ ~st.tools, !.finish = final]
         IN  IF st.tools THEN st' = s /\ UNCHANGED <<turn, sent>> ELSE Publish(s)
    /\ InStream

Finish ==
    /\ More /\ ~st.remote
    /\ LET s == [st EXCEPT !.finish = TRUE]
       IN  IF st.tools THEN st' = s /\ UNCHANGED <<turn, sent>> ELSE Publish(s)
    /\ InStream

\* Tool chunks are kept back whole, up to the capture limit.
ToolDelta ==
    /\ More
    /\ \E final \in Last(st) :
         LET s == [st EXCEPT !.tools = TRUE, !.finish = final]
         IN  \/ st' = s /\ UNCHANGED <<turn, sent>>
             \/ Invalid(s)
    /\ InStream

\* A tool call written as text: everything up to the end is set aside ...
Markup ==
    /\ More /\ ~st.remote
    /\ st' = [st EXCEPT !.markup = TRUE]
    /\ UNCHANGED <<turn, sent>> /\ InStream

\* ... and becomes a native call, or is refused.
MarkupDone ==
    /\ Reading /\ st.markup
    /\ \/ /\ st' = [st EXCEPT !.tools = TRUE, !.finish = TRUE, !.done = TRUE]
          /\ turn' = "ended" /\ UNCHANGED sent
       \/ Invalid(st)
    /\ InStream

\* The end of the stream: [DONE], or its absence after a finish reason.  It goes
\* out at once, whatever is still held; with tool calls it waits with them.
Done ==
    /\ Reading /\ ~st.markup /\ (st.remote => st.finish \/ st.remoteFailed)
    /\ st' = [st EXCEPT !.done = TRUE, !.completed = ~st.tools /\ ~st.remoteFailed]
    /\ sent' = IF st.tools THEN sent ELSE [sent EXCEPT !.done = @ + 1]
    /\ turn' = "ended"
    /\ InStream

\* An event too long, cut off at the end, or no terminal marker.
Malformed == Reading /\ Invalid(st) /\ InStream

\* remote_upstream: the Frontier failed, which is reported as chunks.
RemoteFailure ==
    /\ More /\ st.remote
    /\ st' = [st EXCEPT !.remoteFailed = TRUE]
    /\ sent' = [sent EXCEPT !.error = TRUE]
    /\ UNCHANGED turn /\ InStream

Broken  == Reading /\ ~st.remote /\ Raise(st, "failed") /\ InStream
TimedOut == Reading /\ Raise(st, "timed_out") /\ InStream

-----------------------------------------------------------------------------
\* After the loop.

Flushed(s) == [s EXCEPT !.held = FALSE]

Flush(s) == IF st.held THEN Emit(s) ELSE UNCHANGED sent

WrappingUp == driver = "reading" /\ turn = "ended" /\ InStream

\* A last look at the draft, then what is held of it.
WrapUpText ==
    /\ WrappingUp /\ ~st.tools
    /\ \/ /\ st' = [Released(st) EXCEPT !.completed = ~st.remoteFailed]
          /\ Flush(st')
          /\ turn' = "closing"
       \/ Claims(st) /\ Invalid(st)

\* With tool calls the draft goes out as it is; then their preflight, one by one,
\* and their admission, which the loop's budget or a policy may refuse.
WrapUpTools ==
    /\ WrappingUp /\ st.tools
    /\ \/ st' = [Flushed(st) EXCEPT !.checked = TRUE] /\ Flush(st') /\ turn' = "admitted"
       \/ Refuse(Flushed(st)) /\ Flush(st')
       \/ st' = [Flushed(st) EXCEPT !.stage = "failed"] /\ Flush(st') /\ turn' = "failing"
       \/ st' = [Flushed(st) EXCEPT !.stage = "failed", !.raised = TRUE] /\ Flush(st')
             /\ turn' = "closing"

WrapUp == WrapUpText \/ WrapUpTools

\* The tool chunks, [DONE] among them.
PublishTools ==
    /\ driver = "reading" /\ turn = "admitted"
    /\ st' = [st EXCEPT !.completed = ~st.remoteFailed]
    /\ sent' = [sent EXCEPT !.tools = IF st.checked THEN "checked" ELSE "unchecked",
                            !.finish = TRUE, !.done = @ + 1]
    /\ turn' = "closing"
    /\ InStream

\* One complete answer is asked for instead; it passes the same checks, or the
\* first error stands.  What admission raises here leaves without a word.
Correct ==
    /\ driver = "reading" /\ turn = "correcting"
    /\ \/ /\ st' = [st EXCEPT !.done = TRUE, !.finish = TRUE, !.checked = TRUE]
          /\ turn' = "admitted"
       \/ st' = st /\ turn' = "failing"
       \/ st' = [st EXCEPT !.raised = TRUE] /\ turn' = "closing"
    /\ UNCHANGED sent /\ InStream

\* An error payload and [DONE].
ReportError ==
    /\ driver = "reading" /\ turn = "failing"
    /\ st' = [st EXCEPT !.done = FALSE]
    /\ sent' = [sent EXCEPT !.error = TRUE, !.done = @ + 1]
    /\ turn' = "closing"
    /\ InStream

\* The client's departure reaches the stream at an await or a yield.
Interrupt ==
    /\ driver = "reading" /\ client = "gone" /\ turn \in {"ready"} \cup Publishing
    /\ \E s \in {"none", "cancelled"} :
         st' = [st EXCEPT !.stage = IF turn # "ready" /\ @ = "none" THEN s ELSE @]
    /\ turn' = "closing"
    /\ UNCHANGED sent /\ InStream

-----------------------------------------------------------------------------
\* finish_stream: once per turn, whoever comes first; the upstream is closed and
\* the turn finalized under the status the stream ended with.
Terminal == st.completed /\ ~st.remoteFailed

\* Mutant: a stream that broke off is not finalized.
FinishRegular ==
    /\ turn = "closing"
    /\ turn' = "over" /\ pins' = IF st.raised THEN pins ELSE pins - 1
    /\ status' = IF Terminal THEN "completed" ELSE "cancelled"
    /\ driver' = IF mode = "chat" THEN "over" ELSE driver
    /\ UNCHANGED <<mode, client, asked, st, sent, answer>>

FinishStream ==
    /\ turn = "closing"
    /\ turn' = "over" /\ pins' = pins - 1
    /\ status' = IF Terminal THEN "completed"
                 ELSE IF st.stage \in {"timed_out", "failed"} THEN st.stage
                 ELSE "cancelled"
    /\ driver' = IF mode = "chat" THEN "over" ELSE driver
    /\ UNCHANGED <<mode, client, asked, st, sent, answer>>

-----------------------------------------------------------------------------
\* Responses: the generator that calls chat() and translates what it returns.

Responding == mode = "responses"

Stay == UNCHANGED <<mode, client, turn, pins, st, sent, status>>

Answer(with) == answer' = with /\ driver' = "over" /\ asked' = asked /\ Stay

Reads ==
    /\ Responding /\ driver = "calling" /\ turn = "ready"
    /\ driver' = "reading"
    /\ Stay /\ UNCHANGED <<asked, answer>>

\* Text that repeats itself is given up while the stream runs: it is closed.
Repetitive ==
    /\ Responding /\ Reading /\ sent.finish = FALSE /\ st.published
    /\ st' = [st EXCEPT !.rejected = TRUE]
    /\ turn' = "closing"
    /\ UNCHANGED sent /\ InStream

\* The stream as responses_sse saw it: broken, or to be judged as a whole.
Unusable == st.raised \/ sent.error \/ (~sent.finish /\ sent.done = 0)

Reasons == IF st.rejected THEN {"invalid_output"}
           ELSE IF sent.tools # "none"
           THEN {"duplicate_tool_call", "truncated_response", "unsafe_tool_call", "invalid_output"}
           ELSE {"truncated_response", "invalid_output", "language_mismatch", "progress_only"}

StreamOver == turn = "over"

Read == Responding /\ driver = "reading" /\ StreamOver

Complete == Read /\ ~st.rejected /\ ~Unusable /\ Answer("completed")
Fail     == Read /\ ~st.rejected /\ Unusable /\ Answer("failed")

\* Mutant: counts nothing.
AskUncounted(reason) == [asked EXCEPT !.remote = @ \/ reason \in Quality]

\* The request for another turn: after a bad one, from the Frontier.
AskAgain(reason) == [asked EXCEPT !.retries = @ + 1, !.remote = @ \/ reason \in Quality]

RetriesLeft == asked.retries < RetryLimit

Retry ==
    /\ Read /\ (st.rejected \/ ~Unusable) /\ RetriesLeft
    /\ \E reason \in Reasons : asked' = AskAgain(reason)
    /\ driver' = "calling" /\ turn' = "none"
    /\ UNCHANGED <<mode, client, pins, st, sent, status, answer>>

GiveUp ==
    /\ Read /\ (st.rejected \/ ~Unusable) /\ ~RetriesLeft
    /\ Answer("failed")

Calling == Responding /\ driver = "calling"

\* A high-risk turn needs an answer in one piece: asked for once.
JudgeRetry ==
    /\ Calling /\ turn = "judge" /\ ~asked.judged
    /\ asked' = [asked EXCEPT !.judged = TRUE, !.stream = FALSE]
    /\ turn' = "none"
    /\ UNCHANGED <<mode, client, driver, pins, st, sent, status, answer>>

\* That answer is translated as it is read; if it is rejected nothing catches it.
TranslateAnswer ==
    /\ Calling /\ turn = "answered"
    /\ answer' \in {"created", "completed"} /\ driver' = "over"
    /\ Stay /\ UNCHANGED asked

\* The model is loading: wait and ask again until the deadline.
AwaitLoading ==
    /\ Calling /\ turn = "loading" /\ asked.loads < MaxLoads
    /\ asked' = [asked EXCEPT !.loads = @ + 1]
    /\ turn' = "none"
    /\ UNCHANGED <<mode, client, driver, pins, st, sent, status, answer>>

ReportFailure ==
    /\ Calling /\ turn \in {"error", "loading", "judge"} /\ (turn = "judge" => asked.judged)
    /\ Answer("failed")

-----------------------------------------------------------------------------

Leave ==
    /\ MayLeave /\ client = "here" /\ driver # "over"
    /\ client' = "gone"
    /\ UNCHANGED <<mode, driver, asked, turn, pins, st, sent, status, answer>>

\* The generator is closed between two reads: chat() is cancelled if it still
\* runs, and its result is dropped if it does not.
Abandon ==
    /\ Responding /\ client = "gone"
    /\ driver = "calling" \/ (driver = "reading" /\ turn = "over")
    /\ driver' = "over"
    /\ IF turn = "preparing"
       THEN turn' = "over" /\ pins' = pins - 1 /\ status' = "cancelled"
       ELSE UNCHANGED <<turn, pins, status>>
    /\ UNCHANGED <<mode, client, asked, st, sent, answer>>

Chunk == \/ Content \/ Finish \/ ToolDelta \/ Markup \/ MarkupDone \/ Done
         \/ Malformed \/ RemoteFailure \/ Broken \/ Repetitive

Returns == Prepared \/ Answered

Publishes == WrapUp \/ PublishTools \/ Correct \/ ReportError

Drives == \/ Call \/ ChatReturned \/ Open \/ Reads \/ Complete \/ Fail \/ Retry \/ GiveUp
          \/ JudgeRetry \/ TranslateAnswer \/ AwaitLoading \/ ReportFailure

\* Everybody is done.
Over == driver = "over" /\ UNCHANGED vars

Next == Chunk \/ TimedOut \/ Publishes \/ FinishStream \/ Returns \/ Drives \/ Interrupt
          \/ Leave \/ Abandon \/ Over

\* chat() returns (each of its stages has a timeout), the stream has a deadline,
\* the client takes what it is sent or leaves, and the rest is the program's.
Fairness == /\ WF_vars(Returns) /\ WF_vars(TimedOut) /\ WF_vars(Publishes)
            /\ WF_vars(FinishStream) /\ WF_vars(Drives)
            /\ WF_vars(Interrupt) /\ WF_vars(Abandon)

Spec == Init /\ [][Next]_vars /\ Fairness

-----------------------------------------------------------------------------

\* Every variable keeps to its range.
TypeOK ==
    /\ mode \in Modes /\ client \in {"here", "gone"}
    /\ driver \in {"calling", "reading", "over"} /\ turn \in Turns
    /\ asked \in [stream : BOOLEAN, remote : BOOLEAN, retries : 0..RetryLimit,
                   loads : 0..MaxLoads, judged : BOOLEAN]
    /\ pins \in Nat
    /\ st.draft \in {"none", "plain", "open", "closed"} /\ st.stage \in Stages
    /\ sent.claims \in {"none", "passed", "unchecked"} /\ sent.done \in Nat
    /\ sent.tools \in {"none", "checked", "unchecked"}
    /\ status \in Stages /\ answer \in {"none", "created", "completed", "failed"}

\* No tool call reaches the client before all calls of the answer have passed
\* preflight and were admitted to the loop: the stream's fragments, a call
\* recovered from text, or those of the one corrected answer.
ToolCallsArePreflighted == sent.tools # "unchecked"

\* A draft that claims completion is published only after the output gate let it
\* pass, unless tool calls came with it.
ClaimsAreGated == sent.claims = "unchecked" => st.tools

\* A turn is recorded as completed only if its client was told it was done and
\* was told of no error.
CompletedWasSaid ==
    status = "completed" /\ turn = "over" => sent.done > 0 /\ ~sent.error

\* A Responses request never has two turns open: a stream that was given up is
\* closed and its pin released before chat() is called again.
OneTurnAtATime == pins <= 1

\* What reaches the client was checked first, whatever was held back, recovered
\* or corrected on the way.
OutputIsChecked == TypeOK /\ ToolCallsArePreflighted /\ ClaimsAreGated

\* What is recorded of a turn is what its client saw, and a retried request never
\* runs twice at once.
TurnsAreTold == CompletedWasSaid /\ OneTurnAtATime

\* The result of chat() that nobody reads any more.
Dropped == driver = "over" /\ turn = "ready"

\* Every turn ends and gives back what it holds, however its stream ends, unless
\* the Responses client left between the end of chat() and its reading.
TurnsRelease == pins > 0 ~> pins = 0 \/ Dropped

\* A Responses client that stays gets response.completed or response.failed, unless
\* the answer asked for in one piece is rejected.
ClientsAreAnswered ==
    Responding ~> \/ answer \in {"completed", "failed"} \/ client = "gone"
                  \/ driver = "over" /\ answer = "created"

\* Every turn of a client that left ends and gives back what it holds.  (Violated:
\* the result of chat() may be dropped unread.)
StreamsEnd == pins > 0 ~> pins = 0

\* A stream the server ends, ends for its client with a terminal event.  (Violated
\* when an answer asked for in one piece is rejected.)
StreamsTerminate ==
    Responding ~> answer \in {"completed", "failed"} \/ client = "gone"

=============================================================================
