------------------------------ MODULE Frontier ------------------------------
(***************************************************************************)
(* Calls of the Frontier (gateway/src/dgx_moa/frontier.py,                 *)
(* CodexOAuthCollaboration): each goes through the OAuth profiles in turn, *)
(* under one lock per profile, as a turn of a persistent App Server thread *)
(* or, when that is unavailable, as a codex exec process; when they all    *)
(* fail a paid provider may be asked, each time with as many requests as   *)
(* it takes; a circuit breaker refuses calls after repeated failures.      *)
(*                                                                         *)
(* All calls run in one event loop and share the circuit, the paid ids and *)
(* the thread map; other processes share the profile locks.  Prompts,      *)
(* schemas, costs and the bytes on the pipes are left out.                 *)
(***************************************************************************)
EXTENDS Naturals, Sequences, FiniteSets, SequencesExt

CONSTANTS Calls,
          Kinds,           \* call -> the kinds of call it may be
          Sessions,
          Session,         \* call -> the session whose thread it continues
          ThreadIds,       \* bound of the model: the threads the App Server can start
          Saved,           \* the thread maps an earlier run may have left
          Correlation,     \* call -> its invocation id
          Profiles,        \* the configured profiles, in order
          AppServer,       \* config.protocol is codex-app-server-jsonrpc
          Retries,         \* collaboration_retries
          FailureLimit,    \* circuit_failure_limit
          CompactAfter,    \* app_server_compact_after_turns
          MaxThreads,      \* app_server_max_threads
          MaxPaid          \* the paid ids that are remembered: 10_000

\* optional: no paid fallback; required: a code_review; executor: also bounded in size;
\* expert: collaborate_openrouter, paid from the start.
Kind == {"optional", "required", "executor", "expert"}

Entry == [session : Sessions, id : ThreadIds, turns : Nat]

\* A thread map: at most so many threads a profile, one of a session, none of two.
\* That is what the code saves; its loader does not check it.
IsThreadMap(map) ==
    /\ map \in [ToSet(Profiles) -> Seq(Entry)]
    /\ \A p \in ToSet(Profiles) : Len(map[p]) <= MaxThreads
    /\ \A p, q \in ToSet(Profiles) : \A i \in DOMAIN map[p], j \in DOMAIN map[q] :
         <<p, i>> # <<q, j>> =>
           map[p][i].id # map[q][j].id /\ (p = q => map[p][i].session # map[q][j].session)

ASSUME FrontierAssumption ==
    /\ Kinds \in [Calls -> SUBSET Kind] /\ Calls \cap {"free", "cli"} = {}
    /\ Session \in [Calls -> Sessions] /\ DOMAIN Correlation = Calls
    /\ Profiles \in Seq(ToSet(Profiles)) /\ Profiles # <<>> /\ AppServer \in BOOLEAN
    /\ ThreadIds \subseteq Nat \ {0} /\ \A map \in Saved : IsThreadMap(map)
    /\ {Retries, MaxPaid} \subseteq Nat /\ {FailureLimit, CompactAfter, MaxThreads} \subseteq Nat \ {0}

\* Failures, as far as they are told apart.  identity: authentication, context, usage,
\* rate, timeout, provider; spawn: also E2BIG; silent: exit 0 without a result.
Failover == {"identity", "busy"}    \* PROFILE_FAILOVER_FAILURES = PAID_FALLBACK_FAILURES

Free == "free"
Cli  == "cli"                       \* run_task in another process

VARIABLES
    call,       \* call -> where it is: see NoCall
    locked,     \* profile -> the holder of its file lock
    circuit,    \* closed; open; cooled: open, and the cooldown has passed
    failures,   \* failed calls since the last success, up to the limit
    paid,       \* openrouter_calls
    threads,    \* profile -> app_server_threads, oldest first
    working     \* the threads in which the App Server runs a turn

vars == <<call, locked, circuit, failures, paid, threads, working>>
breaker == <<circuit, failures>>
server  == <<threads, working>>

NoCall == [at |-> "new", kind |-> "optional", profile |-> 1, attempt |-> 0,
           thread |-> 0,             \* thread_id; 0 is None
           known |-> FALSE,          \* active_turn_id is known
           accepted |-> FALSE, compacted |-> FALSE,
           final |-> "protocol",     \* final_failure
           fate |-> <<>>,            \* what became of each profile it tried, until it paid
           entered |-> FALSE,        \* history: openrouter_calls has taken its id
           posts |-> 0]              \* history: the billable requests it has sent

Init ==
    /\ call = [c \in Calls |-> NoCall]
    /\ locked = [p \in ToSet(Profiles) |-> Free]
    /\ circuit = "closed" /\ failures = 0
    /\ paid = {} /\ threads \in Saved /\ working = {}

Profile(c) == Profiles[call[c].profile]
To(c, step) == call' = [call EXCEPT ![c].at = step]
Over(c) == call' = [call EXCEPT ![c] = [NoCall EXCEPT !.at = "over"]]
Unlock(c) == locked' = [p \in DOMAIN locked |-> IF locked[p] = c THEN Free ELSE locked[p]]

-----------------------------------------------------------------------------
(***************************************************************************)
(* The circuit breaker and the paid fallback.                              *)
(***************************************************************************)
\* _failed, after n failures.
Failed(n) ==
    /\ failures' = IF n + 1 >= FailureLimit THEN FailureLimit ELSE n + 1
    /\ circuit' = IF n + 1 >= FailureLimit THEN "open" ELSE "closed"

Succeeded == circuit' = "closed" /\ failures' = 0

\* A call that starts after the cooldown starts afresh; no other call resets anything.
Afresh == IF circuit = "cooled" THEN 0 ELSE failures
Stays(n) == failures' = n /\ circuit' = IF n = FailureLimit THEN circuit ELSE "closed"

Cool == circuit = "open" /\ circuit' = "cooled"
        /\ UNCHANGED <<call, locked, failures, paid, server>>

\* The end of a call whose id was taken, after so many billable requests.
Paid(c, fate, posts) ==
    call' = [call EXCEPT ![c] = [NoCall EXCEPT !.at = "over", !.fate = fate,
                                               !.entered = TRUE, !.posts = posts]]

\* The id is taken; from the limit on, any id is forgotten for it, itself perhaps.  No
\* thread can come between the look and the entry.
Enter(id) ==
    LET ids == paid \cup {id} IN
      paid' \in IF Cardinality(ids) > MaxPaid THEN {ids \ {x} : x \in ids} ELSE {ids}

\* A request that is not answered in time, or not as the schema wants it, is repeated.
Requests == 1..(Retries + 1)

\* Mutant: nobody remembers who has paid.
PayAgain(c, n, fate) == Paid(c, fate, 1) /\ Succeeded /\ UNCHANGED paid

\* _openrouter, with all its attempts; within _run it blocks the event loop.
Pay(c, n, fate) ==
    \/ /\ Correlation[c] \in paid
       /\ Over(c) /\ Failed(n) /\ UNCHANGED paid
    \/ /\ Correlation[c] \notin paid /\ Enter(Correlation[c])
       /\ \/ Succeeded /\ \E posts \in Requests : Paid(c, fate, posts)
          \/ Paid(c, fate, Retries + 1) /\ Failed(n)
          \/ Paid(c, fate, 0) /\ Stays(n)         \* no usable key

MayPay(kind) == kind \in {"required", "executor"}

\* Codex is not asked: the circuit is open, or the executor's package too large.  Whether
\* a paid fallback is available is read off the key's file at that moment.
WithoutCodex(c, kind, n) ==
    \/ MayPay(kind) /\ Pay(c, n, <<>>)
    \/ Over(c) /\ Stays(n) /\ UNCHANGED paid

Begin(c) ==
    /\ call[c].at = "new"
    /\ \E kind \in Kinds[c] \ {"expert"} :
         \/ circuit = "open" /\ WithoutCodex(c, kind, failures)
         \/ circuit # "open" /\ kind = "executor" /\ WithoutCodex(c, kind, Afresh)
         \/ /\ circuit # "open" /\ Stays(Afresh) /\ UNCHANGED paid
            /\ call' = [call EXCEPT ![c].at = "next", ![c].kind = kind]
    /\ UNCHANGED <<locked, server>>

\* collaborate_openrouter runs in a thread: it looks at no circuit and others go on.
BeginExpert(c) ==
    /\ call[c].at = "new" /\ "expert" \in Kinds[c]
    /\ \/ /\ Correlation[c] \in paid
          /\ Over(c) /\ Failed(failures) /\ UNCHANGED paid
       \/ /\ Correlation[c] \notin paid /\ Enter(Correlation[c]) /\ UNCHANGED breaker
          /\ \/ call' = [call EXCEPT ![c].at = "paying", ![c].entered = TRUE]
             \/ Paid(c, <<>>, 0)                    \* no usable key
    /\ UNCHANGED <<locked, server>>

\* One billable request of the thread.
ExpertPosts(c) ==
    /\ call[c].at = "paying"
    /\ LET posts == call[c].posts + 1 IN
         \/ Paid(c, <<>>, posts) /\ Succeeded
         \/ posts <= Retries /\ call' = [call EXCEPT ![c].posts = posts] /\ UNCHANGED breaker
         \/ posts > Retries /\ Paid(c, <<>>, posts) /\ Failed(failures)
    /\ UNCHANGED <<locked, paid, server>>

-----------------------------------------------------------------------------
(***************************************************************************)
(* The loop over profiles and attempts.                                    *)
(***************************************************************************)
HasNext(c) == call[c].profile < Len(Profiles)

\* The end of a call that selected no profile, or whose process wrote no result:
\* final_failure decides, whosever it is.
Conclude(c, final, fate) ==
    \/ final \in Failover /\ MayPay(call[c].kind) /\ Pay(c, failures, fate)
    \/ Over(c) /\ Failed(failures) /\ UNCHANGED paid

\* Mutant: the attempts are not counted.
AttemptFailsAgain(c, why) ==
    /\ call' = [call EXCEPT ![c] = [@ EXCEPT !.at = "next", !.thread = 0, !.known = FALSE,
                                             !.accepted = FALSE, !.compacted = FALSE]]
    /\ UNCHANGED <<breaker, paid>>

\* An identity that fails, or is busy, makes way for the next one; any other failure is
\* tried again, but for a process that could not be started.
AttemptFails(c, why) ==
    LET fate == Append(call[c].fate, why)
        final == IF why = "silent" THEN call[c].final ELSE why
        on == [NoCall EXCEPT !.at = "next", !.kind = call[c].kind, !.final = final] IN
      CASE why \in Failover /\ HasNext(c) ->
             /\ call' = [call EXCEPT ![c] = [on EXCEPT !.profile = call[c].profile + 1,
                                                       !.fate = fate]]
             /\ UNCHANGED <<breaker, paid>>
        [] why = "protocol" /\ call[c].attempt < Retries ->
             /\ call' = [call EXCEPT ![c] = [on EXCEPT !.profile = call[c].profile,
                                                       !.attempt = call[c].attempt + 1,
                                                       !.fate = call[c].fate]]
             /\ UNCHANGED <<breaker, paid>>
        [] OTHER -> Conclude(c, final, fate)

\* The answer; one that the schema refuses is an error that counts as no failure.
Answers(c) ==
    /\ \/ Over(c) /\ Succeeded
       \/ Over(c) /\ UNCHANGED breaker
    /\ UNCHANGED paid

\* profile_lock does not wait.
Lock(c) ==
    /\ call[c].at = "next"
    /\ IF locked[Profile(c)] = Free
         THEN /\ locked' = [locked EXCEPT ![Profile(c)] = c]
              /\ To(c, IF AppServer THEN "opening" ELSE "exec")
              /\ UNCHANGED <<breaker, paid>>
         ELSE AttemptFails(c, "busy") /\ UNCHANGED locked
    /\ UNCHANGED server

OtherProcess ==
    /\ \E p \in DOMAIN locked :
         \/ locked[p] = Free /\ locked' = [locked EXCEPT ![p] = Cli]
         \/ locked[p] = Cli /\ locked' = [locked EXCEPT ![p] = Free]
    /\ UNCHANGED <<call, breaker, paid, server>>

\* run_codex_exec; a timeout is a failure of the identity.
Exec(c) ==
    /\ call[c].at = "exec" /\ Unlock(c)
    /\ \/ Answers(c)
       \/ \E why \in {"identity", "protocol", "spawn", "silent"} : AttemptFails(c, why)
    /\ UNCHANGED server

(***************************************************************************)
(* run_codex_app_server: a proxy process is started, a thread resumed or   *)
(* started and perhaps compacted, then one turn runs in it.                *)
(***************************************************************************)
Entries(c) == {i \in DOMAIN threads[Profile(c)] : threads[Profile(c)][i].session = Session[c]}
Turns(c) == IF Entries(c) = {} THEN 0
            ELSE threads[Profile(c)][CHOOSE i \in Entries(c) : TRUE].turns

Used == working \cup {call[c].thread : c \in Calls}
          \cup UNION {{threads[p][i].id : i \in DOMAIN threads[p]} : p \in DOMAIN threads}
NewId == CHOOSE i \in ThreadIds : i \notin Used

StartTurn(c, thread, compacted) ==
    /\ call' = [call EXCEPT ![c] = [@ EXCEPT !.at = "asked", !.thread = thread,
                                             !.known = FALSE, !.compacted = compacted]]
    /\ working' = working \cup {thread}

Open(c) ==
    /\ call[c].at = "opening"
    /\ Entries(c) # {} \/ ThreadIds \ Used # {}
    /\ LET thread == IF Entries(c) = {} THEN NewId
                     ELSE threads[Profile(c)][CHOOSE i \in Entries(c) : TRUE].id IN
         IF Turns(c) < CompactAfter THEN StartTurn(c, thread, FALSE)
         ELSE /\ call' = [call EXCEPT ![c].at = "compacting", ![c].thread = thread]
              /\ working' = working \cup {thread}
    /\ UNCHANGED <<locked, breaker, paid, threads>>

\* The compaction is a turn too; its end may be read before its acceptance.
Compact(c) ==
    /\ call[c].at = "compacting"
    /\ \/ ~call[c].known /\ ~call[c].compacted
          /\ call' = [call EXCEPT ![c].known = TRUE] /\ UNCHANGED working
       \/ ~call[c].accepted /\ IF call[c].compacted THEN StartTurn(c, call[c].thread, TRUE)
                               ELSE call' = [call EXCEPT ![c].accepted = TRUE]
                                    /\ UNCHANGED working
       \/ ~call[c].compacted /\ IF call[c].accepted THEN StartTurn(c, call[c].thread, TRUE)
                                ELSE /\ call' = [call EXCEPT ![c].compacted = TRUE,
                                                             ![c].known = FALSE]
                                     /\ working' = working \ {call[c].thread}
    /\ UNCHANGED <<locked, breaker, paid, threads>>

TurnIsKnown(c) ==
    /\ call[c].at = "asked"
    /\ call' = [call EXCEPT ![c].at = "running", ![c].known = TRUE]
    /\ UNCHANGED <<locked, breaker, paid, server>>

\* Mutant: an entry is written without looking for an older one.
RememberBlindly(c) ==
    threads' = [threads EXCEPT ![Profile(c)] =
                  Append(@, [session |-> Session[c], id |-> call[c].thread, turns |-> 1])]

\* _remember_app_server_thread: the oldest entry of the profile is dropped.
Remember(c) ==
    LET entry == [session |-> Session[c], id |-> call[c].thread,
                  turns |-> IF call[c].compacted THEN 1 ELSE Turns(c) + 1] IN
      threads' = [threads EXCEPT ![Profile(c)] =
                    IF Entries(c) # {} THEN [i \in DOMAIN @ |-> IF i \in Entries(c)
                                                                  THEN entry ELSE @[i]]
                    ELSE Append(IF Len(@) >= MaxThreads THEN Tail(@) ELSE @, entry)]

TurnEnds(c) ==
    /\ call[c].at = "running" /\ working' = working \ {call[c].thread}
    /\ Remember(c) /\ Unlock(c) /\ Answers(c)

\* The turn fails with a typed error, and with it the identity.
ServerRefuses(c) ==
    /\ call[c].at \in {"opening", "compacting", "asked", "running"}
    /\ working' = working \ {call[c].thread}
    /\ Unlock(c) /\ AttemptFails(c, "identity") /\ UNCHANGED threads

\* A thread no session remembers is out of sight.
LeavesTurn(c) == working' = IF Entries(c) = {} THEN working \ {call[c].thread} ELSE working

\* The proxy is gone, or says what is not understood: codex exec, under the same lock.
\* A turn that was started goes on.
ServerUnavailable(c) ==
    /\ call[c].at \in {"opening", "compacting", "asked", "running"}
    /\ call' = [call EXCEPT ![c] = [@ EXCEPT !.at = "exec", !.thread = 0, !.known = FALSE,
                                             !.accepted = FALSE, !.compacted = FALSE]]
    /\ LeavesTurn(c) /\ UNCHANGED <<locked, breaker, paid, threads>>

\* A turn whose id is not known yet cannot be interrupted.
Interrupt(c) == IF call[c].known THEN working' = working \ {call[c].thread} ELSE LeavesTurn(c)

Timeout(c) ==
    /\ call[c].at \in {"opening", "compacting", "asked", "running"}
    /\ Interrupt(c) /\ Unlock(c) /\ AttemptFails(c, "identity") /\ UNCHANGED threads

Cancel(c) ==
    /\ call[c].at \in {"opening", "compacting", "asked", "running", "exec"}
    /\ Interrupt(c) /\ Unlock(c) /\ Over(c)
    /\ UNCHANGED <<breaker, paid, threads>>

\* A turn nobody waits for comes to its end in the App Server.
LeftTurnEnds ==
    /\ working' \in {working \ {t} : t \in working \ {call[c].thread : c \in Calls}}
    /\ working' # working
    /\ UNCHANGED <<call, locked, breaker, paid, threads>>

-----------------------------------------------------------------------------

Step(c) == \/ Begin(c) \/ BeginExpert(c) \/ ExpertPosts(c) \/ Lock(c) \/ Exec(c)
           \/ Open(c) \/ Compact(c) \/ TurnIsKnown(c) \/ TurnEnds(c)
           \/ ServerRefuses(c) \/ ServerUnavailable(c) \/ Timeout(c)

Rest == (\A c \in Calls : call[c].at = "over") /\ UNCHANGED vars

Next == (\E c \in Calls : Step(c) \/ Cancel(c)) \/ Cool \/ OtherProcess \/ LeftTurnEnds \/ Rest

\* Every wait of a call is bounded by a timeout, but that for a pipe to close after the
\* prompt was written to it (stdin.wait_closed), which is taken to end.
Spec == Init /\ [][Next]_vars /\ \A c \in Calls : WF_vars(Step(c))

-----------------------------------------------------------------------------

\* A thread belongs to one session on one profile, and no two calls ever use it at once,
\* whoever was evicted, interrupted or retried meanwhile (_app_server_key, profile_lock).
ThreadsAreSeparate ==
    /\ \A c, d \in Calls : c # d /\ call[c].thread # 0 => call[c].thread # call[d].thread
    /\ \A p \in DOMAIN threads :
         /\ Len(threads[p]) <= MaxThreads
         /\ \A i, j \in DOMAIN threads[p] :
              i # j => threads[p][i].session # threads[p][j].session
         /\ \A c \in Calls : \A i \in DOMAIN threads[p] :
              call[c].thread = threads[p][i].id =>
                threads[p][i].session = Session[c] /\ p = Profile(c)

\* Ids that were ever taken.
Entered == {Correlation[c] : c \in {d \in Calls : call[d].entered}}

\* One call of a correlation id sends billable requests, and no more than it may repeat,
\* whatever becomes of each; another call of the id sends any only after more ids than are
\* remembered were taken.  When Codex was asked at all, money is spent only after every
\* profile failed in a way another identity may heal - or one ended with neither a result
\* nor an error, whereupon the failure of an earlier one is taken for its own.
PaidIsLastResort ==
    /\ \A c, d \in Calls :
         c # d /\ Correlation[c] = Correlation[d] /\ call[c].posts > 0 /\ call[d].posts > 0
           => Cardinality(Entered) > MaxPaid
    /\ \A c \in Calls :
         /\ call[c].posts <= Retries + 1
         /\ call[c].posts > 0 /\ call[c].fate # <<>> =>
              \/ Len(call[c].fate) = Len(Profiles) /\ ToSet(call[c].fate) \subseteq Failover
              \/ Last(call[c].fate) = "silent"

\* Every call comes to an end, whatever others hold the profiles and however often each
\* of them fails.
CallsEnd == \A c \in Calls : <>(call[c].at = "over")

\* A turn is interrupted when its call times out or is cancelled (violated before the
\* answer to turn/start has told its id).
TurnsAreInterrupted ==
    [][\A c \in Calls :
         call[c].at \in {"compacting", "asked", "running"} /\ call'[c].at # "exec"
           /\ call'[c].thread = 0 => call[c].thread \notin working']_vars

=============================================================================
