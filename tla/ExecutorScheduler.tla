-------------------------- MODULE ExecutorScheduler --------------------------
(***************************************************************************)
(* The admission of one chat turn to the local Executor                    *)
(* (gateway/src/dgx_moa/executor_scheduler.py): a fixed number of local    *)
(* slots, one FIFO queue per API key, a round robin over the keys that     *)
(* have a queue, and an overflow to the remote Executor.                   *)
(*                                                                         *)
(* Each method runs under self._lock and is one action; between the steps  *)
(* of acquire (queueing, the on_queued callback, the wait) other requests  *)
(* run.  Abstracted: timestamps, the queue position and the round robin    *)
(* epoch that are only reported.  A request id is a fresh uuid4 of one     *)
(* key, so a second acquire of a pinned id, which raises or returns the    *)
(* pin and changes nothing, is left out, and a slot of Requests is used    *)
(* again for a later turn once its turn is over.                           *)
(***************************************************************************)
EXTENDS RequestSlots, Naturals, Sequences, FiniteSets, Functions

CONSTANTS Keys,         \* API keys
          KeyOf,        \* the API key of each turn
          MaxLocal,     \* max_local_concurrency
          SameKeyMax,   \* same_key_max_local_queue
          TotalMax,     \* max_total_local_queue
          StoreFails    \* may the on_queued callback raise (sqlite error)?

ASSUME KeyAssumption ==
    /\ IsFiniteSet(Requests)
    /\ KeyOf \in [Requests -> Keys]

ASSUME LimitAssumption ==
    /\ MaxLocal \in Nat \ {0}
    /\ SameKeyMax \in Nat \ {0}
    /\ TotalMax \in Nat \ {0}
    /\ StoreFails \in BOOLEAN

VARIABLES
    owners,        \* _owners: the requests holding a local slot
    queues,        \* _queues: API key -> its waiting requests, oldest first
    roundRobin,    \* _round_robin: the keys with a queue, next turn first
    pins,          \* _pins: request -> lease_state, "none" when absent
    localEnabled,  \* _local_enabled
    caller         \* where the coroutine that called acquire is

pinVars == <<owners, queues, roundRobin, pins>>
schedulerVars == <<owners, queues, roundRobin, pins, localEnabled, caller>>

LeaseStates == {"none", "acquired", "queued", "overflow"}

\* "notifying": queued, before on_queued returns; "waiting": in wait_for;
\* "local" / "remote": acquire returned an admission; "detached": the turn
\* released its local pin early and goes on remotely; "failed": acquire
\* raised; "lost": acquire raised and left its queue entry behind.
CallerStates == {"idle", "notifying", "waiting", "local", "remote",
                 "detached", "failed", "lost"}

Ids(s) == {s[i] : i \in DOMAIN s}
Distinct(s) == \A i, j \in DOMAIN s : s[i] = s[j] => i = j
RemoveAt(s, i) == [j \in 1..(Len(s) - 1) |-> IF j < i THEN s[j] ELSE s[j + 1]]

\* A request stands in one queue at most, once, so these set sizes are the
\* lengths the code adds up.
Queued == UNION {Ids(queues[k]) : k \in DOMAIN queues}
KeyDepth(k) == IF k \in DOMAIN queues THEN Len(queues[k]) ELSE 0

-----------------------------------------------------------------------------

SchedulerInit ==
    /\ owners = {}
    /\ queues = [k \in {} |-> <<>>]
    /\ roundRobin = <<>>
    /\ pins = [r \in Requests |-> "none"]
    /\ localEnabled = TRUE
    /\ caller = [r \in Requests |-> "idle"]

(***************************************************************************)
(* acquire.  flash: the caller may overflow; high: a high or critical      *)
(* risk turn; local = local_available and _local_enabled.                  *)
(***************************************************************************)
\* Mutant: takes a slot ahead of the requests that wait for one.
BargingIdleSlot == Cardinality(owners) <= MaxLocal

HasIdleSlot == Cardinality(owners) < MaxLocal /\ DOMAIN queues = {}

QueueIsFull(k) == \/ KeyDepth(k) >= SameKeyMax
                  \/ Cardinality(Queued) >= TotalMax

MustOverflow(high, flash) ==
    ~high /\ flash /\ Cardinality(Queued) >= TotalMax

Overflow(r) ==
    /\ pins' = [pins EXCEPT ![r] = "overflow"]
    /\ caller' = [caller EXCEPT ![r] = "remote"]
    /\ UNCHANGED <<owners, queues, roundRobin>>

Refuse(r) ==
    /\ caller' = [caller EXCEPT ![r] = "failed"]
    /\ UNCHANGED pinVars

AdmitLocally(r) ==
    /\ owners' = owners \cup {r}
    /\ pins' = [pins EXCEPT ![r] = "acquired"]
    /\ caller' = [caller EXCEPT ![r] = "local"]
    /\ UNCHANGED <<queues, roundRobin>>

\* Mutant: a key that starts to wait takes the next turn.
EnqueueKeyFirst(r) ==
    LET k == KeyOf[r] IN
    /\ queues' = [x \in DOMAIN queues \cup {k} |->
                    IF x # k THEN queues[x]
                    ELSE IF k \in DOMAIN queues THEN Append(queues[k], r) ELSE <<r>>]
    /\ roundRobin' = IF k \in DOMAIN queues THEN roundRobin ELSE <<k>> \o roundRobin
    /\ pins' = [pins EXCEPT ![r] = "queued"]
    /\ caller' = [caller EXCEPT ![r] = "notifying"]
    /\ UNCHANGED owners

Enqueue(r) ==
    LET k == KeyOf[r] IN
    /\ IF k \in DOMAIN queues
         THEN /\ queues' = [queues EXCEPT ![k] = Append(@, r)]
              /\ UNCHANGED roundRobin
         ELSE /\ queues' = [x \in DOMAIN queues \cup {k} |->
                              IF x = k THEN <<r>> ELSE queues[x]]
              /\ roundRobin' = Append(roundRobin, k)
    /\ pins' = [pins EXCEPT ![r] = "queued"]
    /\ caller' = [caller EXCEPT ![r] = "notifying"]
    /\ UNCHANGED owners

Acquire(r, high, flash, available) ==
    /\ caller[r] = "idle"
    /\ IF ~(available /\ localEnabled)
         THEN IF flash THEN Overflow(r) ELSE Refuse(r)
         ELSE IF HasIdleSlot THEN AdmitLocally(r)
         ELSE IF MustOverflow(high, flash) THEN Overflow(r)
         ELSE IF QueueIsFull(KeyOf[r]) THEN Refuse(r)
         ELSE Enqueue(r)
    /\ UNCHANGED localEnabled

(***************************************************************************)
(* on_queued runs after the lock is dropped and outside the try block that *)
(* would release the request.                                              *)
(***************************************************************************)
NotifyQueued(r) ==
    /\ caller[r] = "notifying"
    /\ caller' = [caller EXCEPT ![r] = "waiting"]
    /\ UNCHANGED <<pinVars, localEnabled>>

NotifyFails(r) ==
    /\ StoreFails
    /\ caller[r] = "notifying"
    /\ caller' = [caller EXCEPT ![r] = "lost"]
    /\ UNCHANGED <<pinVars, localEnabled>>

(***************************************************************************)
(* release, with _promote: the freed slot goes to the oldest waiter of the *)
(* key whose turn it is; a key does not follow itself while another waits. *)
(***************************************************************************)
TurnOrder(last) ==
    IF Len(roundRobin) > 1 /\ Head(roundRobin) = last
      THEN Append(Tail(roundRobin), Head(roundRobin))
      ELSE roundRobin

\* Mutant: the promoted request keeps its queued pin.
PromoteStalePin(r) ==
    LET turns == TurnOrder(KeyOf[r])
        k     == Head(turns)
        next  == Head(queues[k])
    IN  /\ owners' = (owners \ {r}) \cup {next}
        /\ pins' = [pins EXCEPT ![r] = "none"]
        /\ queues' = IF Len(queues[k]) > 1
                       THEN [queues EXCEPT ![k] = Tail(@)]
                       ELSE Restrict(queues, DOMAIN queues \ {k})
        /\ roundRobin' = IF Len(queues[k]) > 1
                           THEN Append(Tail(turns), k) ELSE Tail(turns)

\* Mutant: the newest waiter of the key is promoted.
PromoteNewest(r) ==
    LET turns == TurnOrder(KeyOf[r])
        k     == Head(turns)
        n     == Len(queues[k])
        next  == queues[k][n]
    IN  /\ owners' = (owners \ {r}) \cup {next}
        /\ pins' = [pins EXCEPT ![r] = "none", ![next] = "acquired"]
        /\ queues' = IF n > 1 THEN [queues EXCEPT ![k] = SubSeq(@, 1, n - 1)]
                     ELSE Restrict(queues, DOMAIN queues \ {k})
        /\ roundRobin' = IF n > 1 THEN Append(Tail(turns), k) ELSE Tail(turns)

Promote(r) ==
    LET turns == TurnOrder(KeyOf[r])
        k     == Head(turns)
        next  == Head(queues[k])
    IN  /\ owners' = (owners \ {r}) \cup {next}
        /\ pins' = [pins EXCEPT ![r] = "none", ![next] = "acquired"]
        /\ IF Len(queues[k]) > 1
             THEN /\ queues' = [queues EXCEPT ![k] = Tail(@)]
                  /\ roundRobin' = Append(Tail(turns), k)
             ELSE /\ queues' = Restrict(queues, DOMAIN queues \ {k})
                  /\ roundRobin' = Tail(turns)

\* Mutant: the freed slot is offered to nobody.
ReleaseOwnerSilently(r) ==
    /\ owners' = owners \ {r}
    /\ pins' = [pins EXCEPT ![r] = "none"]
    /\ UNCHANGED <<queues, roundRobin>>

ReleaseOwner(r) ==
    IF roundRobin = <<>>
      THEN /\ owners' = owners \ {r}
           /\ pins' = [pins EXCEPT ![r] = "none"]
           /\ UNCHANGED <<queues, roundRobin>>
      ELSE Promote(r)

ReleaseQueued(r) ==
    LET k == KeyOf[r] IN
    /\ \E i \in DOMAIN queues[k] :
         /\ queues[k][i] = r
         /\ LET rest == RemoveAt(queues[k], i) IN
            IF rest # <<>>
              THEN /\ queues' = [queues EXCEPT ![k] = rest]
                   /\ UNCHANGED roundRobin
              ELSE /\ queues' = Restrict(queues, DOMAIN queues \ {k})
                   /\ \E j \in DOMAIN roundRobin :
                        /\ roundRobin[j] = k
                        /\ roundRobin' = RemoveAt(roundRobin, j)
    /\ pins' = [pins EXCEPT ![r] = "none"]
    /\ UNCHANGED owners

ReleaseRemote(r) ==
    /\ pins' = [pins EXCEPT ![r] = "none"]
    /\ UNCHANGED <<owners, queues, roundRobin>>

Release(r) ==
    \/ pins[r] = "none" /\ UNCHANGED pinVars
    \/ r \in owners /\ ReleaseOwner(r)
    \/ pins[r] = "queued" /\ r \notin owners /\ ReleaseQueued(r)
    \/ pins[r] = "overflow" /\ r \notin owners /\ ReleaseRemote(r)

(***************************************************************************)
(* The rest of acquire, and the callers.                                   *)
(***************************************************************************)
\* The future of a promoted request is resolved by call_soon_threadsafe; its
\* coroutine runs some time after the promotion.
Resume(r) ==
    /\ caller[r] = "waiting" /\ pins[r] = "acquired"
    /\ caller' = [caller EXCEPT ![r] = "local"]
    /\ UNCHANGED <<pinVars, localEnabled>>

\* Mutant: a time-out that comes after the promotion keeps the slot.
GiveUpUnlessPromoted(r) ==
    /\ caller[r] = "waiting"
    /\ IF pins[r] = "queued" THEN Release(r) ELSE UNCHANGED pinVars
    /\ caller' = [caller EXCEPT ![r] = "failed"]
    /\ UNCHANGED localEnabled

\* TimeoutError or CancelledError in wait_for, perhaps after the promotion.
GiveUp(r) ==
    /\ caller[r] = "waiting"
    /\ Release(r)
    /\ caller' = [caller EXCEPT ![r] = "failed"]
    /\ UNCHANGED localEnabled

\* The local server refuses the request (HTTP 400): the turn gives its slot
\* back and continues on the remote Executor.
Detach(r) ==
    /\ caller[r] = "local"
    /\ Release(r)
    /\ caller' = [caller EXCEPT ![r] = "detached"]
    /\ UNCHANGED localEnabled

\* finalize_request; its release finds no pin when the turn was detached.
Finalize(r) ==
    /\ caller[r] \in {"local", "remote", "detached"}
    /\ Release(r)
    /\ caller' = [caller EXCEPT ![r] = "idle"]
    /\ UNCHANGED localEnabled

\* The slot of a turn that was refused or gave up serves another turn.
NextTurn(r) ==
    /\ caller[r] = "failed"
    /\ caller' = [caller EXCEPT ![r] = "idle"]
    /\ UNCHANGED <<pinVars, localEnabled>>

SetLocalEnabled(enabled) ==
    /\ localEnabled' = enabled
    /\ UNCHANGED <<pinVars, caller>>

AdmissionStep(r) ==
    \/ \E high, flash, available \in BOOLEAN : Acquire(r, high, flash, available)
    \/ NotifyQueued(r) \/ NotifyFails(r) \/ Resume(r) \/ GiveUp(r)
    \/ Detach(r) \/ Finalize(r) \/ NextTurn(r)

SchedulerNext ==
    \/ \E r \in Requests : AdmissionStep(r)
    \/ \E enabled \in BOOLEAN : SetLocalEnabled(enabled)

SchedulerSpec == SchedulerInit /\ [][SchedulerNext]_schedulerVars

(***************************************************************************)
(* A promoted coroutine runs, a synchronous callback returns and a turn    *)
(* that was admitted ends (every stage has a timeout).  Nothing is assumed *)
(* of the queue timeout, of cancellations, of new turns or of operators.   *)
(***************************************************************************)
SchedulerFairness ==
    \A r \in Requests :
        /\ WF_schedulerVars(NotifyQueued(r))
        /\ WF_schedulerVars(Resume(r))
        /\ WF_schedulerVars(Finalize(r))

FairSchedulerSpec == SchedulerSpec /\ SchedulerFairness

-----------------------------------------------------------------------------
(***************************************************************************)
(* Properties.                                                             *)
(***************************************************************************)

\* Every variable has its type: the one type invariant of the module.
SchedulerTypeOK ==
    /\ owners \subseteq Requests
    /\ DOMAIN queues \subseteq Keys
    /\ queues \in [DOMAIN queues -> Seq(Requests)]
    /\ roundRobin \in Seq(Keys)
    /\ pins \in [Requests -> LeaseStates]
    /\ localEnabled \in BOOLEAN
    /\ caller \in [Requests -> CallerStates]

\* The round robin names every key that has a queue exactly once and no other
\* key, and no key keeps an empty queue: acquire tests `not self._queues`, so
\* one empty deque left behind would close the local Executor for good.
RoundRobinMatchesQueues ==
    /\ Ids(roundRobin) = DOMAIN queues
    /\ Distinct(roundRobin)
    /\ \A k \in DOMAIN queues : queues[k] # <<>>

\* _pins, _owners and _queues, three views changed by separate statements,
\* agree: a request is pinned "acquired" iff it owns a slot, and "queued" iff
\* it is in the queue of its own key, where it stands once.
PinsMatchQueues ==
    /\ \A r \in Requests : r \in owners <=> pins[r] = "acquired"
    /\ \A r \in Requests :
         pins[r] = "queued" => KeyOf[r] \in DOMAIN queues /\ r \in Ids(queues[KeyOf[r]])
    /\ \A k \in DOMAIN queues :
         /\ Distinct(queues[k])
         /\ \A r \in Ids(queues[k]) : pins[r] = "queued" /\ KeyOf[r] = k

\* The views agree that acquire and release keep of the same requests in four
\* collections, whose members have their types, executor_scheduler.py:178-300.
ViewsAgree == SchedulerTypeOK /\ RoundRobinMatchesQueues /\ PinsMatchQueues

\* The local slots are never overcommitted, and none is idle while a request
\* is queued, whatever mixture of releases, time-outs and early detaches led
\* there.
NoIdleSlotWhileQueued ==
    /\ Cardinality(owners) <= MaxLocal
    /\ DOMAIN queues # {} => Cardinality(owners) = MaxLocal

\* A turn that is over, and one that acquire refused, timed out or cancelled,
\* keeps no pin: nothing else would ever release it.  (A "lost" one does: its
\* callback raised outside the try block, executor_scheduler.py:245.)
NoOrphanPin ==
    \A r \in Requests : caller[r] \in {"idle", "failed"} => pins[r] = "none"

\* Within one API key the slot goes to the request that was queued first.
PerKeyFifo ==
    [][\A k \in DOMAIN queues : \A i, j \in DOMAIN queues[k] :
         (i < j /\ pins'[queues[k][j]] = "acquired")
           => pins'[queues[k][i]] # "queued"]_schedulerVars

\* A low or medium risk turn that may overflow never waits for a busy slot.
\* (Violated: it is queued while the queue has room, executor_scheduler.py:201.)
BusyMeansOverflow ==
    [][\A r \in Requests :
         Acquire(r, FALSE, TRUE, TRUE) => pins'[r] # "queued"]_schedulerVars

\* The scheduler keeps the promise of LeasePool: a pin is a phase of the pool.
PhaseOf == [none |-> "idle", queued |-> "waiting",
            acquired |-> "holding", overflow |-> "remote"]

Pool == INSTANCE LeasePool WITH
    Capacity <- MaxLocal,
    phase <- [r \in Requests |-> PhaseOf[pins[r]]]

ImplementsPool == Pool!PoolSpec

\* A request that waits is answered without the help of the queue time-out:
\* admitted turns end, and the round robin reaches every key.  Only a request
\* that was lost in its queue holds up the others.
WaitersAnswered ==
    ([](\A s \in Requests : caller[s] # "lost")) =>
        \A r \in Requests : caller[r] = "waiting" ~> caller[r] # "waiting"

=============================================================================
