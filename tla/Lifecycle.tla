------------------------------ MODULE Lifecycle ------------------------------
(***************************************************************************)
(* The lifecycle of one managed model role (gateway/src/dgx_moa/           *)
(* lifecycle.py): the record, leases and guards LifecycleStore keeps in    *)
(* SQLite, the coroutines of LifecycleCoordinator that move it (one load   *)
(* task, the idle scheduler, operator calls, the drain of a disabled       *)
(* role), the systemd unit they drive, and the requests that use the role. *)
(*                                                                         *)
(* A store method is one SQLite transaction, and code between two awaits   *)
(* runs alone, so an action is the code from one await to the next.  Lock  *)
(* is the role's asyncio.Lock; only an unload keeps it across an await.    *)
(*                                                                         *)
(* A transition_id is a fresh uuid and is only ever compared: instead of   *)
(* ids the model keeps `fresh`, the actors whose captured id is still the  *)
(* record's, and `sameUse`, those whose captured last_used_at is.          *)
(* Abstracted: progress, durations, memory figures and the idle policy's   *)
(* clock arithmetic (any moment without blockers may be the second idle    *)
(* check).                                                                 *)
(***************************************************************************)
EXTENDS RequestSlots, Naturals, FiniteSets

CONSTANTS Operators,     \* concurrent operator calls; one when serialised
          Observe,       \* lifecycle_mode is "observe", not fixed/adaptive
          IdleUnload,    \* the scheduler may unload the role
          GuardKinds,    \* which of "profile", "evaluation" are in use
          RemoteTurns,   \* requests that may be served remotely
          Faults,        \* driver calls, probes and the unit may fail
          Crashes,       \* the gateway may stop and start again
          Closes,        \* it may also be shut down in order, by close()
          MaxRetries,    \* MAX_LOAD_RETRIES
          FailureLimit   \* lifecycle_policy.failure_limit

ASSUME LifecycleAssumption ==
    /\ GuardKinds \subseteq {"profile", "evaluation"}
    /\ Operators \cap {"none", "boot", "sched", "drain"} = {}
    /\ {Observe, IdleUnload, Faults, Crashes, Closes} \subseteq BOOLEAN
    /\ RemoteTurns \subseteq Requests
    /\ MaxRetries \in Nat \ {0} /\ FailureLimit \in Nat \ {0}

VARIABLES
    state,          \* record.state
    fresh,          \* actors whose captured transition_id is the current one
    sameUse,        \* actors whose captured last_used_at is the current one
    retry,          \* record.retry_count
    leases,         \* requests with an active_request or open_stream lease
    continuations,  \* sessions with an unexpired continuation lease
    guards,         \* record.evaluation_guard and record.profile_guard
    desired,        \* desired_enabled
    failures,       \* lifecycle_automation.failure_count, saturated at the limit
    unit,           \* the systemd unit, as driver.status reports it
    gateway,        \* "down", the steps of start-up, "up", those of close()
    lock,           \* who keeps _locks[role] across an await
    pc,             \* where each unloading actor is
    queued,         \* actors whose policy_record is in unload_queued
    load,           \* where the load task is
    registered,     \* is the load task in _tasks
    cancelled,      \* was it cancelled
    req             \* where each request is

record  == <<state, fresh, sameUse, retry>>
holders == <<leases, continuations, guards>>
workers == <<lock, pc, queued>>
loader  == <<load, registered, cancelled>>
vars == <<record, holders, desired, failures, unit, gateway, workers, loader, req>>

LoadingStates == {"load_queued", "process_starting", "loading_weights",
                  "initializing_engine", "warming_up"}
States == LoadingStates \cup
          {"disabled", "cold", "ready", "unload_queued", "unloading", "failed"}

\* TRANSITIONS, as far as a target is asked for from more than one state.
MayFail    == States \ {"disabled", "cold", "failed"}
MayDisable == States \ {"disabled"}

Callers == Operators \cup {"boot"}            \* of set_enabled
Workers == Callers \cup {"sched", "drain"}    \* of _unload_role

WorkerSteps == {"idle", "wait_unload", "sampling", "admitted", "stopping",
                "sampling_after", "wait_cold", "cancelling", "off_stopping",
                "wait_off", "wait_queue", "wait_on", "wait_ensure", "polling"}
LoadSteps == {"none", "created", "cursor", "starting", "polling"}
RequestSteps == {"idle", "checked", "running", "streaming", "refused"}
Stopping == {"admitted", "stopping", "sampling_after"}

Latched == failures = FailureLimit            \* automation_disabled
Blocked == leases # {} \/ continuations # {} \/ guards # {}
LockFree == lock = "none"
Up == gateway = "up"
LoadTask == load # "none" /\ registered       \* _tasks.get(role), not done

-----------------------------------------------------------------------------

Init ==
    /\ state = "disabled" /\ fresh = {} /\ sameUse = {} /\ retry = 0
    /\ leases = {} /\ continuations = {} /\ guards = {}
    /\ desired \in BOOLEAN /\ failures = 0
    /\ unit \in {"inactive", "active"}
    /\ gateway = "down"
    /\ lock = "none" /\ pc = [a \in Workers |-> "idle"] /\ queued = {}
    /\ load = "none" /\ registered = FALSE /\ cancelled = FALSE
    /\ req = [r \in Requests |-> "idle"]

\* A transition: the new id is known to those who made it.
Becomes(s, knowers) == state' = s /\ fresh' = knowers

Stays == UNCHANGED <<state, fresh>>

Goto(a, step) == pc' = [pc EXCEPT ![a] = step]

\* The values an actor captured are gone when its call returns.
Forgets(A) == fresh' = fresh \ A /\ sameUse' = sameUse \ A /\ queued' = queued \ A

\* record_failure: older events may have left the window.
RecordFailure ==
    IF Latched THEN UNCHANGED failures ELSE failures' \in 1..(failures + 1)

\* recover_state resets retry_count, and looks at no transition_id.
Recover(s) ==
    /\ IF state = s THEN Stays ELSE Becomes(s, {})
    /\ retry' = IF s \in {"cold", "ready"} THEN 0 ELSE retry

(***************************************************************************)
(* _load, the one load task.                                               *)
(***************************************************************************)
\* ensure_ready, for a caller that finds the lock free.
StartsLoad ==
    /\ desired /\ state \in {"cold", "failed"} /\ ~LoadTask
    /\ ~Latched /\ retry < MaxRetries

EnsureReady ==
    /\ LockFree
    /\ IF StartsLoad
         THEN /\ Becomes("load_queued", {"load"})
              /\ load' = "created" /\ registered' = TRUE /\ cancelled' = FALSE
         ELSE /\ IF desired /\ state = "unload_queued" THEN Becomes("ready", {}) ELSE Stays
              /\ UNCHANGED loader
    /\ UNCHANGED <<sameUse, retry, holders, failures, unit, gateway, lock, queued>>

LoadEnds == load' = "none" /\ registered' = FALSE /\ cancelled' = FALSE

\* _fail moves whatever state it finds; an InvalidTransitionError is lost
\* with the task.
FailLoad ==
    /\ IF state \in MayFail
         THEN /\ Becomes("failed", {})
              /\ retry' = retry + 1
              /\ RecordFailure
         ELSE Stays /\ UNCHANGED <<retry, failures>>
    /\ LoadEnds

LoadFrame == UNCHANGED <<sameUse, holders, desired, gateway, workers, req>>

\* A task cancelled before its first step never enters the body of _load.
LoadNeverRuns ==
    /\ load = "created" /\ cancelled
    /\ Stays /\ LoadEnds
    /\ UNCHANGED <<retry, failures, unit>> /\ LoadFrame

LoadBegins ==
    /\ load = "created" /\ ~cancelled
    /\ IF "load" \in fresh
         THEN /\ Becomes("process_starting", {"load"}) /\ load' = "cursor"
              /\ UNCHANGED <<retry, failures, registered, cancelled>>
         ELSE FailLoad
    /\ UNCHANGED unit /\ LoadFrame

\* The journal cursor was captured; the latch is asked once more.
LoadCursor ==
    /\ load = "cursor"
    /\ \/ (Faults \/ cancelled) /\ FailLoad
       \/ ~cancelled /\ Latched /\ Recover("cold") /\ LoadEnds /\ UNCHANGED failures
       \/ ~cancelled /\ ~Latched /\ load' = "starting"
          /\ Stays /\ UNCHANGED <<retry, failures, registered, cancelled>>
    /\ UNCHANGED unit /\ LoadFrame

\* driver.start runs in a thread that a cancelled task waits for.
LoadStarted ==
    /\ load = "starting"
    /\ \/ /\ unit' = IF unit = "active" THEN "active" ELSE "activating"
          /\ IF cancelled THEN FailLoad
             ELSE load' = "polling" /\ Stays
                  /\ UNCHANGED <<retry, failures, registered, cancelled>>
       \/ Faults /\ unit' \in {unit, "activating", "failed"} /\ FailLoad
    /\ LoadFrame

\* One poll may pass several phases at once, but for the first.
LaterPhases(s) ==
    CASE s = "process_starting"    -> {"loading_weights"}
      [] s = "loading_weights"     -> {"initializing_engine", "warming_up", "ready"}
      [] s = "initializing_engine" -> {"warming_up", "ready"}
      [] OTHER                     -> {"ready"}

\* The polling loop moves on; "ready" needs a healthy unit.
LoadAdvances ==
    /\ load = "polling" /\ ~cancelled /\ unit \in {"active", "activating"}
    /\ IF "load" \in fresh
         THEN /\ \E s \in LaterPhases(state) :
                   IF s = "ready" THEN unit = "active" /\ Becomes(s, {}) /\ LoadEnds
                                  ELSE Becomes(s, {"load"}) /\ UNCHANGED loader
              /\ UNCHANGED <<retry, failures>>
         ELSE FailLoad
    /\ UNCHANGED unit /\ LoadFrame

\* Mutant: the polling loop swallows its cancellation.
LoadBreaksUncancelled ==
    /\ load = "polling"
    /\ Faults \/ unit \notin {"active", "activating"}
    /\ FailLoad
    /\ UNCHANGED unit /\ LoadFrame

\* The service went down, a probe failed, the load timed out or was cancelled.
LoadBreaks ==
    /\ load = "polling"
    /\ Faults \/ cancelled \/ unit \notin {"active", "activating"}
    /\ FailLoad
    /\ UNCHANGED unit /\ LoadFrame

LoadStep ==
    LoadNeverRuns \/ LoadBegins \/ LoadCursor \/ LoadStarted \/ LoadAdvances \/ LoadBreaks

(***************************************************************************)
(* _unload_role and _complete_unload, by the scheduler, by the drain task  *)
(* or by an operator; all but the scheduler pass disable=True.             *)
(***************************************************************************)
\* With the lock: the latch, then queue_unload unless the record the caller
\* read was queued already; `known`: it read the record in this very step.
QueueUnload(a, known, wasQueued) ==
    LET current == known \/ a \in fresh IN
    IF ~Latched /\ (wasQueued \/ (current /\ state = "ready"))
      THEN /\ lock' = a /\ Goto(a, "sampling")
           /\ IF wasQueued
                THEN /\ state' = state
                     /\ fresh' = IF current THEN fresh \cup {a} ELSE fresh
                ELSE Becomes("unload_queued", {a})
           /\ sameUse' = IF known THEN sameUse \cup {a} ELSE sameUse
           /\ queued' = queued \ {a}
      ELSE state' = state /\ Forgets({a}) /\ Goto(a, "idle") /\ UNCHANGED lock

\* The caller read the record and calls _unload_role: in one step when the
\* lock is free.
UnloadRole(a) ==
    /\ IF LockFree
         THEN QueueUnload(a, TRUE, state = "unload_queued")
         ELSE /\ fresh' = fresh \cup {a} /\ sameUse' = sameUse \cup {a}
              /\ queued' = IF state = "unload_queued" THEN queued \cup {a} ELSE queued
              /\ Goto(a, "wait_unload") /\ UNCHANGED <<state, lock>>
    /\ UNCHANGED retry

UnloadFrame == UNCHANGED <<holders, desired, gateway, loader, req>>

GetsLock(a) ==
    /\ pc[a] = "wait_unload" /\ LockFree
    /\ QueueUnload(a, FALSE, a \in queued)
    /\ UNCHANGED <<retry, failures, unit>> /\ UnloadFrame

UnloadReturns(a) ==
    /\ Goto(a, "idle") /\ lock' = "none"
    /\ sameUse' = sameUse \ {a} /\ UNCHANGED queued

FailUnload(a) ==
    /\ IF state \in MayFail
         THEN Becomes("failed", {}) /\ RecordFailure
         ELSE Becomes(state, fresh \ {a}) /\ UNCHANGED failures
    /\ UnloadReturns(a) /\ UNCHANGED retry

\* Mutant: the guards are not read again.
AdmissibleDespiteGuards(a) ==
    /\ state \in {"ready", "unload_queued"} /\ a \in fresh /\ a \in sameUse
    /\ leases = {} /\ continuations = {}

\* admit_unload, one transaction after the memory sample: everything that was
\* true when the unload was decided must be true still.
Admissible(a) ==
    /\ state \in {"ready", "unload_queued"}
    /\ a \in fresh /\ a \in sameUse
    /\ ~Blocked

AdmitUnload(a) ==
    /\ pc[a] = "sampling"
    /\ IF Admissible(a)
         THEN /\ Becomes("unloading", {a}) /\ Goto(a, "admitted")
              /\ sameUse' = sameUse \ {a} /\ UNCHANGED <<lock, queued>>
         ELSE /\ IF state = "unload_queued" /\ a = "sched"
                   THEN Becomes("ready", {}) ELSE Becomes(state, fresh \ {a})
              /\ UnloadReturns(a)
    /\ UNCHANGED <<retry, failures, unit>> /\ UnloadFrame

SampleFails(a) ==
    /\ Faults /\ pc[a] \in {"sampling", "sampling_after"}
    /\ FailUnload(a) /\ UNCHANGED unit /\ UnloadFrame

\* Mutant: the latch is not asked again before the stop.
BeginStopAnyway(a) ==
    /\ pc[a] = "admitted"
    /\ Stays /\ Goto(a, "stopping")
    /\ UNCHANGED <<retry, lock, queued, sameUse, failures, unit>> /\ UnloadFrame

BeginStop(a) ==
    /\ pc[a] = "admitted"
    /\ IF Latched
         THEN Recover("ready") /\ UnloadReturns(a)
         ELSE Stays /\ Goto(a, "stopping") /\ UNCHANGED <<sameUse, retry, lock, queued>>
    /\ UNCHANGED <<failures, unit>> /\ UnloadFrame

\* driver.stop and the status read after it.
Stopped(a) ==
    /\ pc[a] = "stopping"
    /\ \/ /\ unit' = "inactive" /\ Stays /\ Goto(a, "sampling_after")
          /\ UNCHANGED <<sameUse, retry, failures, lock, queued>>
       \/ Faults /\ unit' \in {unit, "failed"} /\ FailUnload(a)
    /\ UnloadFrame

CompleteUnload(a) ==
    /\ pc[a] = "sampling_after"
    /\ IF a \in fresh /\ state = "unloading"
         THEN /\ Becomes(IF a = "sched" THEN "cold" ELSE "disabled", {})
              /\ UnloadReturns(a) /\ UNCHANGED <<retry, failures>>
         ELSE FailUnload(a)
    /\ UNCHANGED unit /\ UnloadFrame

\* run_scheduler_check, second check of an idle role.
SchedulerUnloads ==
    /\ Up /\ IdleUnload /\ ~Observe /\ pc["sched"] = "idle"
    /\ state = "ready" /\ ~Blocked
    /\ UnloadRole("sched")
    /\ UNCHANGED <<failures, unit>> /\ UnloadFrame

\* _drain_disabled_role polls the blockers of a role that was switched off.
DrainPolls ==
    /\ pc["drain"] = "polling" /\ ~Blocked
    /\ IF desired THEN Goto("drain", "idle") /\ UNCHANGED <<record, lock, queued>>
                  ELSE UnloadRole("drain")
    /\ UNCHANGED <<failures, unit>> /\ UnloadFrame

UnloadStep(a) ==
    \/ GetsLock(a) \/ AdmitUnload(a) \/ SampleFails(a)
    \/ BeginStop(a) \/ Stopped(a) \/ CompleteUnload(a)

(***************************************************************************)
(* set_enabled(role, False): what it does depends on the state it reads.   *)
(***************************************************************************)
StartDrain(a, step) ==   \* one drain: a second one takes two operators
    pc' = [pc EXCEPT ![a] = step, !["drain"] = IF @ = "idle" THEN "polling" ELSE @]

\* Mutant: the cancelled load is not waited for.
AbortWithoutWaiting(a) ==
    /\ Goto(a, "off_stopping") /\ registered' = FALSE /\ cancelled' = LoadTask
    /\ UNCHANGED <<record, lock, queued, load>>

\* A load is cancelled and waited for, then the unit is stopped; the role's
\* lock is not taken for that.
AbortAndStop(a) ==
    /\ IF LoadTask
         THEN Goto(a, "cancelling") /\ registered' = FALSE /\ cancelled' = TRUE
         ELSE Goto(a, "off_stopping") /\ UNCHANGED <<registered, cancelled>>
    /\ UNCHANGED <<record, lock, queued, load>>

QueueForDrain(a) ==
    IF LockFree
      THEN /\ IF state = "ready" THEN Becomes("unload_queued", {}) ELSE Stays
           /\ StartDrain(a, "idle") /\ UNCHANGED <<lock, queued, sameUse, retry>>
      ELSE Goto(a, "wait_queue") /\ UNCHANGED <<record, lock, queued>>

DisableCold(a) ==
    IF LockFree
      THEN /\ IF state = "cold" THEN Becomes("disabled", {}) ELSE Stays
           /\ Goto(a, "idle") /\ UNCHANGED <<lock, queued, sameUse, retry>>
      ELSE Goto(a, "wait_cold") /\ UNCHANGED <<record, lock, queued>>

\* Mutant: a ready role is stopped at once, like one that loads.
SetDisabledAtOnce(a) ==
    /\ CASE state = "disabled" -> UNCHANGED <<record, workers, loader>>
         [] state = "cold"     -> DisableCold(a) /\ UNCHANGED loader
         [] OTHER -> AbortAndStop(a)
    /\ UNCHANGED <<holders, failures, unit, req>>

SetDisabled(a) ==
    /\ CASE state = "disabled" -> UNCHANGED <<record, workers, loader>>
         [] state = "cold"     -> DisableCold(a) /\ UNCHANGED loader
         [] state \in {"ready", "unload_queued"} /\ ~Blocked ->
              UnloadRole(a) /\ UNCHANGED loader
         [] state = "unload_queued" /\ Blocked ->
              StartDrain(a, "idle") /\ UNCHANGED <<record, lock, queued, loader>>
         [] state = "ready" /\ Blocked -> QueueForDrain(a) /\ UNCHANGED loader
         [] OTHER -> AbortAndStop(a)
    /\ UNCHANGED <<holders, failures, unit, req>>

SwitchOff(o) ==
    /\ Up /\ ~Observe /\ pc[o] = "idle"
    /\ desired' = FALSE
    /\ SetDisabled(o)
    /\ UNCHANGED gateway

OffFrame == UNCHANGED <<holders, desired, failures, gateway, req>>

OffWaits(a) ==
    /\ LockFree
    /\ \/ pc[a] = "wait_cold" /\ DisableCold(a)
       \/ pc[a] = "wait_queue" /\ QueueForDrain(a)
    /\ UNCHANGED <<unit, loader>> /\ OffFrame

OffLoadCancelled(a) ==
    /\ pc[a] = "cancelling" /\ load = "none"
    /\ Goto(a, "off_stopping")
    /\ UNCHANGED <<record, lock, queued, unit, loader>> /\ OffFrame

\* An error of the driver leaves set_enabled with the role as it is.
OffStopped(a) ==
    /\ pc[a] = "off_stopping"
    /\ \/ unit' = "inactive" /\ Goto(a, "wait_off")
       \/ Faults /\ unit' \in {unit, "failed"} /\ Goto(a, "idle")
    /\ UNCHANGED <<record, lock, queued, loader>> /\ OffFrame

OffDisables(a) ==
    /\ pc[a] = "wait_off" /\ LockFree
    /\ IF state \in MayDisable THEN Becomes("disabled", {}) ELSE Stays
    /\ Goto(a, "idle")
    /\ UNCHANGED <<sameUse, retry, lock, queued, unit, loader>> /\ OffFrame

OffStep(a) == OffWaits(a) \/ OffLoadCancelled(a) \/ OffStopped(a) \/ OffDisables(a)

(***************************************************************************)
(* set_enabled(role, True).                                                *)
(***************************************************************************)
\* A drain task is cancelled, unless it already owns the stop.
CancelDrain(a, step) ==
    IF pc["drain"] \in Stopping
      THEN Goto(a, step) /\ UNCHANGED <<lock, fresh, sameUse, queued>>
      ELSE /\ pc' = [pc EXCEPT ![a] = step, !["drain"] = "idle"]
           /\ lock' = IF lock = "drain" THEN "none" ELSE lock
           /\ Forgets({"drain"})

SwitchOn(o) ==
    /\ Up /\ ~Observe /\ pc[o] = "idle"
    /\ desired' = TRUE
    /\ CancelDrain(o, "wait_on")
    /\ UNCHANGED <<state, retry, holders, failures, unit, gateway, loader, req>>

OnReopens(o) ==
    /\ pc[o] = "wait_on" /\ LockFree
    /\ CASE state = "unload_queued" -> Becomes("ready", {})
         [] state = "disabled"      -> Becomes("cold", {})
         [] OTHER                   -> Stays
    /\ Goto(o, "wait_ensure")
    /\ UNCHANGED <<sameUse, retry, lock, queued, unit, loader>> /\ OffFrame

OnEnsures(o) ==
    /\ pc[o] = "wait_ensure"
    /\ EnsureReady
    /\ Goto(o, "idle")
    /\ UNCHANGED <<desired, req>>

(***************************************************************************)
(* Requests.  Their leases are taken under the role's lock and, where the  *)
(* lifecycle is managed, only of a ready role; they are given back without *)
(* the lock.                                                               *)
(***************************************************************************)
To(r, step) == req' = [req EXCEPT ![r] = step]

RequestFrame == UNCHANGED <<retry, guards, desired, failures, unit, gateway, workers, loader>>

\* 503 model_loading unless the role is ready.
CheckRole(r) ==
    /\ Up /\ ~Observe /\ req[r] = "idle"
    /\ EnsureReady
    /\ To(r, IF state' = "ready" THEN "checked" ELSE "idle")
    /\ UNCHANGED <<desired, pc>>

AcquireLease(r) ==
    /\ Up /\ LockFree
    /\ req[r] = IF Observe THEN "idle" ELSE "checked"
    /\ IF state = "ready" \/ Observe
         THEN leases' = leases \cup {r} /\ To(r, "running")
         ELSE To(r, "idle") /\ UNCHANGED leases
    /\ UNCHANGED <<state, fresh, sameUse, continuations>> /\ RequestFrame

\* The last lease that is given back dates last_used_at.
ReleaseLease(r) ==
    /\ leases' = leases \ {r}
    /\ sameUse' = IF leases = {r} THEN {} ELSE sameUse

\* The streamed answer takes a lease of its own, by the same rule; when it is
\* refused the turn fails and gives its first lease back.
OpenStream(r) ==
    /\ req[r] = "running" /\ LockFree
    /\ IF state = "ready" \/ Observe
         THEN To(r, "streaming") /\ UNCHANGED <<leases, sameUse>>
         ELSE To(r, "refused") /\ ReleaseLease(r)
    /\ UNCHANGED <<state, fresh, continuations>> /\ RequestFrame

\* The answer ended with tool calls, of a local or of a remote model: its session
\* keeps the Executor.
RefreshContinuation(r) ==
    /\ r \notin continuations
    /\ req[r] \in {"running", "streaming"} \/ (r \in RemoteTurns /\ Up /\ req[r] = "idle")
    /\ continuations' = continuations \cup {r}
    /\ UNCHANGED <<state, fresh, sameUse, leases, req>> /\ RequestFrame

Finish(r) ==
    /\ req[r] \in {"running", "streaming"}
    /\ ReleaseLease(r) /\ To(r, "idle")
    /\ UNCHANGED <<state, fresh, continuations>> /\ RequestFrame

Renew(r) ==
    /\ req[r] \in {"refused", "checked"}
    /\ To(r, "idle")
    /\ UNCHANGED <<state, fresh, sameUse, leases, continuations>> /\ RequestFrame

\* It expires, or the tool result arrives (release_continuation).
ContinuationEnds(r) ==
    /\ r \in continuations
    /\ continuations' = continuations \ {r}
    /\ UNCHANGED <<state, fresh, sameUse, leases, req>> /\ RequestFrame

(***************************************************************************)
(* Guards: a profile switch claims under the lock, a review does not; both *)
(* release only the record they claimed.                                   *)
(***************************************************************************)
ClaimGuard(g) ==
    /\ Up /\ g \notin guards /\ (g = "profile" => LockFree)
    /\ guards' = guards \cup {g} /\ fresh' = fresh \cup {g}
    /\ UNCHANGED <<state, sameUse, retry, leases, continuations, desired, failures,
                   unit, gateway, workers, loader, req>>

ReleaseGuard(g) ==
    /\ Up /\ g \in guards /\ g \in fresh /\ (g = "profile" => LockFree)
    /\ guards' = guards \ {g} /\ fresh' = fresh \ {g}
    /\ UNCHANGED <<state, sameUse, retry, leases, continuations, desired, failures,
                   unit, gateway, workers, loader, req>>

(***************************************************************************)
(* The process and its surroundings.                                       *)
(***************************************************************************)
\* Coroutines and the memory of the process go; the database and the unit,
\* with a start or stop that systemd was given already, stay.  An exception
\* during start-up ends the process as well.
Crash ==
    /\ Crashes /\ gateway # "down"
    /\ gateway' = "down"
    /\ unit' \in {unit}
         \cup (IF \E a \in Workers : pc[a] \in {"stopping", "off_stopping"}
                 THEN {"inactive"} ELSE {})
         \cup (IF load = "starting" THEN {"activating"} ELSE {})
    /\ fresh' = {} /\ sameUse' = {}
    /\ lock' = "none" /\ pc' = [a \in Workers |-> "idle"] /\ queued' = {}
    /\ LoadEnds
    /\ req' = [r \in Requests |-> "idle"]
    /\ UNCHANGED <<state, retry, holders, desired, failures>>

\* Start-up: recover_leases, then reconcile_managed, then the roles that are
\* switched off, then service.
RecoverLeases ==
    /\ gateway = "down"
    /\ gateway' = "recovered" /\ leases' = {}
    /\ UNCHANGED <<record, continuations, guards, desired, failures, unit, workers,
                   loader, req>>

\* Mutant: a role that was loading is left to its load, which is gone.
ReconcileUnlessLoading ==
    /\ gateway = "recovered"
    /\ \/ state \in LoadingStates /\ Stays /\ UNCHANGED retry
       \/ state \notin LoadingStates /\ unit = "inactive" /\ Recover("cold")
       \/ state \notin LoadingStates /\ unit = "active" /\ Recover("ready")
       \/ unit = "activating" /\ Recover("failed")
    /\ gateway' = "reconciled"
    /\ UNCHANGED <<sameUse, holders, desired, failures, unit, workers, loader, req>>

ReconcileManaged ==
    /\ gateway = "recovered"
    /\ \/ unit = "inactive" /\ Recover("cold")
       \/ unit = "active" /\ Recover("ready")
       \/ (Faults \/ unit \in {"failed", "activating"}) /\ Recover("failed")
    /\ gateway' = "reconciled"
    /\ UNCHANGED <<sameUse, holders, desired, failures, unit, workers, loader, req>>

StartUpDisables ==
    /\ gateway = "reconciled" /\ ~desired
    /\ SetDisabled("boot")
    /\ gateway' = "disabling"
    /\ UNCHANGED desired

StartUpEnds ==
    /\ \/ gateway = "reconciled" /\ desired
       \/ gateway = "disabling" /\ pc["boot"] = "idle"
    /\ gateway' = "up"
    /\ UNCHANGED <<record, holders, desired, failures, unit, workers, loader, req>>

StartUp == RecoverLeases \/ ReconcileManaged \/ StartUpDisables \/ StartUpEnds

(***************************************************************************)
(* close(), when the server has ended its requests: the scheduler, drains, *)
(* loads, each cancelled and then waited for.  A stop that has begun is    *)
(* shielded from the cancellation.                                         *)
(***************************************************************************)
CancelWorker(a) ==
    IF pc[a] \in Stopping
      THEN UNCHANGED <<pc, lock, fresh, sameUse, queued>>
      ELSE /\ Goto(a, "idle") /\ lock' = IF lock = a THEN "none" ELSE lock
           /\ Forgets({a})

CloseFrame == UNCHANGED <<state, retry, holders, desired, failures, unit, req>>

CloseBegins ==
    /\ Closes /\ Up
    /\ \A r \in Requests : req[r] = "idle"
    /\ \A o \in Operators : pc[o] = "idle"
    /\ gateway' = "closing" /\ CancelWorker("sched")
    /\ UNCHANGED loader /\ CloseFrame

\* Mutant: the scheduler is cancelled and not waited for.
CloseDrainsAtOnce ==
    /\ gateway = "closing"
    /\ gateway' = "draining" /\ CancelWorker("drain")
    /\ UNCHANGED loader /\ CloseFrame

CloseDrains ==
    /\ gateway = "closing" /\ pc["sched"] = "idle"
    /\ gateway' = "draining" /\ CancelWorker("drain")
    /\ UNCHANGED loader /\ CloseFrame

CloseLoads ==
    /\ gateway = "draining" /\ pc["drain"] = "idle"
    /\ gateway' = "unloading" /\ cancelled' = (cancelled \/ LoadTask)
    /\ UNCHANGED <<fresh, sameUse, workers, load, registered>> /\ CloseFrame

CloseEnds ==
    /\ gateway = "unloading" /\ load = "none"
    /\ gateway' = "closed"
    /\ UNCHANGED <<fresh, sameUse, workers, loader>> /\ CloseFrame

Close == CloseBegins \/ CloseDrains \/ CloseLoads \/ CloseEnds

Surroundings == UNCHANGED <<record, holders, desired, gateway, workers, loader, req>>

UnitStarts == unit = "activating" /\ unit' = "active" /\ UNCHANGED failures /\ Surroundings

UnitFails ==
    /\ Faults /\ unit \in {"activating", "active"}
    /\ unit' \in {"inactive", "failed"}
    /\ UNCHANGED failures /\ Surroundings

\* scripts/switch-profile.sh starts and stops the units itself.
ProfileScript ==
    /\ "profile" \in guards
    /\ unit' \in {"inactive", "active"}
    /\ UNCHANGED failures /\ Surroundings

\* Another role's failure counts too; the rollback command resets the count.
OtherRoleFails == Faults /\ RecordFailure /\ UNCHANGED unit /\ Surroundings
ResetAutomation == failures' = 0 /\ UNCHANGED unit /\ Surroundings

OperatorStep(o) == SwitchOff(o) \/ SwitchOn(o) \/ OnReopens(o) \/ OnEnsures(o)

RequestStep(r) ==
    \/ CheckRole(r) \/ AcquireLease(r) \/ OpenStream(r) \/ RefreshContinuation(r)
    \/ Finish(r) \/ Renew(r) \/ ContinuationEnds(r)

Next ==
    \/ \E r \in Requests : RequestStep(r)
    \/ \E o \in Operators : OperatorStep(o)
    \/ \E a \in Workers : UnloadStep(a)
    \/ \E a \in Callers : OffStep(a)
    \/ \E g \in GuardKinds : ClaimGuard(g) \/ ReleaseGuard(g)
    \/ LoadStep \/ SchedulerUnloads \/ DrainPolls
    \/ Crash \/ StartUp \/ Close \/ UnitStarts \/ UnitFails \/ ProfileScript
    \/ OtherRoleFails \/ ResetAutomation

Spec == Init /\ [][Next]_vars

(***************************************************************************)
(* Coroutines run, driver calls and probes return (they have time limits), *)
(* requests and reviews end, continuations expire, a unit that starts      *)
(* becomes active.  Nothing is assumed of requests, operators, failures or *)
(* the idle scheduler.                                                     *)
(***************************************************************************)
Fairness ==
    /\ WF_vars(LoadStep) /\ WF_vars(DrainPolls) /\ WF_vars(StartUp) /\ WF_vars(UnitStarts)
    /\ \A a \in Workers : WF_vars(UnloadStep(a))
    /\ \A a \in Callers : WF_vars(OffStep(a))
    /\ \A o \in Operators : WF_vars(OnReopens(o)) /\ WF_vars(OnEnsures(o))
    /\ \A r \in Requests : WF_vars(Finish(r)) /\ WF_vars(ContinuationEnds(r))
    /\ \A g \in GuardKinds : WF_vars(ReleaseGuard(g))

FairSpec == Spec /\ Fairness

-----------------------------------------------------------------------------
(***************************************************************************)
(* Properties.                                                             *)
(***************************************************************************)

\* Every variable has its type, and no load starts after MAX_LOAD_RETRIES.
TypeOK ==
    /\ state \in States /\ retry \in 0..MaxRetries
    /\ fresh \subseteq Workers \cup GuardKinds \cup {"load"}
    /\ sameUse \subseteq Workers /\ queued \subseteq Workers
    /\ leases \subseteq Requests /\ continuations \subseteq Requests
    /\ guards \subseteq GuardKinds
    /\ desired \in BOOLEAN /\ failures \in 0..FailureLimit
    /\ unit \in {"inactive", "activating", "active", "failed"}
    /\ gateway \in {"down", "recovered", "reconciled", "disabling", "up",
                   "closing", "draining", "unloading", "closed"}
    /\ lock \in Workers \cup {"none"} /\ pc \in [Workers -> WorkerSteps]
    /\ load \in LoadSteps /\ registered \in BOOLEAN /\ cancelled \in BOOLEAN
    /\ req \in [Requests -> RequestSteps]

\* The acquire-versus-unload race: an admitted unload never stops a role that
\* holds a lease, whoever asked for it and whenever it was decided.
UnloadsOnlyUnused ==
    \A a \in Workers : pc[a] \in Stopping => leases = {}

\* The same for every driver.stop, the one of an operator's OFF included that
\* aborts a load and takes no lock.
StopsOnlyUnused ==
    \A a \in Workers :
        pc[a] \in Stopping \cup {"off_stopping"} => leases = {}

\* A request that holds a lease keeps a role that serves it: the record does
\* not leave ready but for the queue of a drain.
LeasedRoleServes ==
    (Up /\ ~Observe /\ leases # {}) => state \in {"ready", "unload_queued"}

\* An admitted unload and a profile switch exclude each other.
SwitchExcludesUnload ==
    ("profile" \in guards /\ Up) => \A a \in Workers : pc[a] \notin Stopping

\* An admitted unload neither stops a role in use nor races a profile switch,
\* however long ago it was decided and sampled (lifecycle.py:1939-1974).
UnloadsAreSafe == TypeOK /\ UnloadsOnlyUnused /\ SwitchExcludesUnload

\* When the record says disabled nothing runs, and nothing is about to start.
\* (Violated with faults: an OFF of a cold record does not ask the driver,
\* lifecycle.py:2188.)
DisabledMeansStopped ==
    (state = "disabled" /\ gateway \notin {"down", "recovered"}) =>
        unit \notin {"active", "activating"} /\ load # "starting"

\* "One single-flight load owns the role" while the record says it loads.
LoadingHasOwner ==
    (Up /\ state \in LoadingStates) =>
        \/ load # "none"
        \/ \E a \in Callers : pc[a] \in {"cancelling", "off_stopping", "wait_off"}

\* No second load can start beside one that is still alive.
SingleFlight == StartsLoad => load = "none"

\* After close() no task, thread or lock of the lifecycle is left, and no record
\* says that one is at work.
ClosedIsQuiet ==
    gateway = "closed" =>
        /\ LockFree /\ load = "none" /\ \A a \in Workers : pc[a] = "idle"
        /\ state \notin {"unloading"} \cup (LoadingStates \ {"load_queued"})

\* A load has one task, which nobody starts beside another that is still alive
\* (lifecycle.py:2206), and close() leaves no work behind (lifecycle.py:2424).
WorkIsOwned == SingleFlight /\ ClosedIsQuiet

\* A role the operator switched off is not loaded again behind his back.
OffIsKept ==
    [][~desired /\ state' = "load_queued" => state = "load_queued"]_vars

\* After the latch no start and no idle unload begins.
LatchStopsAutomation ==
    [][Latched => /\ load' = "starting" => load = "starting"
                  /\ \A a \in Workers : pc'[a] = "stopping" => pc[a] = "stopping"]_vars

\* The automation obeys the operator's switch and the failure latch, which both
\* may change between its decision and its act.
AutomationObeys == OffIsKept /\ LatchStopsAutomation

\* In observe mode nothing starts or stops a unit.  (Violated: start-up calls
\* set_enabled(role, False) in observe mode too, api.py:986.)
ObserveNeverStops ==
    Observe => \A a \in Workers : pc[a] \notin {"stopping", "off_stopping"}

\* Somebody still works on an OFF that queued the unload.  (Violated: an unload
\* whose admission is refused is not tried again, lifecycle.py:1946.)
QueuedOffHasOwner ==
    (Up /\ state = "unload_queued" /\ ~desired) => \E a \in Workers : pc[a] # "idle"

=============================================================================
