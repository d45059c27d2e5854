--------------------------- MODULE ExecutorControl ---------------------------
(***************************************************************************)
(* The managed Executor as the gateway runs it (gateway/src/dgx_moa/       *)
(* api.py): chat turns are pinned by the ExecutorScheduler first and take  *)
(* their leases in the Lifecycle of the role afterwards, and the           *)
(* operator's ON and OFF close the scheduler, wait for its pins and then   *)
(* move the role.                                                          *)
(*                                                                         *)
(* The state and the steps are those of Lifecycle and ExecutorScheduler,   *)
(* both extended; they share the requests.  Here are the handlers that     *)
(* call both, and set_executor_enabled with drain_after_pins, its          *)
(* background task.  executor_admission_lock is held by one ON or OFF from *)
(* begin to end, and by a turn while it takes its first lease: an operator *)
(* call is one Operator at a time, and turns take leases between calls.    *)
(* Abstracted: roles other than the Executor, and what a remote turn does. *)
(***************************************************************************)
EXTENDS Lifecycle, ExecutorScheduler

CONSTANTS Console,       \* the operator's calls
          PinDrain,      \* the task drain_after_pins
          Disconnects    \* a client may go while its turn is being admitted

ASSUME ControlAssumption ==
    /\ Operators = {Console, PinDrain} /\ Console # PinDrain
    /\ Disconnects \in BOOLEAN /\ ~Observe

VARIABLES manualDrain,   \* app.state.executor_manual_drain: its progress
          joining,       \* ON waits for the cancelled drain_after_pins
          strayStop      \* driver.stop goes on in a thread nobody waits for; systemd
                   \* gets it before any later start, which replaces it

controlVars == <<manualDrain, joining, strayStop>>
allVars     == <<vars, schedulerVars, controlVars>>

NoPins == owners = {} /\ DOMAIN queues = {}    \* as snapshot() shows them
AdmissionFree == pc[Console] = "idle" /\ ~joining

-----------------------------------------------------------------------------

ControlInit ==
    /\ Init /\ SchedulerInit
    /\ manualDrain = "none" /\ joining = FALSE /\ strayStop = FALSE

(***************************************************************************)
(* A chat turn.                                                            *)
(***************************************************************************)
\* ensure_ready; a turn that may overflow goes on without a ready Executor.
CheckExecutor(r) ==
    /\ caller[r] = "idle"
    /\ \/ CheckRole(r) /\ UNCHANGED schedulerVars
       \/ /\ Up /\ req[r] = "idle" /\ r \in RemoteTurns /\ EnsureReady /\ state' # "ready"
          /\ Acquire(r, FALSE, TRUE, FALSE)
          /\ UNCHANGED <<desired, pc, req>>
    /\ UNCHANGED controlVars

\* scheduler.acquire; a role that is switched off counts as unavailable for a
\* turn that may overflow.
Admit(r) ==
    /\ req[r] = "checked"
    /\ \E high, flash \in BOOLEAN :
         (flash => r \in RemoteTurns) /\ Acquire(r, high, flash, desired \/ ~flash)
    /\ UNCHANGED <<vars, controlVars>>

AdmissionGoesOn(r) ==
    /\ NotifyQueued(r) \/ Resume(r) \/ GiveUp(r)
    /\ UNCHANGED <<vars, controlVars>>

\* Refused with LifecycleNotReadyError, the turn is finalized.
TakeLease(r) ==
    /\ caller[r] = "local" /\ req[r] = "checked" /\ AdmissionFree
    /\ AcquireLease(r)
    /\ IF req'[r] = "running" THEN UNCHANGED schedulerVars ELSE Finalize(r)
    /\ UNCHANGED controlVars

TakeStreamLease(r) ==
    /\ OpenStream(r)
    /\ IF req'[r] = "streaming" THEN UNCHANGED schedulerVars ELSE Finalize(r)
    /\ UNCHANGED controlVars

\* An answer that ends with tool calls keeps the Executor for its session, a
\* remote turn's as well as a local one's.
KeepExecutor(r) ==
    /\ req[r] \in {"running", "streaming"} \/ caller[r] \in {"remote", "detached"}
    /\ RefreshContinuation(r)
    /\ UNCHANGED <<schedulerVars, controlVars>>

FinishLocal(r) == Finish(r) /\ Finalize(r) /\ UNCHANGED controlVars

\* Mutant: only the pin is given back, the leases stay.
FallBackKeepingLeases(r) ==
    /\ req[r] \in {"running", "streaming"}
    /\ Detach(r) /\ To(r, "idle")
    /\ UNCHANGED <<record, holders, desired, failures, unit, gateway, workers, loader>>
    /\ UNCHANGED controlVars

\* The local server answers 400: leases and pin are given back and the turn
\* goes on remotely.
FallBack(r) == r \in RemoteTurns /\ Finish(r) /\ Detach(r) /\ UNCHANGED controlVars

\* The end of a turn that goes on remotely, was refused or gave up.
EndElsewhere(r) ==
    /\ caller[r] \in {"remote", "detached", "failed"}
    /\ Finalize(r) \/ NextTurn(r)
    /\ To(r, "idle")
    /\ UNCHANGED <<record, holders, desired, failures, unit, gateway, workers, loader>>
    /\ UNCHANGED controlVars

\* A turn that never had a pin: its stream was refused, or it stops early.
GoAway(r) ==
    /\ caller[r] = "idle" /\ Renew(r)
    /\ UNCHANGED <<schedulerVars, controlVars>>

\* cancel_on_disconnect cancels a turn that was pinned and waits for a lock,
\* before the try block that would finalize it.
Disconnected(r) ==
    /\ Disconnects /\ caller[r] = "local" /\ req[r] = "checked"
    /\ ~AdmissionFree \/ ~LockFree
    /\ caller' = [caller EXCEPT ![r] = "lost"] /\ To(r, "idle")
    /\ UNCHANGED <<owners, queues, roundRobin, pins, localEnabled>>
    /\ UNCHANGED <<record, holders, desired, failures, unit, gateway, workers, loader>>
    /\ UNCHANGED controlVars

TurnStep(r) ==
    \/ CheckExecutor(r) \/ Admit(r) \/ AdmissionGoesOn(r) \/ TakeLease(r)
    \/ TakeStreamLease(r) \/ KeepExecutor(r) \/ FinishLocal(r) \/ FallBack(r)
    \/ EndElsewhere(r) \/ GoAway(r) \/ Disconnected(r)

(***************************************************************************)
(* set_executor_enabled(False).                                            *)
(***************************************************************************)
\* Mutant: nobody waits for the pins.
QueueBehindPinsOnly ==
    /\ IF state = "ready" THEN Becomes("unload_queued", {}) ELSE Stays
    /\ UNCHANGED <<sameUse, retry, holders, failures, unit, workers, loader, req, manualDrain>>

\* With pins the unload is queued at once, without the role's lock, and a
\* background task waits for the pins.
QueueBehindPins ==
    /\ IF state = "ready" THEN Becomes("unload_queued", {}) ELSE Stays
    /\ manualDrain' = IF manualDrain = "none" THEN "polling" ELSE manualDrain
    /\ UNCHANGED <<sameUse, retry, holders, failures, unit, workers, loader, req>>

ExecutorOff ==
    /\ Up /\ AdmissionFree
    /\ SetLocalEnabled(FALSE)
    /\ desired' = FALSE
    /\ IF NoPins THEN SetDisabled(Console) /\ UNCHANGED manualDrain
                 ELSE QueueBehindPins
    /\ UNCHANGED <<gateway, joining, strayStop>>

\* drain_after_pins finds the pins gone.
PinsDrained ==
    /\ manualDrain = "polling" /\ NoPins
    /\ SwitchOff(PinDrain)
    /\ manualDrain' = "disabling"
    /\ UNCHANGED <<schedulerVars, joining, strayStop>>

PinDrainEnds ==
    /\ manualDrain = "disabling" /\ pc[PinDrain] = "idle" /\ ~joining
    /\ manualDrain' = "none"
    /\ UNCHANGED <<vars, schedulerVars, joining, strayStop>>

(***************************************************************************)
(* set_executor_enabled(True): drain_after_pins is cancelled and joined.   *)
(***************************************************************************)
\* A stop it owns runs to its end, and the await of a cancelled load swallows
\* the cancellation; anything else stops where it is.  The thread in which an
\* aborted driver.stop runs does not.
CancelPinDrain ==
    LET at       == pc[PinDrain]
        survives == at \in Stopping \cup {"cancelling"}
    IN  /\ IF survives
             THEN UNCHANGED <<pc, lock, fresh, sameUse, queued>>
             ELSE /\ Goto(PinDrain, "idle") /\ Forgets({PinDrain})
                  /\ lock' = IF lock = PinDrain THEN "none" ELSE lock
        /\ strayStop' = (strayStop \/ at = "off_stopping")

ExecutorOn ==
    /\ Up /\ AdmissionFree
    /\ SetLocalEnabled(TRUE)
    /\ CancelPinDrain
    /\ joining' = TRUE
    /\ manualDrain' = IF manualDrain = "polling" THEN "none" ELSE manualDrain
    /\ UNCHANGED <<state, retry, holders, desired, failures, unit, gateway, loader, req>>

ExecutorOnJoined ==
    /\ joining /\ pc[PinDrain] = "idle"
    /\ SwitchOn(Console)
    /\ joining' = FALSE /\ manualDrain' = "none"
    /\ UNCHANGED <<schedulerVars, strayStop>>

StrayStop ==
    /\ strayStop /\ strayStop' = FALSE
    /\ unit' = "inactive"
    /\ UNCHANGED failures /\ Surroundings
    /\ UNCHANGED <<schedulerVars, manualDrain, joining>>

OperatorActs ==
    ExecutorOff \/ PinsDrained \/ PinDrainEnds \/ ExecutorOn \/ ExecutorOnJoined

(***************************************************************************)
(* The steps of the Lifecycle that touch nothing else, and a restart: the  *)
(* pins, the queues and local_enabled are memory only.                     *)
(***************************************************************************)
InLifecycle(A) ==
    /\ A
    /\ strayStop' = (strayStop /\ (load = "starting" => load' = "starting"))
    /\ UNCHANGED <<schedulerVars, manualDrain, joining>>

LifecycleStep ==
    \/ \E a \in Workers : InLifecycle(UnloadStep(a))
    \/ \E a \in Callers : InLifecycle(OffStep(a))
    \/ InLifecycle(OnReopens(Console) \/ OnEnsures(Console))
    \/ InLifecycle(LoadStep) \/ InLifecycle(SchedulerUnloads) \/ InLifecycle(DrainPolls)
    \/ \E r \in Requests : InLifecycle(ContinuationEnds(r))
    \/ InLifecycle(StartUp \/ UnitStarts \/ UnitFails \/ ResetAutomation)

Restart ==
    /\ Crash
    /\ owners' = {} /\ queues' = [k \in {} |-> <<>>] /\ roundRobin' = <<>>
    /\ pins' = [r \in Requests |-> "none"] /\ localEnabled' = TRUE
    /\ caller' = [r \in Requests |-> "idle"]
    /\ manualDrain' = "none" /\ joining' = FALSE /\ strayStop' = FALSE

ControlNext ==
    \/ \E r \in Requests : TurnStep(r)
    \/ OperatorActs \/ StrayStop \/ LifecycleStep \/ Restart

ControlSpec == ControlInit /\ [][ControlNext]_allVars

(***************************************************************************)
(* Coroutines run, turns end, the unit starts, background tasks poll.      *)
(***************************************************************************)
ControlFairness ==
    /\ WF_allVars(InLifecycle(LoadStep)) /\ WF_allVars(InLifecycle(DrainPolls))
    /\ WF_allVars(InLifecycle(StartUp \/ UnitStarts))
    /\ \A a \in Workers : WF_allVars(InLifecycle(UnloadStep(a)))
    /\ \A a \in Callers : WF_allVars(InLifecycle(OffStep(a)))
    /\ WF_allVars(InLifecycle(OnReopens(Console) \/ OnEnsures(Console)))
    /\ WF_allVars(PinsDrained) /\ WF_allVars(PinDrainEnds) /\ WF_allVars(ExecutorOnJoined)
    /\ WF_allVars(StrayStop)
    /\ \A r \in Requests :
         /\ WF_allVars(AdmissionGoesOn(r)) /\ WF_allVars(TakeLease(r))
         /\ WF_allVars(FinishLocal(r)) /\ WF_allVars(EndElsewhere(r))
         /\ WF_allVars(InLifecycle(ContinuationEnds(r)))

FairControlSpec == ControlSpec /\ ControlFairness

-----------------------------------------------------------------------------
(***************************************************************************)
(* Properties.                                                             *)
(***************************************************************************)

\* Every variable has its type, in both components and in the control.
ControlTypeOK ==
    /\ TypeOK /\ SchedulerTypeOK
    /\ manualDrain \in {"none", "polling", "disabling"}
    /\ joining \in BOOLEAN /\ strayStop \in BOOLEAN

\* Work on the local Executor is work of a turn that owns a slot, so there is
\* never more of it than max_local_concurrency: leases and pins are kept by
\* two components and given back by separate calls.  A turn that is over has
\* given its pin back, and while a turn is served its role stays up.
LocalWorkIsPinned ==
    /\ gateway # "down" => leases \subseteq owners
    /\ NoOrphanPin
    /\ LeasedRoleServes

\* ON is final: when it has returned and nothing was asked since, no drain of
\* an earlier OFF is left to switch the Executor off again.
OnIsFinal ==
    (Up /\ desired /\ AdmissionFree) =>
        /\ manualDrain = "none" /\ pc[PinDrain] = "idle"
        /\ pc["drain"] = "idle" /\ state # "disabled"

\* OFF never stops the Executor under a turn, not even in a thread that an
\* aborted OFF left behind.
OffStopsOnlyUnused == StopsOnlyUnused /\ (strayStop => leases = {})

\* While the record says that a load has begun somebody owns it: its task, the
\* OFF that aborts it, or the restart that takes the record back.  (One that is
\* only queued may be aborted before its task ran, and stays in the record until
\* the OFF is through.)
LoadsAreOwned == state # "load_queued" => LoadingHasOwner

\* The record, the unit, the tasks and the switch agree whatever an ON, an OFF,
\* the drains and a restart did to each other.  (An OFF that overtakes one that
\* awaits the cancelled load says disabled too early, until both are through.)
RecordsAgree ==
    /\ ControlTypeOK /\ OnIsFinal /\ LoadsAreOwned
    /\ (~strayStop /\ \A a \in Callers : pc[a] = "idle") => DisabledMeansStopped

\* Turns that were pinned locally are served there: none is turned away, at its
\* first lease or at the lease of its stream, because OFF queued the unload.
\* (Violated: the OFF queues the unload at once, api.py:6567.)
PinnedTurnsServed ==
    [][\A r \in Requests :
         \/ req[r] = "checked" /\ caller[r] = "local" /\ req'[r] = "idle"
         \/ req[r] = "running" /\ req'[r] = "refused"
         => desired \/ state # "unload_queued"]_allVars

\* A turn that is served remotely kept its continuation while an unload samples
\* the memory after an OFF: admit_unload refuses.  If it is the OFF's unload nobody
\* asks again; if it is the scheduler's, taking the record back makes the one the
\* OFF waits with stale.
KeptWhileSampled ==
    ~desired /\ continuations # {} /\ \E a \in Workers : pc[a] = "sampling"

\* An OFF is executed to its end: the unit is stopped for good and no load is left
\* half done, whatever order the tasks are cancelled in and wherever the process
\* stopped (lifecycle.py:2206, api.py:6556).  The premises are exceptions that the
\* code has and OPERATIONS.md:1159-1160 does not name: a turn whose client went
\* away during its admission keeps its pin for ever (api.py:2912); remote turns
\* block the drain as long as they go on refreshing continuations (api.py:4245);
\* and one such refresh during a memory sample strands the OFF
\* (lifecycle.py:1946).  With the failure latch set nothing is claimed either.
WorkEnds ==
    /\ [](~Latched /\ ~KeptWhileSampled)
    /\ <>[](Up /\ ~desired /\ continuations = {} /\ \A r \in Requests : caller[r] # "lost")
    => <>[](unit = "inactive" /\ load = "none" /\ state \in {"disabled", "cold"})

=============================================================================
