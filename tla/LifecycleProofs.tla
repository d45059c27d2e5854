--------------------------- MODULE LifecycleProofs ---------------------------
(***************************************************************************)
(* The safety of an admitted unload, proved for every set of requests,     *)
(* operators and guards, with or without faults, crashes and close().      *)
(*                                                                         *)
(* The invariant has two parts.  Typed gives each variable its type, and   *)
(* says that a load under way has a retry left.  Safe adds to the property *)
(* what makes it inductive: whoever samples the memory for an unload or    *)
(* stops the unit keeps the role's lock all along, and every lease and     *)
(* every profile guard is taken under that lock.                           *)
(*                                                                         *)
(* Two results build on it: the automation asks the operator's switch and  *)
(* the latch in the step that acts, and the lock, the load and the record  *)
(* have each an owner (Owned), whom close() does not leave behind.  The    *)
(* last part is about several roles: their locks and the idle policy.      *)
(***************************************************************************)
EXTENDS Lifecycle, RoleIdling, SequenceTheorems, WellFoundedInduction, TLAPS

\* The actors that may know the current transition_id.
Known == Workers \cup GuardKinds \cup {"load"}
Units == {"inactive", "activating", "active", "failed"}
Gateways == {"down", "recovered", "reconciled", "disabling", "up", "closing",
             "draining", "unloading", "closed"}

\* The types, in groups that the actions change together.
RecordTyped ==
    /\ state \in States /\ retry \in 0..MaxRetries
    /\ fresh \subseteq Known /\ sameUse \subseteq Workers
HoldersTyped ==
    /\ leases \subseteq Requests /\ continuations \subseteq Requests
    /\ guards \subseteq GuardKinds
SwitchesTyped ==
    /\ desired \in BOOLEAN /\ failures \in 0..FailureLimit
    /\ unit \in Units /\ gateway \in Gateways
WorkersTyped ==
    /\ lock \in Workers \cup {"none"} /\ pc \in [Workers -> WorkerSteps]
    /\ queued \subseteq Workers
LoaderTyped ==
    /\ load \in LoadSteps /\ registered \in BOOLEAN /\ cancelled \in BOOLEAN
RequestsTyped == req \in [Requests -> RequestSteps]

\* A load that is under way may still fail once.
LoadsAreBounded == load # "none" => retry < MaxRetries

Typed == /\ RecordTyped /\ HoldersTyped /\ SwitchesTyped /\ WorkersTyped
         /\ LoaderTyped /\ RequestsTyped /\ LoadsAreBounded

\* The members of the enumerated sets that the actions name.
LEMMA Names ==
    /\ LoadingStates \cup {"disabled", "cold", "ready", "unload_queued", "unloading",
                         "failed"} = States
    /\ MayFail \subseteq States
    /\ {"load_queued", "process_starting", "loading_weights", "initializing_engine",
        "warming_up"} = LoadingStates
    /\ {"none", "created", "cursor", "starting", "polling"} = LoadSteps
    /\ {"idle", "checked", "running", "streaming", "refused"} = RequestSteps
    /\ Operators \cup {"boot", "sched", "drain"} = Workers
    /\ Operators \cup {"boot"} = Callers
BY DEF States, LoadingStates, MayFail, LoadSteps, RequestSteps, Workers, Callers

\* The steps of a worker, likewise.
LEMMA Steps ==
    {"idle", "wait_unload", "sampling", "admitted", "stopping", "sampling_after",
     "wait_cold", "cancelling", "off_stopping", "wait_off", "wait_queue", "wait_on",
     "wait_ensure", "polling"} = WorkerSteps
BY DEF WorkerSteps

\* _fail at the end of a load keeps the types and spends the retry it had left.
LEMMA FailLoadTyped ==
    ASSUME Typed, load # "none", FailLoad
    PROVE  /\ state' \in States /\ fresh' \subseteq Known /\ retry' \in 0..MaxRetries
           /\ failures' \in 0..FailureLimit
           /\ LoaderTyped' /\ LoadsAreBounded'
<1> USE LifecycleAssumption
<1>1. state' \in States /\ fresh' \subseteq Known
  BY Names DEF FailLoad, Typed, RecordTyped, Becomes, Stays
<1>2. retry' \in 0..MaxRetries
  BY DEF FailLoad, Typed, RecordTyped, LoadsAreBounded
<1>3. failures' \in 0..FailureLimit
  BY DEF FailLoad, RecordFailure, Typed, SwitchesTyped, Latched
<1>4. LoaderTyped' /\ LoadsAreBounded'
  BY Names DEF FailLoad, LoadEnds, LoaderTyped, LoadsAreBounded
<1> QED BY <1>1, <1>2, <1>3, <1>4

\* recover_state keeps the types of the record, and never adds a retry.
LEMMA RecoverTyped ==
    ASSUME NEW s \in {"cold", "ready", "failed"}, Typed, Recover(s)
    PROVE  state' \in States /\ fresh' \subseteq Known /\ retry' \in 0..retry
<1> USE LifecycleAssumption
<1>1. s \in States
  BY Names
<1>2. state' \in States /\ fresh' \subseteq Known
  BY <1>1 DEF Recover, Typed, RecordTyped, Becomes, Stays
<1>3. retry' \in 0..retry
  BY DEF Recover, Typed, RecordTyped
<1> QED BY <1>2, <1>3

\* Every step of _load keeps the types.
LEMMA LoadStepTyped == ASSUME Typed, LoadStep PROVE Typed'
<1> USE LifecycleAssumption
<1>0. LoadFrame => /\ HoldersTyped' /\ WorkersTyped' /\ RequestsTyped' 
                   /\ UNCHANGED <<sameUse, desired, gateway>>
  BY DEF LoadFrame, Typed, HoldersTyped, WorkersTyped, RequestsTyped, holders, workers
<1>a. load # "none" => retry < MaxRetries
  BY DEF Typed, LoadsAreBounded
<1>2. CASE LoadBegins
  <2>1. CASE "load" \in fresh
    BY <1>0, <1>2, <2>1, Names DEF LoadBegins, Becomes, Typed, RecordTyped,
           SwitchesTyped, LoaderTyped, LoadsAreBounded, Known
  <2>2. CASE "load" \notin fresh
    BY <1>0, <1>2, <2>2, FailLoadTyped DEF LoadBegins, Typed, RecordTyped, SwitchesTyped
  <2> QED BY <2>1, <2>2
<1>3. CASE LoadCursor
  <2>1. CASE FailLoad
    BY <1>0, <1>3, <2>1, FailLoadTyped DEF LoadCursor, Typed, RecordTyped, SwitchesTyped
  <2>2. CASE Recover("cold") /\ LoadEnds /\ UNCHANGED failures
    <3>1. LoaderTyped' /\ LoadsAreBounded'
      BY <2>2, Names DEF LoadEnds, LoaderTyped, LoadsAreBounded
    <3>2. state' \in States /\ fresh' \subseteq Known /\ retry' \in 0..retry
      BY <2>2, RecoverTyped
    <3> QED BY <1>0, <1>3, <2>2, <3>1, <3>2 DEF LoadCursor, Typed, RecordTyped,
           SwitchesTyped
  <2>3. CASE load' = "starting" /\ Stays /\ UNCHANGED <<retry, failures, registered, cancelled>>
    BY <1>0, <1>3, <2>3, Names DEF LoadCursor, Typed, RecordTyped, SwitchesTyped,
           LoaderTyped, LoadsAreBounded, Stays
  <2> QED BY <1>3, <2>1, <2>2, <2>3 DEF LoadCursor
<1>4. CASE LoadStarted
  BY <1>0, <1>4, FailLoadTyped, Names DEF LoadStarted, Typed, RecordTyped,
         SwitchesTyped, LoaderTyped, LoadsAreBounded, Stays, Units
<1>5. CASE LoadAdvances
  BY <1>0, <1>5, FailLoadTyped, Names DEF LoadAdvances, LaterPhases, Typed,
         RecordTyped, SwitchesTyped, LoaderTyped, LoadsAreBounded, Becomes, LoadEnds, loader
<1>6. CASE LoadBreaks
  BY <1>0, <1>6, FailLoadTyped DEF LoadBreaks, Typed, RecordTyped, SwitchesTyped
<1>7. CASE LoadNeverRuns
  BY <1>0, <1>7, Names DEF LoadNeverRuns, Typed, RecordTyped, SwitchesTyped,
         LoaderTyped, LoadsAreBounded, Stays, LoadEnds
<1> QED BY <1>2, <1>3, <1>4, <1>5, <1>6, <1>7 DEF LoadStep

\* queue_unload keeps the types.
LEMMA QueueUnloadTyped ==
    ASSUME NEW a \in Workers, NEW known, NEW wasQueued,
           Typed, QueueUnload(a, known, wasQueued)
    PROVE  /\ state' \in States /\ fresh' \subseteq Known /\ sameUse' \subseteq Workers
           /\ WorkersTyped'
<1>1. state' \in States
  BY Names DEF QueueUnload, Typed, RecordTyped, Becomes
<1>2. fresh' \subseteq Known /\ sameUse' \subseteq Workers /\ queued' \subseteq Workers
  BY DEF QueueUnload, Typed, RecordTyped, WorkersTyped, Becomes, Forgets, Known
<1>3. lock' \in Workers \cup {"none"} /\ pc' \in [Workers -> WorkerSteps]
  BY Steps DEF QueueUnload, Typed, WorkersTyped, Goto
<1> QED BY <1>1, <1>2, <1>3 DEF WorkersTyped

\* So does the call of _unload_role, with the lock or in wait of it.
LEMMA UnloadRoleTyped ==
    ASSUME NEW a \in Workers, Typed, UnloadRole(a)
    PROVE  RecordTyped' /\ WorkersTyped' /\ UNCHANGED retry
<1>1. CASE LockFree
  BY <1>1, QueueUnloadTyped DEF UnloadRole, Typed, RecordTyped
<1>2. CASE ~LockFree
  <2>1. RecordTyped' /\ queued' \subseteq Workers /\ UNCHANGED retry
    BY <1>2 DEF UnloadRole, Typed, RecordTyped, WorkersTyped, Known
  <2>2. UNCHANGED lock /\ pc' \in [Workers -> WorkerSteps]
    BY <1>2, Steps DEF UnloadRole, Typed, WorkersTyped, Goto
  <2> QED BY <2>1, <2>2 DEF Typed, WorkersTyped
<1> QED BY <1>1, <1>2

\* _fail at the end of an unload keeps the types.
LEMMA FailUnloadTyped ==
    ASSUME NEW a \in Workers, Typed, FailUnload(a)
    PROVE  RecordTyped' /\ WorkersTyped' /\ UNCHANGED retry /\ failures' \in 0..FailureLimit
<1> USE LifecycleAssumption
<1>1. state' \in States /\ fresh' \subseteq Known /\ UNCHANGED retry
  BY Names DEF FailUnload, Typed, RecordTyped, Becomes
<1>2. failures' \in 0..FailureLimit
  BY DEF FailUnload, RecordFailure, Latched, Typed, SwitchesTyped
<1>3. sameUse' \subseteq Workers /\ queued' \subseteq Workers /\ lock' = "none"
  BY DEF FailUnload, UnloadReturns, Typed, RecordTyped, WorkersTyped
<1>4. pc' \in [Workers -> WorkerSteps]
  BY Steps DEF FailUnload, UnloadReturns, Goto, Typed, WorkersTyped
<1> QED BY <1>1, <1>2, <1>3, <1>4 DEF Typed, RecordTyped, WorkersTyped

\* Every step of _unload_role from the lock on keeps the types.
LEMMA UnloadStepTyped == ASSUME NEW a \in Workers, Typed, UnloadStep(a) PROVE Typed'
<1> USE LifecycleAssumption
<1>0. UnloadFrame => /\ HoldersTyped' /\ LoaderTyped' /\ RequestsTyped'
                     /\ UNCHANGED <<desired, gateway, load>>
  <2>1. UnloadFrame => HoldersTyped' /\ RequestsTyped' /\ UNCHANGED <<desired, gateway, loader>>
    BY DEF UnloadFrame, Typed, HoldersTyped, RequestsTyped, holders
  <2>2. UNCHANGED loader => LoaderTyped' /\ UNCHANGED load
    BY DEF Typed, LoaderTyped, loader
  <2> QED BY <2>1, <2>2
<1>1. CASE GetsLock(a)
  <2>1. /\ QueueUnload(a, FALSE, a \in queued)
        /\ UNCHANGED <<retry, failures, unit>> /\ UnloadFrame
    BY <1>1 DEF GetsLock
  <2>2. /\ state' \in States /\ fresh' \subseteq Known /\ sameUse' \subseteq Workers
        /\ WorkersTyped'
    BY <2>1, QueueUnloadTyped
  <2> QED BY <1>0, <2>1, <2>2 DEF Typed, RecordTyped, SwitchesTyped, LoadsAreBounded
<1>2. CASE AdmitUnload(a)
  <2>1. RecordTyped' /\ UNCHANGED <<retry, failures, unit>>
    BY <1>2, Names DEF AdmitUnload, UnloadReturns, Typed, RecordTyped, Becomes, Known
  <2>2. WorkersTyped'
    BY <1>2, Steps DEF AdmitUnload, UnloadReturns, Goto, Typed, WorkersTyped
  <2> QED BY <1>0, <1>2, <2>1, <2>2 DEF AdmitUnload, Typed, SwitchesTyped,
         LoadsAreBounded
<1>3. CASE SampleFails(a)
  BY <1>0, <1>3, FailUnloadTyped DEF SampleFails, Typed, SwitchesTyped, LoadsAreBounded
<1>4. CASE BeginStop(a)
  <2>1. CASE Latched
    <3>1. state' \in States /\ fresh' \subseteq Known /\ retry' \in 0..retry
      BY <1>4, <2>1, RecoverTyped DEF BeginStop
    <3>2. sameUse' \subseteq Workers /\ WorkersTyped'
      BY <1>4, <2>1, Steps DEF BeginStop, UnloadReturns, Goto, Typed, RecordTyped,
             WorkersTyped
    <3> QED BY <1>0, <1>4, <3>1, <3>2 DEF BeginStop, Typed, RecordTyped, SwitchesTyped,
           LoadsAreBounded
  <2>2. CASE ~Latched
    <3>1. WorkersTyped'
      BY <1>4, <2>2, Steps DEF BeginStop, Goto, Typed, WorkersTyped
    <3> QED BY <1>0, <1>4, <2>2, <3>1 DEF BeginStop, Stays, Typed, RecordTyped,
           SwitchesTyped, LoadsAreBounded
  <2> QED BY <2>1, <2>2
<1>5. CASE Stopped(a)
  <2>1. CASE unit' = "inactive" /\ Stays /\ Goto(a, "sampling_after")
             /\ UNCHANGED <<sameUse, retry, failures, lock, queued>>
    <3>1. WorkersTyped'
      BY <2>1, Steps DEF Goto, Typed, WorkersTyped
    <3> QED BY <1>0, <1>5, <2>1, <3>1 DEF Stopped, Stays, Typed, RecordTyped,
           SwitchesTyped, LoadsAreBounded, Units
  <2>2. CASE unit' \in {unit, "failed"} /\ FailUnload(a)
    BY <1>0, <1>5, <2>2, FailUnloadTyped DEF Stopped, Typed, SwitchesTyped,
           LoadsAreBounded, Units
  <2> QED BY <1>5, <2>1, <2>2 DEF Stopped
<1>6. CASE CompleteUnload(a)
  <2>1. CASE a \in fresh /\ state = "unloading"
    <3>1. RecordTyped' /\ UNCHANGED <<retry, failures, unit>>
      BY <1>6, <2>1, Names DEF CompleteUnload, UnloadReturns, Becomes, Typed,
             RecordTyped
    <3>2. WorkersTyped'
      BY <1>6, <2>1, Steps DEF CompleteUnload, UnloadReturns, Goto, Typed, WorkersTyped
    <3> QED BY <1>0, <1>6, <3>1, <3>2 DEF CompleteUnload, Typed, SwitchesTyped,
           LoadsAreBounded
  <2>2. CASE ~(a \in fresh /\ state = "unloading")
    BY <1>0, <1>6, <2>2, FailUnloadTyped DEF CompleteUnload, Typed, SwitchesTyped,
           LoadsAreBounded
  <2> QED BY <2>1, <2>2
<1> QED BY <1>1, <1>2, <1>3, <1>4, <1>5, <1>6 DEF UnloadStep

\* ensure_ready keeps the types: it queues a load only when a retry is left.
LEMMA EnsureReadyTyped ==
    ASSUME Typed, EnsureReady
    PROVE  /\ RecordTyped' /\ HoldersTyped' /\ LoaderTyped' /\ LoadsAreBounded'
           /\ UNCHANGED <<retry, failures, unit, gateway, lock, queued>>
<1> USE LifecycleAssumption
<1>1. HoldersTyped' /\ UNCHANGED <<sameUse, retry, failures, unit, gateway, lock, queued>>
  BY DEF EnsureReady, Typed, HoldersTyped, holders
<1>2. state' \in States /\ fresh' \subseteq Known
  BY Names DEF EnsureReady, Becomes, Stays, Typed, RecordTyped, Known
<1>3. LoaderTyped' /\ LoadsAreBounded'
  <2>1. CASE StartsLoad
    BY <1>1, <2>1, Names DEF EnsureReady, StartsLoad, LoaderTyped, LoadsAreBounded
  <2>2. CASE ~StartsLoad
    BY <1>1, <2>2 DEF EnsureReady, loader, Typed, LoaderTyped, LoadsAreBounded
  <2> QED BY <2>1, <2>2
<1> QED BY <1>1, <1>2, <1>3 DEF Typed, RecordTyped

\* set_enabled(role, False) keeps the types, in each of the states it finds.
LEMMA SetDisabledTyped ==
    ASSUME NEW a \in Callers, Typed, SetDisabled(a)
    PROVE  RecordTyped' /\ WorkersTyped' /\ LoaderTyped' /\ LoadsAreBounded'
           /\ UNCHANGED <<holders, failures, unit, req>>
<1> USE LifecycleAssumption
<1>0. a \in Workers
  BY Names
<1>a. UNCHANGED <<holders, failures, unit, req>>
  BY DEF SetDisabled
<1>b. UNCHANGED record => RecordTyped' /\ UNCHANGED retry
  BY DEF record, Typed, RecordTyped
<1>c. UNCHANGED loader => LoaderTyped' /\ UNCHANGED load
  BY DEF loader, Typed, LoaderTyped
<1>d. UNCHANGED retry /\ UNCHANGED load => LoadsAreBounded'
  BY DEF Typed, LoadsAreBounded
<1>1. CASE UNCHANGED <<record, workers, loader>>
  BY <1>1, <1>a, <1>b, <1>c, <1>d DEF workers, Typed, WorkersTyped
<1>2. CASE DisableCold(a) /\ UNCHANGED loader
  <2>1. RecordTyped' /\ UNCHANGED retry
    BY <1>2, <1>b, Names DEF DisableCold, Becomes, Stays, Typed, RecordTyped
  <2>2. WorkersTyped'
    BY <1>0, <1>2, Steps DEF DisableCold, Goto, Typed, WorkersTyped
  <2> QED BY <1>2, <1>a, <1>c, <1>d, <2>1, <2>2
<1>3. CASE UnloadRole(a) /\ UNCHANGED loader
  BY <1>0, <1>3, <1>a, <1>c, <1>d, UnloadRoleTyped
<1>4. CASE StartDrain(a, "idle") /\ UNCHANGED <<record, lock, queued, loader>>
  <2>1. WorkersTyped'
    BY <1>0, <1>4, Steps, Names DEF StartDrain, Typed, WorkersTyped
  <2> QED BY <1>4, <1>a, <1>b, <1>c, <1>d, <2>1
<1>5. CASE QueueForDrain(a) /\ UNCHANGED loader
  <2>1. RecordTyped' /\ UNCHANGED retry
    BY <1>5, <1>b, Names DEF QueueForDrain, Becomes, Stays, Typed, RecordTyped
  <2>2. WorkersTyped'
    BY <1>0, <1>5, Steps, Names DEF QueueForDrain, StartDrain, Goto, Typed, WorkersTyped
  <2> QED BY <1>5, <1>a, <1>c, <1>d, <2>1, <2>2
<1>6. CASE AbortAndStop(a)
  <2>1. WorkersTyped' /\ UNCHANGED <<record, load>>
    BY <1>0, <1>6, Steps DEF AbortAndStop, Goto, Typed, WorkersTyped
  <2>2. LoaderTyped'
    BY <1>6, <2>1 DEF AbortAndStop, Typed, LoaderTyped
  <2> QED BY <1>a, <1>b, <1>d, <2>1, <2>2
<1> QED BY <1>1, <1>2, <1>3, <1>4, <1>5, <1>6 DEF SetDisabled

\* The calls of an operator keep the types.
LEMMA OperatorTyped ==
    ASSUME NEW o \in Operators, Typed, OperatorStep(o)
    PROVE  Typed'
<1> USE LifecycleAssumption
<1>0. o \in Workers /\ o \in Callers /\ "drain" \in Workers
  BY Names
<1>1. CASE SwitchOff(o)
  <2>1. SetDisabled(o) /\ desired' \in BOOLEAN /\ UNCHANGED gateway
    BY <1>1 DEF SwitchOff
  <2>2. /\ RecordTyped' /\ WorkersTyped' /\ LoaderTyped' /\ LoadsAreBounded'
        /\ UNCHANGED <<holders, failures, unit, req>>
    BY <1>0, <2>1, SetDisabledTyped
  <2> QED BY <2>1, <2>2 DEF Typed, HoldersTyped, holders, SwitchesTyped, RequestsTyped
<1>2. CASE SwitchOn(o)
  <2>1. UNCHANGED <<state, retry, holders, failures, unit, gateway, loader, req>>
        /\ desired' = TRUE /\ CancelDrain(o, "wait_on")
    BY <1>2 DEF SwitchOn
  <2>2. fresh' \subseteq Known /\ sameUse' \subseteq Workers /\ queued' \subseteq Workers
    BY <2>1 DEF CancelDrain, Forgets, Typed, RecordTyped, WorkersTyped
  <2>3. lock' \in Workers \cup {"none"} /\ pc' \in [Workers -> WorkerSteps]
    BY <1>0, <2>1, Steps DEF CancelDrain, Goto, Typed, WorkersTyped
  <2>4. LoaderTyped' /\ UNCHANGED load
    BY <2>1 DEF loader, Typed, LoaderTyped
  <2> QED BY <2>1, <2>2, <2>3, <2>4 DEF Typed, RecordTyped, HoldersTyped, holders,
             SwitchesTyped, WorkersTyped, RequestsTyped, LoadsAreBounded
<1>3. CASE OnReopens(o)
  <2>1. UNCHANGED <<sameUse, retry, lock, queued, unit, loader, holders, desired,
                    failures, gateway, req>>
    BY <1>3 DEF OnReopens, OffFrame
  <2>2. state' \in States /\ fresh' \subseteq Known
    BY <1>3, Names DEF OnReopens, Becomes, Stays, Typed, RecordTyped
  <2>3. pc' \in [Workers -> WorkerSteps]
    BY <1>0, <1>3, Steps DEF OnReopens, Goto, Typed, WorkersTyped
  <2>4. LoaderTyped' /\ UNCHANGED load
    BY <2>1 DEF loader, Typed, LoaderTyped
  <2> QED BY <2>1, <2>2, <2>3, <2>4 DEF Typed, RecordTyped, HoldersTyped, holders,
             SwitchesTyped, WorkersTyped, RequestsTyped, LoadsAreBounded
<1>4. CASE OnEnsures(o)
  <2>1. EnsureReady /\ UNCHANGED <<desired, req>>
    BY <1>4 DEF OnEnsures
  <2>2. pc' \in [Workers -> WorkerSteps]
    BY <1>0, <1>4, Steps DEF OnEnsures, Goto, Typed, WorkersTyped
  <2> QED BY <2>1, <2>2, EnsureReadyTyped DEF Typed, SwitchesTyped, WorkersTyped,
         RequestsTyped
<1> QED BY <1>1, <1>2, <1>3, <1>4 DEF OperatorStep

\* The later steps of an OFF keep the types.
LEMMA OffStepTyped == ASSUME NEW a \in Callers, Typed, OffStep(a) PROVE Typed'
<1>0. a \in Workers
  BY Names
<1>a. OffFrame => /\ HoldersTyped' /\ RequestsTyped'
                  /\ UNCHANGED <<desired, failures, gateway>>
  BY DEF OffFrame, Typed, HoldersTyped, holders, RequestsTyped
<1>b. UNCHANGED loader => LoaderTyped' /\ UNCHANGED load
  BY DEF loader, Typed, LoaderTyped
<1>c. UNCHANGED record => RecordTyped' /\ UNCHANGED retry
  BY DEF record, Typed, RecordTyped
<1>1. CASE OffWaits(a)
  <2>1. UNCHANGED <<unit, loader>> /\ OffFrame
    BY <1>1 DEF OffWaits
  <2>2. CASE DisableCold(a)
    <3>1. RecordTyped' /\ UNCHANGED retry
      BY <2>2, <1>c, Names DEF DisableCold, Becomes, Stays, Typed, RecordTyped
    <3>2. WorkersTyped'
      BY <1>0, <2>2, Steps DEF DisableCold, Goto, Typed, WorkersTyped
    <3> QED BY <1>a, <1>b, <2>1, <3>1, <3>2 DEF Typed, SwitchesTyped, LoadsAreBounded
  <2>3. CASE QueueForDrain(a)
    <3>1. RecordTyped' /\ UNCHANGED retry
      BY <2>3, <1>c, Names DEF QueueForDrain, Becomes, Stays, Typed, RecordTyped
    <3>2. WorkersTyped'
      BY <1>0, <2>3, Steps, Names DEF QueueForDrain, StartDrain, Goto, Typed,
             WorkersTyped
    <3> QED BY <1>a, <1>b, <2>1, <3>1, <3>2 DEF Typed, SwitchesTyped, LoadsAreBounded
  <2> QED BY <1>1, <2>2, <2>3 DEF OffWaits
<1>2. CASE OffLoadCancelled(a)
  <2>1. UNCHANGED <<record, lock, queued, unit, loader>> /\ OffFrame
    BY <1>2 DEF OffLoadCancelled
  <2>2. pc' \in [Workers -> WorkerSteps]
    BY <1>0, <1>2, Steps DEF OffLoadCancelled, Goto, Typed, WorkersTyped
  <2> QED BY <1>a, <1>b, <1>c, <2>1, <2>2 DEF Typed, SwitchesTyped, WorkersTyped,
         LoadsAreBounded
<1>3. CASE OffStopped(a)
  <2>1. /\ UNCHANGED <<record, lock, queued, loader>> /\ OffFrame
        /\ unit' \in {unit, "inactive", "failed"}
    BY <1>3 DEF OffStopped
  <2>2. pc' \in [Workers -> WorkerSteps]
    BY <1>0, <1>3, Steps DEF OffStopped, Goto, Typed, WorkersTyped
  <2>3. unit' \in Units
    BY <2>1 DEF Typed, SwitchesTyped, Units
  <2> QED BY <1>a, <1>b, <1>c, <2>1, <2>2, <2>3 DEF Typed, SwitchesTyped, WorkersTyped,
         LoadsAreBounded
<1>4. CASE OffDisables(a)
  <2>1. UNCHANGED <<sameUse, retry, lock, queued, unit, loader>> /\ OffFrame
    BY <1>4 DEF OffDisables
  <2>2. state' \in States /\ fresh' \subseteq Known
    BY <1>4, Names DEF OffDisables, Becomes, Stays, Typed, RecordTyped
  <2>3. pc' \in [Workers -> WorkerSteps]
    BY <1>0, <1>4, Steps DEF OffDisables, Goto, Typed, WorkersTyped
  <2> QED BY <1>a, <1>b, <2>1, <2>2, <2>3 DEF Typed, RecordTyped, SwitchesTyped,
             WorkersTyped, LoadsAreBounded
<1> QED BY <1>1, <1>2, <1>3, <1>4 DEF OffStep

\* The unloads of the scheduler and of the drain keep the types.
LEMMA AutomaticTyped == ASSUME Typed, SchedulerUnloads \/ DrainPolls PROVE Typed'
<1>0. UnloadFrame => /\ HoldersTyped' /\ LoaderTyped' /\ RequestsTyped'
                     /\ UNCHANGED <<desired, gateway, load>>
  <2>1. UnloadFrame => HoldersTyped' /\ RequestsTyped' /\ UNCHANGED <<desired, gateway, loader>>
    BY DEF UnloadFrame, Typed, HoldersTyped, RequestsTyped, holders
  <2>2. UNCHANGED loader => LoaderTyped' /\ UNCHANGED load
    BY DEF Typed, LoaderTyped, loader
  <2> QED BY <2>1, <2>2
<1>1. CASE UNCHANGED <<failures, unit>> /\ UnloadFrame /\ UnloadRole("sched")
  BY <1>0, <1>1, Names, UnloadRoleTyped DEF Typed, SwitchesTyped, LoadsAreBounded
<1>2. CASE UNCHANGED <<failures, unit>> /\ UnloadFrame /\ UnloadRole("drain")
  BY <1>0, <1>2, Names, UnloadRoleTyped DEF Typed, SwitchesTyped, LoadsAreBounded
<1>3. CASE /\ UNCHANGED <<failures, unit>> /\ UnloadFrame
           /\ Goto("drain", "idle") /\ UNCHANGED <<record, lock, queued>>
  <2>1. pc' \in [Workers -> WorkerSteps]
    BY <1>3, Steps, Names DEF Goto, Typed, WorkersTyped
  <2>2. RecordTyped' /\ UNCHANGED retry
    BY <1>3 DEF record, Typed, RecordTyped
  <2> QED BY <1>0, <1>3, <2>1, <2>2 DEF Typed, SwitchesTyped, WorkersTyped,
         LoadsAreBounded
<1> QED BY <1>1, <1>2, <1>3 DEF SchedulerUnloads, DrainPolls

\* The steps of a request keep the types.
LEMMA RequestTyped ==
    ASSUME NEW r \in Requests, Typed, RequestStep(r)
    PROVE  Typed'
<1>1. CASE CheckRole(r)
  <2>1. EnsureReady /\ UNCHANGED <<desired, pc>> /\ (To(r, "checked") \/ To(r, "idle"))
    BY <1>1 DEF CheckRole
  <2>2. RequestsTyped'
    BY <2>1, Names DEF To, Typed, RequestsTyped
  <2> QED BY <2>1, <2>2, EnsureReadyTyped DEF Typed, SwitchesTyped, WorkersTyped
<1>2. CASE ~CheckRole(r)
  <2>1. RequestFrame /\ UNCHANGED <<state, fresh>>
    BY <1>2 DEF RequestStep, AcquireLease, OpenStream, RefreshContinuation, Finish,
           Renew, ContinuationEnds
  <2>2. /\ leases' \subseteq Requests /\ continuations' \subseteq Requests
        /\ sameUse' \subseteq Workers
    BY <1>2 DEF RequestStep, AcquireLease, OpenStream, RefreshContinuation, Finish,
           Renew, ContinuationEnds, ReleaseLease, Typed, HoldersTyped, RecordTyped
  <2>3. RequestsTyped'
    BY <1>2, Names DEF RequestStep, AcquireLease, OpenStream, RefreshContinuation,
           Finish, Renew, ContinuationEnds, To, Typed, RequestsTyped
  <2>4. LoaderTyped' /\ LoadsAreBounded'
    BY <2>1 DEF RequestFrame, loader, Typed, LoaderTyped, LoadsAreBounded
  <2> QED BY <2>1, <2>2, <2>3, <2>4 DEF RequestFrame, Typed, RecordTyped, HoldersTyped,
             SwitchesTyped, WorkersTyped, workers
<1> QED BY <1>1, <1>2

\* Claiming and releasing a guard keeps the types.
LEMMA GuardTyped ==
    ASSUME NEW g \in GuardKinds, Typed, ClaimGuard(g) \/ ReleaseGuard(g)
    PROVE  Typed'
<1>1. guards' \subseteq GuardKinds /\ fresh' \subseteq Known
  BY DEF ClaimGuard, ReleaseGuard, Typed, HoldersTyped, RecordTyped, Known
<1>2. UNCHANGED <<state, sameUse, retry, leases, continuations, desired, failures, unit,
                  gateway, workers, loader, req>>
  BY DEF ClaimGuard, ReleaseGuard
<1>3. LoaderTyped' /\ LoadsAreBounded'
  BY <1>2 DEF loader, Typed, LoaderTyped, LoadsAreBounded
<1> QED BY <1>1, <1>2, <1>3 DEF Typed, RecordTyped, HoldersTyped, SwitchesTyped,
       WorkersTyped, workers, RequestsTyped

\* close() keeps the types.
LEMMA CloseTyped == ASSUME Typed, Close PROVE Typed'
<1>1. CloseFrame => /\ HoldersTyped' /\ RequestsTyped'
                    /\ UNCHANGED <<state, retry, desired, failures, unit>>
  BY DEF CloseFrame, Typed, HoldersTyped, holders, RequestsTyped
<1>2. CloseFrame
  BY DEF Close, CloseBegins, CloseDrains, CloseLoads, CloseEnds
<1>3. gateway' \in Gateways
  BY DEF Close, CloseBegins, CloseDrains, CloseLoads, CloseEnds, Gateways
<1>4. LoaderTyped' /\ UNCHANGED load
  <2>1. CASE UNCHANGED loader
    BY <2>1 DEF loader, Typed, LoaderTyped
  <2>2. CASE UNCHANGED <<load, registered>> /\ cancelled' \in BOOLEAN
    BY <2>2 DEF Typed, LoaderTyped
  <2> QED BY <2>1, <2>2 DEF Close, CloseBegins, CloseDrains, CloseLoads, CloseEnds
<1>5. fresh' \subseteq Known /\ sameUse' \subseteq Workers /\ WorkersTyped'
  <2>1. ASSUME NEW a \in Workers, CancelWorker(a)
        PROVE  fresh' \subseteq Known /\ sameUse' \subseteq Workers /\ WorkersTyped'
    <3>1. fresh' \subseteq Known /\ sameUse' \subseteq Workers /\ queued' \subseteq Workers
      BY <2>1 DEF CancelWorker, Forgets, Typed, RecordTyped, WorkersTyped
    <3>2. lock' \in Workers \cup {"none"} /\ pc' \in [Workers -> WorkerSteps]
      BY <2>1, Steps DEF CancelWorker, Goto, Typed, WorkersTyped
    <3> QED BY <3>1, <3>2 DEF WorkersTyped
  <2>2. CASE UNCHANGED <<fresh, sameUse, workers>>
    BY <2>2 DEF workers, Typed, RecordTyped, WorkersTyped
  <2> QED BY <2>1, <2>2, Names DEF Close, CloseBegins, CloseDrains, CloseLoads,
         CloseEnds
<1> QED BY <1>1, <1>2, <1>3, <1>4, <1>5 DEF Typed, RecordTyped, SwitchesTyped,
       LoadsAreBounded

\* The end of the process keeps the types.
LEMMA CrashTyped == ASSUME Typed, Crash PROVE Typed'
<1>1. UNCHANGED <<state, retry, holders, desired, failures>>
  BY DEF Crash
<1>2. unit' \in Units /\ gateway' \in Gateways
  BY DEF Crash, Typed, SwitchesTyped, Units, Gateways
<1>3. fresh' \subseteq Known /\ sameUse' \subseteq Workers /\ queued' \subseteq Workers
  BY DEF Crash
<1>4. lock' \in Workers \cup {"none"} /\ pc' \in [Workers -> WorkerSteps]
  BY Steps DEF Crash
<1>5. LoaderTyped' /\ LoadsAreBounded'
  BY Names DEF Crash, LoadEnds, LoaderTyped, LoadsAreBounded
<1>6. RequestsTyped'
  BY Names DEF Crash, RequestsTyped
<1> QED BY <1>1, <1>2, <1>3, <1>4, <1>5, <1>6 DEF Typed, RecordTyped, HoldersTyped,
       holders, SwitchesTyped, WorkersTyped

\* Start-up keeps the types, whatever the unit does meanwhile.
LEMMA StartUpTyped == ASSUME Typed, StartUp PROVE Typed'
<1> USE LifecycleAssumption
<1>a. UNCHANGED loader => LoaderTyped' /\ UNCHANGED load
  BY DEF loader, Typed, LoaderTyped
<1>b. UNCHANGED <<workers, req>> => WorkersTyped' /\ RequestsTyped'
  BY DEF workers, Typed, WorkersTyped, RequestsTyped
<1>c. UNCHANGED record => RecordTyped' /\ UNCHANGED retry
  BY DEF record, Typed, RecordTyped
<1>1. CASE RecoverLeases
  <2>1. /\ UNCHANGED <<record, continuations, guards, desired, failures, unit, workers,
                       loader, req>>
        /\ gateway' = "recovered" /\ leases' = {}
    BY <1>1 DEF RecoverLeases
  <2> QED BY <1>a, <1>b, <1>c, <2>1 DEF Typed, HoldersTyped, SwitchesTyped,
         LoadsAreBounded, Gateways
<1>2. CASE ReconcileManaged
  <2>1. /\ UNCHANGED <<sameUse, holders, desired, failures, unit, workers, loader, req>>
        /\ gateway' = "reconciled" /\ (Recover("cold") \/ Recover("ready") \/ Recover("failed"))
    BY <1>2 DEF ReconcileManaged
  <2>2. state' \in States /\ fresh' \subseteq Known /\ retry' \in 0..retry
    BY <2>1, RecoverTyped
  <2> QED BY <1>a, <1>b, <2>1, <2>2 DEF Typed, RecordTyped, HoldersTyped, holders,
             SwitchesTyped, LoadsAreBounded, Gateways
<1>3. CASE StartUpDisables
  <2>1. SetDisabled("boot") /\ gateway' = "disabling" /\ UNCHANGED desired
    BY <1>3 DEF StartUpDisables
  <2>2. /\ RecordTyped' /\ WorkersTyped' /\ LoaderTyped' /\ LoadsAreBounded'
        /\ UNCHANGED <<holders, failures, unit, req>>
    BY <2>1, Names, SetDisabledTyped
  <2> QED BY <2>1, <2>2 DEF Typed, HoldersTyped, holders, SwitchesTyped, RequestsTyped,
         Gateways
<1>4. CASE StartUpEnds
  <2>1. /\ UNCHANGED <<record, holders, desired, failures, unit, workers, loader, req>>
        /\ gateway' = "up"
    BY <1>4 DEF StartUpEnds
  <2> QED BY <1>a, <1>b, <1>c, <2>1 DEF Typed, HoldersTyped, holders, SwitchesTyped,
             LoadsAreBounded, Gateways
<1> QED BY <1>1, <1>2, <1>3, <1>4 DEF StartUp

\* What happens to the unit and to the failure count from outside.
OutsideStep == UnitStarts \/ UnitFails \/ ProfileScript \/ OtherRoleFails \/ ResetAutomation

\* It keeps the types.
LEMMA OutsideTyped == ASSUME Typed, OutsideStep PROVE Typed'
<1> USE LifecycleAssumption
<1>1. Surroundings
  BY DEF OutsideStep, UnitStarts, UnitFails, ProfileScript, OtherRoleFails,
         ResetAutomation
<1>2. unit' \in Units
  BY DEF OutsideStep, UnitStarts, UnitFails, ProfileScript, OtherRoleFails,
         ResetAutomation, Typed, SwitchesTyped, Units
<1>3. failures' \in 0..FailureLimit
  BY DEF OutsideStep, UnitStarts, UnitFails, ProfileScript, OtherRoleFails,
         ResetAutomation, RecordFailure, Latched, Typed, SwitchesTyped
<1>4. LoaderTyped' /\ UNCHANGED load
  BY <1>1 DEF Surroundings, loader, Typed, LoaderTyped
<1>5. RecordTyped' /\ UNCHANGED retry
  BY <1>1 DEF Surroundings, record, Typed, RecordTyped
<1>6. WorkersTyped' /\ RequestsTyped' /\ HoldersTyped' /\ UNCHANGED <<desired, gateway>>
  BY <1>1 DEF Surroundings, workers, holders, Typed, WorkersTyped, RequestsTyped,
         HoldersTyped
<1> QED BY <1>2, <1>3, <1>4, <1>5, <1>6 DEF Typed, SwitchesTyped, LoadsAreBounded

\* All together: the types are inductive by themselves.
LEMMA NextTyped == Typed /\ [Next]_vars => Typed'
<1> SUFFICES ASSUME Typed, [Next]_vars PROVE Typed'
  OBVIOUS
<1>1. CASE UNCHANGED vars
  <2>1. LoaderTyped' /\ UNCHANGED load
    BY <1>1 DEF vars, loader, Typed, LoaderTyped
  <2>2. RecordTyped' /\ UNCHANGED retry
    BY <1>1 DEF vars, record, Typed, RecordTyped
  <2>3. /\ WorkersTyped' /\ RequestsTyped' /\ HoldersTyped'
        /\ UNCHANGED <<desired, failures, unit, gateway>>
    BY <1>1 DEF vars, workers, holders, Typed, WorkersTyped, RequestsTyped, HoldersTyped
  <2> QED BY <2>1, <2>2, <2>3 DEF Typed, SwitchesTyped, LoadsAreBounded
<1> QED BY <1>1, Names, RequestTyped, OperatorTyped, UnloadStepTyped, OffStepTyped,
       GuardTyped, LoadStepTyped, AutomaticTyped, CrashTyped, StartUpTyped, CloseTyped,
           OutsideTyped
        DEF Next, OutsideStep

\* The initial states have the types.
LEMMA InitTyped == Init => Typed
<1> SUFFICES ASSUME Init PROVE Typed
  OBVIOUS
<1> USE LifecycleAssumption
<1>1. RecordTyped /\ HoldersTyped
  BY Names DEF Init, RecordTyped, HoldersTyped
<1>2. SwitchesTyped
  BY DEF Init, SwitchesTyped, Units, Gateways
<1>3. WorkersTyped /\ RequestsTyped
  BY Steps, Names DEF Init, WorkersTyped, RequestsTyped
<1>4. LoaderTyped /\ LoadsAreBounded
  BY Names DEF Init, LoaderTyped, LoadsAreBounded
<1> QED BY <1>1, <1>2, <1>3, <1>4 DEF Typed

\* The groups together are the type invariant of the component.
LEMMA TypedImpliesTypeOK == Typed => TypeOK
BY DEF Typed, RecordTyped, HoldersTyped, SwitchesTyped, WorkersTyped, LoaderTyped,
       RequestsTyped, TypeOK, Known, Units, Gateways

-----------------------------------------------------------------------------
\* The steps of an unload in which _unload_role keeps the lock.
Holding == {"sampling"} \cup Stopping

\* An unload that samples or stops keeps the lock until it returns.
LockIsKept == \A a \in Workers : pc[a] \in Holding => lock = a

\* A switch in progress has no unload admitted beside it, in any state of the
\* gateway: an admitted unload ends with its process.
GuardKeepsUnit == "profile" \in guards => \A a \in Workers : pc[a] \notin Stopping

\* What an admitted unload relies on.
Safe == LockIsKept /\ UnloadsOnlyUnused /\ GuardKeepsUnit

\* Whoever keeps the lock is the only one at work, and nobody is when it is free.
LEMMA OneHolder ==
    ASSUME LockIsKept
    PROVE  /\ LockFree => \A a \in Workers : pc[a] \notin Holding
           /\ \A a, b \in Workers : pc[a] \in Holding /\ pc[b] \in Holding => a = b
BY LifecycleAssumption, Names DEF LockIsKept, LockFree

\* Nothing is lost by a step that takes no lease and no guard, lets no unload
\* begin or advance, and leaves the lock alone while an unload has it.
LEMMA Weaken ==
    ASSUME Safe,
           \A b \in Workers : pc'[b] \in Holding => pc'[b] = pc[b] /\ lock' = lock,
           leases' \subseteq leases, "profile" \in guards' => "profile" \in guards
    PROVE  Safe'
BY DEF Safe, LockIsKept, UnloadsOnlyUnused, GuardKeepsUnit, Holding

\* An unload that takes the free lock begins alone.
LEMMA Take ==
    ASSUME NEW a \in Workers, Typed, Safe, LockFree, lock' = a,
           pc' = [pc EXCEPT ![a] = "sampling"], UNCHANGED <<leases, guards>>
    PROVE  Safe'
<1>1. \A b \in Workers : pc[b] \notin Holding
  BY OneHolder DEF Safe
<1>2. \A b \in Workers : pc'[b] \in Holding => b = a
  BY <1>1 DEF Typed, WorkersTyped
<1>3. \A b \in Workers : pc'[b] \notin Stopping
  BY <1>1 DEF Typed, WorkersTyped, Holding, Stopping
<1> QED BY <1>2, <1>3 DEF Safe, LockIsKept, UnloadsOnlyUnused, GuardKeepsUnit

\* The one that has the lock goes on: into the stop only when admit_unload saw
\* no lease and no guard.
LEMMA Advance ==
    ASSUME NEW a \in Workers, NEW step \in Stopping, Typed, Safe, pc[a] \in Holding,
           pc[a] \in Stopping \/ ~Blocked,
           pc' = [pc EXCEPT ![a] = step], UNCHANGED <<lock, leases, guards>>
    PROVE  Safe'
<1>1. \A b \in Workers : b # a => pc'[b] = pc[b]
  BY DEF Typed, WorkersTyped
<1>2. LockIsKept'
  BY <1>1 DEF Safe, LockIsKept
<1>3. leases = {} /\ "profile" \notin guards
  BY DEF Safe, UnloadsOnlyUnused, GuardKeepsUnit, Blocked
<1> QED BY <1>2, <1>3 DEF Safe, UnloadsOnlyUnused, GuardKeepsUnit

\* While the lock is free leases and guards may be taken.
LEMMA Grow ==
    ASSUME Safe, LockFree, UNCHANGED <<lock, pc>>
    PROVE  Safe'
<1>1. \A b \in Workers : pc[b] \notin Holding
  BY OneHolder DEF Safe
<1> QED BY <1>1 DEF Safe, LockIsKept, UnloadsOnlyUnused, GuardKeepsUnit, Holding

\* An unload that returns leaves nobody behind that relies on the lock.
LEMMA LeaveLock ==
    ASSUME NEW a \in Workers, Typed, Safe, pc[a] \in Holding, UnloadReturns(a),
           UNCHANGED <<leases, guards>>
    PROVE  Safe'
<1>1. \A b \in Workers : pc'[b] \in Holding => FALSE
  BY OneHolder DEF UnloadReturns, Goto, Typed, WorkersTyped, Safe, Holding, Stopping
<1> QED BY <1>1, Weaken

\* A worker may go to any step that needs no lock.
LEMMA Step ==
    ASSUME NEW a \in Workers, NEW step \in WorkerSteps \ Holding, Typed, Safe, Goto(a, step),
           UNCHANGED lock, leases' \subseteq leases, guards' = guards
    PROVE  Safe'
<1>1. \A b \in Workers : pc'[b] \in Holding => pc'[b] = pc[b]
  BY DEF Goto, Typed, WorkersTyped
<1> QED BY <1>1, Weaken

\* queue_unload keeps Safe: it takes the free lock or gives up.
LEMMA QueueUnloadSafe ==
    ASSUME NEW a \in Workers, NEW known, NEW wasQueued, Typed, Safe,
           LockFree, QueueUnload(a, known, wasQueued), UNCHANGED <<leases, guards>>
    PROVE  Safe'
<1>1. CASE lock' = a /\ Goto(a, "sampling")
  BY <1>1, Take DEF Goto
<1>2. CASE Goto(a, "idle") /\ UNCHANGED lock
  BY <1>2, Step, Steps DEF Holding, Stopping
<1> QED BY <1>1, <1>2 DEF QueueUnload

\* _unload_role up to there keeps Safe.
LEMMA UnloadRoleSafe ==
    ASSUME NEW a \in Workers, Typed, Safe, UnloadRole(a), UNCHANGED <<leases, guards>>
    PROVE  Safe'
<1>1. CASE LockFree
  BY <1>1, QueueUnloadSafe DEF UnloadRole
<1>2. CASE ~LockFree
  <2>1. Goto(a, "wait_unload") /\ UNCHANGED lock
    BY <1>2 DEF UnloadRole
  <2> QED BY <2>1, Step, Steps DEF Holding, Stopping
<1> QED BY <1>1, <1>2

\* The later steps of an unload keep Safe.
LEMMA UnloadStepSafe ==
    ASSUME NEW a \in Workers, Typed, Safe, UnloadStep(a)
    PROVE  Safe'
<1>0. UNCHANGED <<leases, guards>>
  BY DEF UnloadStep, GetsLock, AdmitUnload, SampleFails, BeginStop, Stopped,
         CompleteUnload, UnloadFrame, holders
<1>1. CASE GetsLock(a)
  <2>1. LockFree /\ QueueUnload(a, FALSE, a \in queued)
    BY <1>1 DEF GetsLock
  <2> QED BY <1>0, <2>1, QueueUnloadSafe
<1>2. CASE AdmitUnload(a)
  <2>1. CASE Admissible(a)
    BY <1>0, <1>2, <2>1, Advance DEF AdmitUnload, Admissible, Goto, Holding, Stopping
  <2>2. CASE ~Admissible(a)
    BY <1>0, <1>2, <2>2, LeaveLock DEF AdmitUnload, Holding
  <2> QED BY <2>1, <2>2
<1>3. CASE SampleFails(a)
  BY <1>0, <1>3, LeaveLock DEF SampleFails, FailUnload, Holding, Stopping
<1>4. CASE BeginStop(a)
  <2>1. CASE Latched
    BY <1>0, <1>4, <2>1, LeaveLock DEF BeginStop, Holding, Stopping
  <2>2. CASE ~Latched
    BY <1>0, <1>4, <2>2, Advance DEF BeginStop, Goto, Holding, Stopping
  <2> QED BY <2>1, <2>2
<1>5. CASE Stopped(a)
  <2>1. CASE Goto(a, "sampling_after") /\ UNCHANGED lock
    BY <1>0, <1>5, <2>1, Advance DEF Stopped, Goto, Holding, Stopping
  <2>2. CASE FailUnload(a)
    BY <1>0, <1>5, <2>2, LeaveLock DEF Stopped, FailUnload, Holding, Stopping
  <2> QED BY <1>5, <2>1, <2>2 DEF Stopped
<1>6. CASE CompleteUnload(a)
  <2>1. UnloadReturns(a)
    BY <1>6 DEF CompleteUnload, FailUnload
  <2> QED BY <1>0, <1>6, <2>1, LeaveLock DEF CompleteUnload, Holding, Stopping
<1> QED BY <1>1, <1>2, <1>3, <1>4, <1>5, <1>6 DEF UnloadStep

\* The start of the drain task keeps Safe: it takes no lock.
LEMMA StartDrainSafe ==
    ASSUME NEW a \in Workers, Typed, Safe, StartDrain(a, "idle"),
           UNCHANGED <<lock, leases, guards>>
    PROVE  Safe'
<1>1. \A b \in Workers : pc'[b] \in Holding => pc'[b] = pc[b]
  BY Names DEF StartDrain, Typed, WorkersTyped, Holding, Stopping
<1> QED BY <1>1, Weaken

\* An OFF of a cold or of a busy role keeps Safe: it queues or waits.
LEMMA OffFromIdleSafe ==
    ASSUME NEW a \in Workers, Typed, Safe, DisableCold(a) \/ QueueForDrain(a),
           UNCHANGED <<leases, guards>>
    PROVE  Safe'
<1>1. CASE LockFree
  <2>1. UNCHANGED lock /\ (Goto(a, "idle") \/ StartDrain(a, "idle"))
    BY <1>1 DEF DisableCold, QueueForDrain
  <2> QED BY <2>1, Step, Steps, StartDrainSafe DEF Holding, Stopping
<1>2. CASE ~LockFree
  <2>1. UNCHANGED lock /\ (Goto(a, "wait_cold") \/ Goto(a, "wait_queue"))
    BY <1>2 DEF DisableCold, QueueForDrain
  <2> QED BY <2>1, Step, Steps DEF Holding, Stopping
<1> QED BY <1>1, <1>2

\* set_enabled(role, False) keeps Safe: the OFF that aborts a load stops the
\* unit without being an admitted unload.
LEMMA SetDisabledSafe ==
    ASSUME NEW a \in Workers, Typed, Safe, SetDisabled(a)
    PROVE  Safe'
<1>1. UNCHANGED <<leases, guards>>
  BY DEF SetDisabled, holders
<1>2. CASE UNCHANGED workers
  BY <1>1, <1>2, Weaken DEF workers
<1>3. CASE DisableCold(a) \/ QueueForDrain(a)
  BY <1>1, <1>3, OffFromIdleSafe
<1>4. CASE UnloadRole(a)
  BY <1>1, <1>4, UnloadRoleSafe
<1>5. CASE StartDrain(a, "idle") /\ UNCHANGED lock
  BY <1>1, <1>5, StartDrainSafe
<1>6. CASE AbortAndStop(a)
  <2>1. UNCHANGED lock /\ (Goto(a, "cancelling") \/ Goto(a, "off_stopping"))
    BY <1>6 DEF AbortAndStop
  <2> QED BY <1>1, <2>1, Step, Steps DEF Holding, Stopping
<1> QED BY <1>2, <1>3, <1>4, <1>5, <1>6 DEF SetDisabled

\* The calls of an operator keep Safe: an ON may cancel a drain that keeps the lock, but
\* not one that has begun to stop the unit.
LEMMA OperatorSafe ==
    ASSUME NEW o \in Operators, Typed, Safe, OperatorStep(o)
    PROVE  Safe'
<1>0. o \in Workers /\ "drain" \in Workers
  BY Names
<1>1. CASE SwitchOff(o)
  BY <1>0, <1>1, SetDisabledSafe DEF SwitchOff
<1>2. CASE SwitchOn(o)
  <2>1. UNCHANGED <<leases, guards>> /\ CancelDrain(o, "wait_on")
    BY <1>2 DEF SwitchOn, holders
  <2>2. CASE pc["drain"] \in Stopping
    BY <1>0, <2>1, <2>2, Step, Steps DEF CancelDrain, Holding, Stopping
  <2>3. CASE pc["drain"] \notin Stopping
    <3>1. \A b \in Workers : pc'[b] \in Holding => pc'[b] = pc[b] /\ b # "drain"
      BY <1>0, <2>1, <2>3 DEF CancelDrain, Typed, WorkersTyped, Holding, Stopping
    <3>2. \A b \in Workers : pc'[b] \in Holding => lock' = lock
      BY <2>1, <2>3, <3>1 DEF CancelDrain, Safe, LockIsKept
    <3> QED BY <2>1, <3>1, <3>2, Weaken
  <2> QED BY <2>2, <2>3
<1>3. CASE OnReopens(o)
  <2>1. UNCHANGED <<lock, leases, guards>> /\ Goto(o, "wait_ensure")
    BY <1>3 DEF OnReopens, OffFrame, holders
  <2> QED BY <1>0, <2>1, Step, Steps DEF Holding, Stopping
<1>4. CASE OnEnsures(o)
  <2>1. UNCHANGED <<lock, leases, guards>> /\ Goto(o, "idle")
    BY <1>4 DEF OnEnsures, EnsureReady, holders
  <2> QED BY <1>0, <2>1, Step, Steps DEF Holding, Stopping
<1> QED BY <1>1, <1>2, <1>3, <1>4 DEF OperatorStep

\* The later steps of an OFF keep Safe.
LEMMA OffStepSafe ==
    ASSUME NEW a \in Callers, Typed, Safe, OffStep(a)
    PROVE  Safe'
<1>0. a \in Workers
  BY Names
<1>1. UNCHANGED <<leases, guards>>
  BY DEF OffStep, OffWaits, OffLoadCancelled, OffStopped, OffDisables, OffFrame, holders
<1>2. CASE OffWaits(a)
  BY <1>0, <1>1, <1>2, OffFromIdleSafe DEF OffWaits
<1>3. CASE ~OffWaits(a)
  <2>1. UNCHANGED lock /\ (Goto(a, "idle") \/ Goto(a, "off_stopping") \/ Goto(a, "wait_off"))
    BY <1>3 DEF OffStep, OffLoadCancelled, OffStopped, OffDisables
  <2> QED BY <1>0, <1>1, <2>1, Step, Steps DEF Holding, Stopping
<1> QED BY <1>2, <1>3

\* The unloads of the scheduler and of the drain keep Safe.
LEMMA AutomaticSafe ==
    ASSUME Typed, Safe, SchedulerUnloads \/ DrainPolls
    PROVE  Safe'
<1>1. UNCHANGED <<leases, guards>>
  BY DEF SchedulerUnloads, DrainPolls, UnloadFrame, holders
<1>2. \/ UnloadRole("sched") \/ UnloadRole("drain")
      \/ Goto("drain", "idle") /\ UNCHANGED lock
  BY DEF SchedulerUnloads, DrainPolls
<1> QED BY <1>1, <1>2, Names, Steps, UnloadRoleSafe, Step DEF Holding, Stopping

\* Requests keep Safe: they take leases under the free lock.
LEMMA RequestSafe ==
    ASSUME NEW r \in Requests, Typed, Safe, RequestStep(r)
    PROVE  Safe'
<1>1. UNCHANGED <<lock, pc, guards>>
  BY DEF RequestStep, CheckRole, EnsureReady, AcquireLease, OpenStream,
         RefreshContinuation, Finish, Renew, ContinuationEnds, RequestFrame, workers, holders
<1>2. CASE AcquireLease(r)
  BY <1>1, <1>2, Grow DEF AcquireLease
<1>3. CASE ~AcquireLease(r)
  <2>1. leases' \subseteq leases
    BY <1>3 DEF RequestStep, CheckRole, EnsureReady, OpenStream, RefreshContinuation,
           Finish, Renew, ContinuationEnds, ReleaseLease, holders
  <2> QED BY <1>1, <2>1, Weaken
<1> QED BY <1>2, <1>3

\* Guards keep Safe: a switch takes its own under the free lock; a review takes its own
\* at any time, which SwitchExcludesUnload does not speak of.
LEMMA GuardSafe ==
    ASSUME NEW g \in GuardKinds, Typed, Safe, ClaimGuard(g) \/ ReleaseGuard(g)
    PROVE  Safe'
<1>1. UNCHANGED <<lock, pc, leases>>
  BY DEF ClaimGuard, ReleaseGuard, workers
<1>2. CASE LockFree
  BY <1>1, <1>2, Grow
<1>3. CASE ~LockFree
  <2>1. "profile" \in guards' => "profile" \in guards
    BY <1>3 DEF ClaimGuard, ReleaseGuard
  <2> QED BY <1>1, <2>1, Weaken
<1> QED BY <1>2, <1>3

\* close() keeps Safe: it cancels no worker that has begun to stop the unit.
LEMMA CloseSafe == ASSUME Typed, Safe, Close PROVE Safe'
<1>1. UNCHANGED <<leases, guards>>
  BY DEF Close, CloseBegins, CloseDrains, CloseLoads, CloseEnds, CloseFrame, holders
<1>2. ASSUME NEW a \in Workers, CancelWorker(a)
      PROVE  Safe'
  <2>1. CASE pc[a] \in Stopping
    BY <1>1, <1>2, <2>1, Weaken DEF CancelWorker
  <2>2. CASE pc[a] \notin Stopping
    <3>1. \A b \in Workers : pc'[b] \in Holding => pc'[b] = pc[b] /\ b # a
      BY <1>2, <2>2 DEF CancelWorker, Goto, Typed, WorkersTyped, Holding, Stopping
    <3>2. \A b \in Workers : pc'[b] \in Holding => lock' = lock
      BY <1>2, <2>2, <3>1 DEF CancelWorker, Safe, LockIsKept
    <3> QED BY <1>1, <3>1, <3>2, Weaken
  <2> QED BY <2>1, <2>2
<1>3. CASE UNCHANGED workers
  BY <1>1, <1>3, Weaken DEF workers
<1> QED BY <1>2, <1>3, Names DEF Close, CloseBegins, CloseDrains, CloseLoads, CloseEnds

\* The crash, start-up, the load and the surroundings keep Safe.
LEMMA RestSafe ==
    ASSUME Typed, Safe, Crash \/ StartUp \/ LoadStep \/ OutsideStep
    PROVE  Safe'
<1>1. CASE Crash
  <2>1. \A b \in Workers : pc'[b] \notin Holding
    BY <1>1 DEF Crash, Holding, Stopping
  <2> QED BY <1>1, <2>1, Weaken DEF Crash, holders
<1>2. CASE StartUpDisables
  BY <1>2, SetDisabledSafe, Names DEF StartUpDisables
<1>3. CASE RecoverLeases \/ ReconcileManaged \/ StartUpEnds
  BY <1>3, Weaken DEF RecoverLeases, ReconcileManaged, StartUpEnds, workers, holders
<1>4. CASE LoadStep
  BY <1>4, Weaken DEF LoadStep, LoadNeverRuns, LoadBegins, LoadCursor, LoadStarted,
         LoadAdvances, LoadBreaks, LoadFrame, workers, holders
<1>5. CASE OutsideStep
  BY <1>5, Weaken DEF OutsideStep, UnitStarts, UnitFails, ProfileScript, OtherRoleFails,
          ResetAutomation, Surroundings, workers, holders
<1> QED BY <1>1, <1>2, <1>3, <1>4, <1>5 DEF StartUp

\* The inductive invariant.
IInv == Typed /\ Safe

\* It holds initially.
LEMMA InitIInv == Init => IInv
<1>1. Init => Safe
  BY DEF Init, Safe, LockIsKept, UnloadsOnlyUnused, GuardKeepsUnit, Holding, Stopping
<1> QED BY <1>1, InitTyped DEF IInv

\* Every step keeps it.
LEMMA NextIInv == IInv /\ [Next]_vars => IInv'
<1> SUFFICES ASSUME IInv, [Next]_vars PROVE Safe'
  BY NextTyped DEF IInv
<1>1. CASE UNCHANGED vars
  BY <1>1, Weaken DEF IInv, vars, workers, holders
<1> QED BY <1>1, Names, RequestSafe, OperatorSafe, UnloadStepSafe, OffStepSafe,
       GuardSafe, AutomaticSafe, CloseSafe, RestSafe
        DEF IInv, Next, OutsideStep

\* The record, the holders and the workers always agree in this way.
THEOREM Invariance == Spec => []IInv
<1> QED BY InitIInv, NextIInv, PTL DEF Spec

\* An admitted unload never stops a role that has a lease, and never runs beside
\* a profile switch, whoever decided it, however long ago, and whatever crashes,
\* fails or is cancelled in between (lifecycle.py:1939-1974, 1269-1320).
THEOREM UnloadsSpareUsers == Spec => []UnloadsAreSafe
<1>1. IInv => UnloadsAreSafe
  BY TypedImpliesTypeOK DEF IInv, Safe, GuardKeepsUnit, UnloadsAreSafe,
         SwitchExcludesUnload
<1> QED BY <1>1, Invariance, PTL

-----------------------------------------------------------------------------
(***************************************************************************)
(* The operator's switch and the latch are asked by the very step that     *)
(* acts, whatever was decided before: no invariant but the types is used.  *)
(***************************************************************************)
OffKept == ~desired /\ state' = "load_queued" => state = "load_queued"
LatchStops ==
    Latched => /\ load' = "starting" => load = "starting"
               /\ \A a \in Workers : pc'[a] = "stopping" => pc[a] = "stopping"

\* A load is queued by ensure_ready alone, which asks the operator's switch.
LEMMA QueuesAreAsked == ASSUME Next, state' = "load_queued" PROVE OffKept
<1>1. ASSUME EnsureReady PROVE OffKept
  BY <1>1 DEF EnsureReady, StartsLoad, Becomes, Stays, OffKept
<1>2. ASSUME NEW a, SetDisabled(a) \/ UnloadStep(a) \/ UnloadRole(a) \/ OffStep(a)
      PROVE  OffKept
  BY <1>2 DEF SetDisabled, record, DisableCold, UnloadRole, QueueUnload, QueueForDrain,
          AbortAndStop, StartDrain, UnloadStep, GetsLock, AdmitUnload, SampleFails, BeginStop,
          Stopped, CompleteUnload, FailUnload, Recover, OffStep, OffWaits, OffLoadCancelled,
          OffStopped, OffDisables, Becomes, Stays, OffKept
<1>3. ASSUME LoadStep PROVE OffKept
  BY <1>3 DEF LoadStep, LoadNeverRuns, LoadBegins, LoadCursor, LoadStarted, LoadAdvances,
          LoadBreaks, LaterPhases, FailLoad, Recover, Becomes, Stays, OffKept
<1>4. ASSUME NEW r, RequestStep(r) PROVE OffKept
  BY <1>1, <1>4 DEF RequestStep, CheckRole, AcquireLease, OpenStream, RefreshContinuation,
          Finish, Renew, ContinuationEnds, OffKept
<1>5. ASSUME NEW o, OperatorStep(o) PROVE OffKept
  BY <1>1, <1>2, <1>5 DEF OperatorStep, SwitchOff, SwitchOn, OnReopens, OnEnsures, Becomes,
          Stays, OffKept
<1>6. ASSUME NEW g, ClaimGuard(g) \/ ReleaseGuard(g) PROVE OffKept
  BY <1>6 DEF ClaimGuard, ReleaseGuard, OffKept
<1>7. ASSUME StartUp PROVE OffKept
  BY <1>2, <1>7 DEF StartUp, RecoverLeases, ReconcileManaged, StartUpDisables, StartUpEnds,
          Recover, Becomes, Stays, record, OffKept
<1>8. ASSUME SchedulerUnloads \/ DrainPolls PROVE OffKept
  BY <1>2, <1>8 DEF SchedulerUnloads, DrainPolls, record, OffKept
<1>9. ASSUME Crash \/ Close \/ OutsideStep PROVE OffKept
  BY <1>9 DEF Crash, Close, CloseBegins, CloseDrains, CloseLoads, CloseEnds, CloseFrame,
          OutsideStep, UnitStarts, UnitFails, ProfileScript, OtherRoleFails, ResetAutomation,
          Surroundings, record, OffKept
<1> QED BY <1>2, <1>3, <1>4, <1>5, <1>6, <1>7, <1>8, <1>9 DEF Next, OutsideStep

\* A worker that goes to a step other than "stopping" begins no stop.
LEMMA NoStopBegins ==
    ASSUME Typed, NEW a \in Workers, NEW step, step # "stopping",
           Goto(a, step) \/ StartDrain(a, step) \/ CancelDrain(a, step) \/ UNCHANGED pc
    PROVE  \A b \in Workers : pc'[b] = "stopping" => pc[b] = "stopping"
BY Names DEF Goto, StartDrain, CancelDrain, Typed, WorkersTyped

\* set_enabled(role, False), the call of _unload_role and the later steps of an
\* OFF begin no unload's stop, and start no load.
LEMMA CallsAreAsked ==
    ASSUME Typed, NEW a \in Workers, SetDisabled(a) \/ UnloadRole(a) \/ OffStep(a)
    PROVE  \A b \in Workers : pc'[b] = "stopping" => pc[b] = "stopping"
<1>1. ASSUME UnloadRole(a)
      PROVE  \A b \in Workers : pc'[b] = "stopping" => pc[b] = "stopping"
  BY <1>1, NoStopBegins DEF UnloadRole, QueueUnload
<1>2. ASSUME DisableCold(a) \/ QueueForDrain(a) \/ AbortAndStop(a)
      PROVE  \A b \in Workers : pc'[b] = "stopping" => pc[b] = "stopping"
  BY <1>2, NoStopBegins DEF DisableCold, QueueForDrain, AbortAndStop
<1>3. CASE SetDisabled(a)
  BY <1>1, <1>2, <1>3, NoStopBegins DEF SetDisabled, workers
<1>4. CASE OffStep(a)
  BY <1>2, <1>4, NoStopBegins DEF OffStep, OffWaits, OffLoadCancelled, OffStopped, OffDisables
<1> QED BY <1>1, <1>3, <1>4

\* Both a load and an unload ask the latch in the step that begins the start or
\* the stop.
LEMMA LatchIsAsked == ASSUME Typed, Next PROVE LatchStops
<1>1. ASSUME NEW a \in Workers, UnloadStep(a), Latched
      PROVE  \A b \in Workers : pc'[b] = "stopping" => pc[b] = "stopping"
  <2>1. CASE GetsLock(a)
    BY <2>1, NoStopBegins DEF GetsLock, QueueUnload
  <2>2. CASE ~GetsLock(a)
    BY <1>1, <2>2, NoStopBegins DEF UnloadStep, AdmitUnload, SampleFails, FailUnload,
       UnloadReturns, BeginStop, Stopped, CompleteUnload
  <2> QED BY <2>1, <2>2
<1>2. ASSUME NEW a \in Workers, UnloadStep(a) PROVE UNCHANGED load
  BY <1>2 DEF UnloadStep, GetsLock, AdmitUnload, SampleFails, BeginStop, Stopped,
     CompleteUnload, UnloadFrame, loader
<1>3. ASSUME NEW a \in Workers, SetDisabled(a) \/ OffStep(a) PROVE UNCHANGED load
  BY <1>3 DEF SetDisabled, loader, DisableCold, UnloadRole, AbortAndStop, OffStep, OffWaits,
     OffLoadCancelled, OffStopped, OffDisables
<1>4. ASSUME EnsureReady PROVE load' \in {load, "created"}
  BY <1>4 DEF EnsureReady, loader
<1>5. ASSUME LoadStep PROVE LatchStops
  BY <1>5 DEF LoadStep, LoadNeverRuns, LoadBegins, LoadCursor, LoadStarted, LoadAdvances,
     LoadBreaks, FailLoad, LoadEnds, LoadFrame, loader, workers, LatchStops
<1>6. ASSUME NEW r \in Requests, RequestStep(r) PROVE LatchStops
  BY <1>4, <1>6 DEF RequestStep, CheckRole, AcquireLease, OpenStream, RefreshContinuation,
     Finish, Renew, ContinuationEnds, RequestFrame, workers, loader, LatchStops
<1>7. ASSUME NEW o \in Operators, OperatorStep(o) PROVE LatchStops
  <2>1. o \in Workers
    BY Names
  <2>2. CASE SwitchOff(o)
    BY <1>3, <2>1, <2>2, CallsAreAsked DEF SwitchOff, LatchStops
  <2>3. CASE ~SwitchOff(o)
    BY <1>4, <1>7, <2>1, <2>3, NoStopBegins DEF OperatorStep, SwitchOn, OnReopens, OnEnsures,
       loader, LatchStops
  <2> QED BY <2>2, <2>3
<1>8. ASSUME NEW g \in GuardKinds, ClaimGuard(g) \/ ReleaseGuard(g) PROVE LatchStops
  BY <1>8 DEF ClaimGuard, ReleaseGuard, workers, loader, LatchStops
<1>9. ASSUME StartUp PROVE LatchStops
  BY <1>3, <1>9, Names, CallsAreAsked DEF StartUp, RecoverLeases, ReconcileManaged,
     StartUpDisables, StartUpEnds, workers, loader, LatchStops
<1>10. ASSUME SchedulerUnloads \/ DrainPolls PROVE LatchStops
  BY <1>10, Names, CallsAreAsked, NoStopBegins DEF SchedulerUnloads, DrainPolls, UnloadFrame,
     loader, LatchStops
<1>11. ASSUME Close PROVE LatchStops
  <2>1. UNCHANGED load
    BY <1>11 DEF Close, CloseBegins, CloseDrains, CloseLoads, CloseEnds, loader
  <2>2. \A b \in Workers : pc'[b] = "stopping" => pc[b] = "stopping"
    BY <1>11, Names, NoStopBegins DEF Close, CloseBegins, CloseDrains, CloseLoads, CloseEnds,
       CancelWorker, workers
  <2> QED BY <2>1, <2>2 DEF LatchStops
<1>12. ASSUME Crash \/ OutsideStep PROVE LatchStops
  BY <1>12 DEF Crash, LoadEnds, OutsideStep, UnitStarts, UnitFails, ProfileScript,
     OtherRoleFails, ResetAutomation, Surroundings, workers, loader, LatchStops
<1>13. ASSUME NEW a \in Callers, OffStep(a) PROVE LatchStops
  BY <1>3, <1>13, Names, CallsAreAsked DEF LatchStops
<1> QED BY <1>1, <1>2, <1>5, <1>6, <1>7, <1>8, <1>9, <1>10, <1>11, <1>12, <1>13
        DEF Next, OutsideStep, LatchStops

\* A role the operator switched off is not loaded again behind his back, and
\* after the latch neither a start nor an idle unload begins, although both may
\* change between the decision of a load or an unload and its act
\* (lifecycle.py:2206, 1939-1974).
THEOREM AutomationIsObeyed == Spec => AutomationObeys
<1>1. Typed /\ [Next]_vars =>
        /\ [~desired /\ state' = "load_queued" => state = "load_queued"]_vars
        /\ [Latched => /\ load' = "starting" => load = "starting"
                      /\ \A a \in Workers : pc'[a] = "stopping" => pc[a] = "stopping"]_vars
  BY QueuesAreAsked, LatchIsAsked DEF OffKept, LatchStops
<1>2. Spec => []Typed
  BY InitTyped, NextTyped, PTL DEF Spec
<1> QED BY <1>1, <1>2, PTL DEF Spec, AutomationObeys, OffIsKept, LatchStopsAutomation


-----------------------------------------------------------------------------
(***************************************************************************)
(* Whose work it is.  The lock, a load and a record that says something is *)
(* going on each have an owner, start-up and close() come alone, and so    *)
(* nobody starts a second load and close() leaves nothing behind.          *)
(***************************************************************************)
Begun == LoadingStates \ {"load_queued"}
Loading == {"cursor", "starting", "polling"}
Starting == {"down", "recovered", "reconciled", "disabling"}
Closing == {"closing", "draining", "unloading", "closed"}

\* Whoever has the lock samples or stops.
LockHasHolder == lock # "none" => pc[lock] \in Holding

\* A load that is out of _tasks is waited for by the OFF that cancelled it, and
\* which stays the operator's last word until then.
LoadIsOwned ==
    /\ load # "none" => registered \/ \E o \in Operators : pc[o] = "cancelling"
    /\ \A o \in Operators : pc[o] = "cancelling" => ~desired

\* Nobody but the start-up itself is at work before the gateway serves.
StartUpIsAlone ==
    /\ gateway \in Starting => load = "none" /\ \A o \in Operators : pc[o] = "idle"
    /\ pc["boot"] # "idle" => gateway = "disabling"

\* What close() has ended stays ended: the scheduler, then the drain, then the load.
CloseIsOrdered ==
    /\ gateway \in Closing => /\ pc["sched"] \in Stopping \cup {"idle"}
                              /\ \A o \in Operators : pc[o] = "idle"
    /\ gateway \in Closing \ {"closing"} =>
           pc["sched"] = "idle" /\ pc["drain"] \in Stopping \cup {"idle"}
    /\ gateway \in {"unloading", "closed"} => pc["drain"] = "idle"
    /\ gateway = "closed" => load = "none"

\* After reconciliation a record that says "unloading" or that a load has begun
\* has its unload or its load.
RecordIsWorkedOn ==
    gateway \notin {"down", "recovered"} =>
        /\ state = "unloading" => \E a \in Workers : pc[a] \in Stopping
        /\ state \in Begun => load \in Loading

Owned == /\ LockHasHolder /\ LoadIsOwned /\ StartUpIsAlone /\ CloseIsOrdered
         /\ RecordIsWorkedOn

\* Operator calls are serialised, as executor_admission_lock does it.
Serialised == \A o, p \in Operators : o = p

\* Where they are not, no OFF waits for its load while an ON goes on.
OnIsAlone ==
    \A o, p \in Operators :
        SwitchOn(o) \/ OnReopens(o) \/ OnEnsures(o) => pc[p] # "cancelling"

\* Workers other than those of A stay where they are.
OnlyMove(A) == \A b \in Workers \ A : pc'[b] = pc[b]

\* The workers are different actors.
LEMMA Actors ==
    /\ "boot" \notin Operators /\ "sched" \notin Operators /\ "drain" \notin Operators
    /\ "none" \notin Workers /\ Operators \subseteq Callers /\ Callers \subseteq Workers
    /\ "boot" \in Callers /\ "sched" \in Workers /\ "drain" \in Workers
    /\ "sched" \notin Callers /\ "drain" \notin Callers
BY LifecycleAssumption DEF Workers, Callers

\* Records of work, that no step but those named below writes.
Quiet == state' \in {"unloading"} \cup Begun => state' = state

\* queue_unload: the lock goes with the sampling.
LEMMA QueueUnloadMoves ==
    ASSUME NEW a \in Workers, NEW known, NEW wasQueued, Typed, LockHasHolder, LockFree,
           QueueUnload(a, known, wasQueued)
    PROVE  /\ OnlyMove({a}) /\ pc'[a] \in {"idle", "sampling"}
           /\ LockHasHolder' /\ Quiet
<1>1. OnlyMove({a}) /\ pc'[a] \in {"idle", "sampling"}
  BY DEF QueueUnload, Goto, OnlyMove, Typed, WorkersTyped
<1>2. lock' = "none" \/ (lock' = a /\ pc'[a] = "sampling")
  BY DEF QueueUnload, Goto, LockFree, Typed, WorkersTyped
<1>3. Quiet
  BY DEF QueueUnload, Quiet, Becomes, Begun, LoadingStates
<1> QED BY <1>1, <1>2, <1>3 DEF LockHasHolder, Holding

\* The call of _unload_role by one that does not have the lock.
LEMMA UnloadRoleMoves ==
    ASSUME NEW a \in Workers, Typed, LockHasHolder, pc[a] \notin Holding, UnloadRole(a)
    PROVE  /\ OnlyMove({a}) /\ pc'[a] \in {"idle", "sampling", "wait_unload"}
           /\ LockHasHolder' /\ Quiet
<1>1. CASE LockFree
  BY <1>1, QueueUnloadMoves DEF UnloadRole
<1>2. CASE ~LockFree
  <2>1. OnlyMove({a}) /\ pc'[a] = "wait_unload" /\ UNCHANGED <<state, lock>>
    BY <1>2 DEF UnloadRole, Goto, OnlyMove, Typed, WorkersTyped
  <2> QED BY <2>1 DEF LockHasHolder, Quiet, OnlyMove, Typed, WorkersTyped
<1> QED BY <1>1, <1>2

\* An unload that returns gives the lock back.
LEMMA ReturnMoves ==
    ASSUME NEW a \in Workers, Typed, UnloadReturns(a)
    PROVE  OnlyMove({a}) /\ pc'[a] = "idle" /\ LockHasHolder'
BY DEF UnloadReturns, Goto, OnlyMove, Typed, WorkersTyped, LockHasHolder

\* A worker that goes on without giving up what it holds.
LEMMA GotoMoves ==
    ASSUME NEW a \in Workers, NEW step, Typed, Goto(a, step)
    PROVE  /\ OnlyMove({a}) /\ pc'[a] = step
           /\ LockHasHolder /\ UNCHANGED lock /\ (pc[a] \in Holding => step \in Holding)
                => LockHasHolder'
<1>1. OnlyMove({a}) /\ pc'[a] = step
  BY DEF Goto, OnlyMove, Typed, WorkersTyped
<1> QED BY <1>1 DEF OnlyMove, LockHasHolder, Typed, WorkersTyped

\* An unload after its call: nobody else moves, and the record says "unloading"
\* just as long as somebody stops the unit for it.
LEMMA UnloadStepMoves ==
    ASSUME NEW a \in Workers, Typed, LockHasHolder, UnloadStep(a)
    PROVE  /\ OnlyMove({a}) /\ LockHasHolder'
           /\ UNCHANGED <<gateway, desired, load, registered>>
           /\ pc[a] \in {"wait_unload"} \cup Holding /\ pc'[a] \in {"idle"} \cup Holding
           /\ pc[a] \in Stopping => pc'[a] \in Stopping \cup {"idle"}
           /\ state' \in Begun => state' = state
           /\ state' = "unloading" =>
                 pc'[a] \in Stopping \/ (state' = state /\ pc[a] \notin Stopping)
<1>0. UNCHANGED <<gateway, desired, load, registered>>
  BY DEF UnloadStep, GetsLock, AdmitUnload, SampleFails, BeginStop, Stopped,
         CompleteUnload, UnloadFrame, loader
<1>1. CASE GetsLock(a)
  <2>1. LockFree /\ QueueUnload(a, FALSE, a \in queued) /\ pc[a] = "wait_unload"
    BY <1>1 DEF GetsLock
  <2> QED BY <1>0, <2>1, QueueUnloadMoves DEF Quiet, Holding, Stopping
<1>2. CASE AdmitUnload(a)
  <2>1. CASE Admissible(a)
    <3>1. Goto(a, "admitted") /\ UNCHANGED lock /\ state' = "unloading"
      BY <1>2, <2>1 DEF AdmitUnload, Becomes
    <3> QED BY <1>0, <1>2, <3>1, GotoMoves DEF AdmitUnload, Holding, Stopping, Begun,
           LoadingStates
  <2>2. CASE ~Admissible(a)
    <3>1. UnloadReturns(a) /\ state' \in {state, "ready"}
      BY <1>2, <2>2 DEF AdmitUnload, Becomes
    <3> QED BY <1>0, <1>2, <3>1, ReturnMoves DEF AdmitUnload, Holding, Stopping, Begun,
           LoadingStates
  <2> QED BY <2>1, <2>2
<1>a. ASSUME FailUnload(a)
      PROVE  UnloadReturns(a) /\ state' \notin {"unloading"} \cup Begun
  <2>1. UnloadReturns(a) /\ state' = IF state \in MayFail THEN "failed" ELSE state
    BY <1>a DEF FailUnload, Becomes
  <2>2. {"unloading"} \cup Begun \subseteq MayFail /\ "failed" \notin {"unloading"} \cup Begun
    BY DEF MayFail, Begun, LoadingStates, States
  <2> QED BY <2>1, <2>2
<1>3. CASE SampleFails(a)
  <2>1. pc[a] \in Holding /\ FailUnload(a)
    BY <1>3 DEF SampleFails, Holding, Stopping
  <2> QED BY <1>0, <1>a, <2>1, ReturnMoves
<1>4. CASE BeginStop(a)
  <2>0. pc[a] = "admitted"
    BY <1>4 DEF BeginStop
  <2>1. CASE Latched
    <3>1. UnloadReturns(a) /\ state' = "ready"
      BY <1>4, <2>1 DEF BeginStop, Recover, Becomes, Stays
    <3> QED BY <1>0, <2>0, <3>1, ReturnMoves DEF Holding, Stopping, Begun, LoadingStates
  <2>2. CASE ~Latched
    <3>1. Goto(a, "stopping") /\ UNCHANGED <<lock, state>>
      BY <1>4, <2>2 DEF BeginStop, Stays
    <3> QED BY <1>0, <2>0, <3>1, GotoMoves DEF Holding, Stopping
  <2> QED BY <2>1, <2>2
<1>5. CASE Stopped(a)
  <2>0. pc[a] = "stopping"
    BY <1>5 DEF Stopped
  <2>1. CASE Goto(a, "sampling_after") /\ UNCHANGED <<lock, state>>
    BY <1>0, <2>0, <2>1, GotoMoves DEF Holding, Stopping
  <2>2. CASE FailUnload(a)
    BY <1>0, <1>a, <2>0, <2>2, ReturnMoves DEF Holding, Stopping
  <2> QED BY <1>5, <2>1, <2>2 DEF Stopped, Stays
<1>6. CASE CompleteUnload(a)
  <2>0. pc[a] = "sampling_after"
    BY <1>6 DEF CompleteUnload
  <2>1. CASE FailUnload(a)
    BY <1>0, <1>a, <2>0, <2>1, ReturnMoves DEF Holding, Stopping
  <2>2. CASE ~FailUnload(a)
    <3>1. UnloadReturns(a) /\ state' \in {"cold", "disabled"}
      BY <1>6, <2>2 DEF CompleteUnload, Becomes
    <3> QED BY <1>0, <2>0, <3>1, ReturnMoves DEF Holding, Stopping, Begun, LoadingStates
  <2> QED BY <2>1, <2>2
<1> QED BY <1>1, <1>2, <1>3, <1>4, <1>5, <1>6 DEF UnloadStep

\* set_enabled(role, False) moves the caller, and may start the drain; an
\* operator that cancels a load takes it out of _tasks.
LEMMA SetDisabledMoves ==
    ASSUME NEW a \in Callers, Typed, LockHasHolder, pc[a] = "idle", SetDisabled(a)
    PROVE  /\ OnlyMove({a, "drain"}) /\ LockHasHolder' /\ Quiet /\ UNCHANGED load
           /\ pc'["drain"] = pc["drain"] \/ (pc["drain"] = "idle" /\ pc'["drain"] = "polling")
           /\ \/ UNCHANGED registered /\ pc'[a] # "cancelling"
              \/ load # "none" /\ pc'[a] = "cancelling"
<1>0. a \in Workers /\ a # "drain" /\ "drain" \in Workers
  BY Actors
<1>a. "idle" \notin Holding /\ "polling" \notin Holding
  BY DEF Holding, Stopping
<1>b. ASSUME Goto(a, "idle") \/ Goto(a, "wait_cold") \/ Goto(a, "wait_queue")
               \/ Goto(a, "cancelling") \/ Goto(a, "off_stopping"), UNCHANGED lock
      PROVE  OnlyMove({a}) /\ LockHasHolder' /\ UNCHANGED pc["drain"]
  BY <1>0, <1>a, <1>b, GotoMoves DEF OnlyMove
<1>c. ASSUME StartDrain(a, "idle"), UNCHANGED lock
      PROVE  /\ OnlyMove({a, "drain"}) /\ pc'[a] = "idle" /\ LockHasHolder'
             /\ pc'["drain"] = pc["drain"] \/ (pc["drain"] = "idle" /\ pc'["drain"] = "polling")
  <2>1. /\ OnlyMove({a, "drain"}) /\ pc'[a] = "idle"
        /\ pc'["drain"] = IF pc["drain"] = "idle" THEN "polling" ELSE pc["drain"]
    BY <1>0, <1>c DEF StartDrain, OnlyMove, Typed, WorkersTyped
  <2>2. lock \notin {"none", a} => pc'[lock] = pc[lock] \/ pc[lock] = "idle"
    BY <1>0, <2>1 DEF OnlyMove, Typed, WorkersTyped
  <2> QED BY <1>a, <1>c, <2>1, <2>2 DEF LockHasHolder
<1>1. CASE UNCHANGED <<record, workers, loader>>
  BY <1>1 DEF record, workers, loader, OnlyMove, LockHasHolder, Quiet
<1>2. CASE DisableCold(a) /\ UNCHANGED loader
  <2>1. /\ UNCHANGED <<lock, load, registered>> /\ state' \in {state, "disabled"}
        /\ Goto(a, "idle") \/ Goto(a, "wait_cold")
    BY <1>2 DEF DisableCold, loader, record, Becomes, Stays
  <2>2. pc'[a] \in {"idle", "wait_cold"}
    BY <1>0, <2>1, GotoMoves
  <2> QED BY <1>b, <2>1, <2>2 DEF Quiet, OnlyMove, Begun, LoadingStates
<1>3. CASE UnloadRole(a) /\ UNCHANGED loader
  <2>1. /\ OnlyMove({a}) /\ pc'[a] \in {"idle", "sampling", "wait_unload"}
        /\ LockHasHolder' /\ Quiet
    BY <1>0, <1>3, <1>a, UnloadRoleMoves
  <2> QED BY <1>0, <1>3, <2>1 DEF OnlyMove, loader
<1>4. CASE StartDrain(a, "idle") /\ UNCHANGED <<record, lock, queued, loader>>
  BY <1>4, <1>c DEF record, loader, Quiet
<1>5. CASE QueueForDrain(a) /\ UNCHANGED loader
  <2>1. /\ UNCHANGED <<lock, load, registered>> /\ state' \in {state, "unload_queued"}
        /\ StartDrain(a, "idle") \/ Goto(a, "wait_queue")
    BY <1>5 DEF QueueForDrain, loader, record, Becomes, Stays
  <2>2. Quiet
    BY <2>1 DEF Quiet, Begun, LoadingStates
  <2>3. CASE StartDrain(a, "idle")
    BY <1>c, <2>1, <2>2, <2>3
  <2>4. CASE Goto(a, "wait_queue")
    BY <1>0, <1>b, <2>1, <2>2, <2>4, GotoMoves DEF OnlyMove
  <2> QED BY <2>1, <2>3, <2>4
<1>6. CASE AbortAndStop(a)
  <2>1. /\ UNCHANGED <<lock, load, state>>
        /\ \/ LoadTask /\ Goto(a, "cancelling")
           \/ UNCHANGED registered /\ Goto(a, "off_stopping")
    BY <1>6 DEF AbortAndStop, record
  <2>2. CASE LoadTask /\ Goto(a, "cancelling")
    BY <1>0, <1>b, <2>1, <2>2, GotoMoves DEF OnlyMove, Quiet, LoadTask
  <2>3. CASE UNCHANGED registered /\ Goto(a, "off_stopping")
    BY <1>0, <1>b, <2>1, <2>3, GotoMoves DEF OnlyMove, Quiet
  <2> QED BY <2>1, <2>2, <2>3
<1> QED BY <1>1, <1>2, <1>3, <1>4, <1>5, <1>6 DEF SetDisabled

\* So do the later steps of an OFF, each from the step it waited in.
LEMMA OffStepMoves ==
    ASSUME NEW a \in Callers, Typed, LockHasHolder, OffStep(a)
    PROVE  /\ OnlyMove({a, "drain"}) /\ LockHasHolder' /\ Quiet
           /\ UNCHANGED <<gateway, desired, load, registered>>
           /\ pc["drain"] = pc'["drain"] \/ (pc["drain"] = "idle" /\ pc'["drain"] = "polling")
           /\ pc[a] \notin {"idle"} \cup Stopping /\ pc'[a] # "cancelling"
           /\ pc[a] = "cancelling" => load = "none"
<1>0. a \in Workers /\ a # "drain" /\ "drain" \in Workers
  BY Actors
<1>a. {"idle", "polling", "wait_cold", "wait_queue", "cancelling", "off_stopping", "wait_off"}
        \cap Holding = {} /\ Stopping \subseteq Holding
  BY DEF Holding, Stopping
<1>b. UNCHANGED <<gateway, desired, load, registered>>
  BY DEF OffStep, OffWaits, OffLoadCancelled, OffStopped, OffDisables, OffFrame, loader
<1>c. pc[a] \in {"wait_cold", "wait_queue", "cancelling", "off_stopping", "wait_off"}
  BY DEF OffStep, OffWaits, OffLoadCancelled, OffStopped, OffDisables
<1>1. ASSUME NEW step \in {"idle", "off_stopping", "wait_off"}, Goto(a, step), UNCHANGED lock
      PROVE  /\ OnlyMove({a}) /\ LockHasHolder' /\ UNCHANGED pc["drain"]
             /\ pc'[a] # "cancelling"
  BY <1>0, <1>a, <1>c, <1>1, GotoMoves DEF OnlyMove
<1>2. CASE OffWaits(a)
  <2>1. LockFree
    BY <1>2 DEF OffWaits
  <2>2. CASE DisableCold(a)
    <3>1. Goto(a, "idle") /\ UNCHANGED lock /\ state' \in {state, "disabled"}
      BY <2>1, <2>2 DEF DisableCold, Becomes, Stays
    <3> QED BY <1>a, <1>b, <1>c, <1>1, <1>2, <3>1
            DEF OffWaits, OnlyMove, Quiet, Begun, LoadingStates
  <2>3. CASE QueueForDrain(a)
    <3>1. /\ StartDrain(a, "idle") /\ UNCHANGED lock /\ state' \in {state, "unload_queued"}
      BY <2>1, <2>3 DEF QueueForDrain, Becomes, Stays
    <3>2. /\ OnlyMove({a, "drain"}) /\ pc'[a] = "idle"
          /\ pc'["drain"] = IF pc["drain"] = "idle" THEN "polling" ELSE pc["drain"]
      BY <1>0, <3>1 DEF StartDrain, OnlyMove, Typed, WorkersTyped
    <3>3. LockHasHolder' /\ Quiet
      BY <2>1, <3>1 DEF LockFree, LockHasHolder, Quiet, Begun, LoadingStates
    <3> QED BY <1>a, <1>b, <1>c, <1>2, <3>2, <3>3 DEF OffWaits
  <2> QED BY <1>2, <2>2, <2>3 DEF OffWaits
<1>3. CASE ~OffWaits(a)
  <2>1. /\ UNCHANGED lock /\ state' \in {state, "disabled"}
        /\ Goto(a, "idle") \/ Goto(a, "off_stopping") \/ Goto(a, "wait_off")
        /\ pc[a] = "cancelling" => load = "none"
    BY <1>3 DEF OffStep, OffLoadCancelled, OffStopped, OffDisables, Becomes, Stays, record
  <2>2. Quiet
    BY <2>1 DEF Quiet, Begun, LoadingStates
  <2> QED BY <1>a, <1>b, <1>c, <1>1, <2>1, <2>2 DEF OnlyMove
<1> QED BY <1>2, <1>3

\* ensure_ready queues one load, and puts it into _tasks.
LEMMA EnsureReadyMoves ==
    ASSUME EnsureReady
    PROVE  /\ Quiet /\ UNCHANGED <<gateway, lock>>
           /\ \/ UNCHANGED <<load, registered>>
              \/ StartsLoad /\ load' = "created" /\ registered'
BY DEF EnsureReady, Quiet, Becomes, Stays, loader, Begun, LoadingStates

\* A load that has begun is in a state of its own as long as its task is alive.
LEMMA LoadStepMoves ==
    ASSUME LoadStep
    PROVE  /\ UNCHANGED <<gateway, desired, lock, pc>>
           /\ load # "none" /\ (load' = "none" \/ (load' \in Loading /\ UNCHANGED registered))
           /\ state' = "unloading" => state = "unloading"
           /\ state' \in Begun => load' \in Loading \/ (load = "created" /\ state \in Begun)
<1>0. UNCHANGED <<gateway, desired, lock, pc>>
  BY DEF LoadStep, LoadNeverRuns, LoadBegins, LoadCursor, LoadStarted, LoadAdvances,
         LoadBreaks, LoadFrame, workers
<1>a. ASSUME FailLoad
      PROVE  load' = "none" /\ state' \notin {"unloading"} \cup Begun
  <2>1. load' = "none" /\ state' = IF state \in MayFail THEN "failed" ELSE state
    BY <1>a DEF FailLoad, LoadEnds, Becomes, Stays
  <2>2. {"unloading"} \cup Begun \subseteq MayFail /\ "failed" \notin {"unloading"} \cup Begun
    BY DEF MayFail, Begun, LoadingStates, States
  <2> QED BY <2>1, <2>2
<1>1. CASE LoadNeverRuns
  BY <1>0, <1>1 DEF LoadNeverRuns, LoadEnds, Stays
<1>2. CASE LoadBegins
  BY <1>0, <1>a, <1>2 DEF LoadBegins, Becomes, Loading
<1>3. CASE LoadCursor
  BY <1>0, <1>a, <1>3 DEF LoadCursor, LoadEnds, Recover, Becomes, Stays, Loading, Begun,
     LoadingStates
<1>4. CASE LoadStarted
  BY <1>0, <1>a, <1>4 DEF LoadStarted, Stays, Loading
<1>5. CASE LoadAdvances
  <2>1. CASE "load" \in fresh
    <3>1. PICK s \in LaterPhases(state) :
             IF s = "ready" THEN unit = "active" /\ Becomes(s, {}) /\ LoadEnds
                            ELSE Becomes(s, {"load"}) /\ UNCHANGED loader
      BY <1>5, <2>1 DEF LoadAdvances
    <3>2. s # "unloading"
      BY DEF LaterPhases
    <3> QED BY <1>0, <1>5, <3>1, <3>2 DEF LoadAdvances, Becomes, LoadEnds, loader, Loading,
               Begun, LoadingStates
  <2> QED BY <1>0, <1>a, <1>5, <2>1 DEF LoadAdvances
<1>6. CASE LoadBreaks
  BY <1>0, <1>a, <1>6 DEF LoadBreaks
<1> QED BY <1>1, <1>2, <1>3, <1>4, <1>5, <1>6 DEF LoadStep

\* Cancelled, a worker that has begun to stop goes on, and any other ends.
LEMMA CancelWorkerMoves ==
    ASSUME NEW a \in Workers, Typed, LockHasHolder, CancelWorker(a)
    PROVE  /\ OnlyMove({a}) /\ LockHasHolder'
           /\ pc'[a] \in Stopping \cup {"idle"} /\ (pc[a] \in Stopping => pc'[a] = pc[a])
<1>1. CASE pc[a] \in Stopping
  BY <1>1 DEF CancelWorker, OnlyMove, LockHasHolder
<1>2. CASE pc[a] \notin Stopping
  <2>1. OnlyMove({a}) /\ pc'[a] = "idle" /\ lock' = IF lock = a THEN "none" ELSE lock
    BY <1>2, GotoMoves DEF CancelWorker
  <2>2. LockHasHolder'
    BY <2>1 DEF LockHasHolder, OnlyMove, Typed, WorkersTyped
  <2> QED BY <1>2, <2>1, <2>2
<1> QED BY <1>1, <1>2

\* The calls of an ON move the operator, and may cancel the drain.
LEMMA OnMoves ==
    ASSUME NEW o \in Operators, Typed, LockHasHolder,
           SwitchOn(o) \/ OnReopens(o) \/ OnEnsures(o)
    PROVE  /\ OnlyMove({o, "drain"}) /\ LockHasHolder' /\ Quiet /\ UNCHANGED gateway
           /\ \/ UNCHANGED pc["drain"]
              \/ pc["drain"] \notin Stopping /\ pc'["drain"] = "idle"
           /\ pc[o] \in {"idle", "wait_on", "wait_ensure"}
           /\ pc[o] = "idle" => Up
           /\ pc'[o] # "cancelling"
           /\ \/ UNCHANGED <<load, registered>>
              \/ StartsLoad /\ load' = "created" /\ registered'
           /\ UNCHANGED desired \/ pc[o] = "idle"
<1>0. o \in Workers /\ o # "drain" /\ "drain" \in Workers
  BY Actors
<1>a. {"idle", "wait_on", "wait_ensure"} \cap Holding = {} /\ Stopping \subseteq Holding
  BY DEF Holding, Stopping
<1>1. CASE SwitchOn(o)
  <2>0. /\ UNCHANGED <<state, gateway, load, registered>> /\ CancelDrain(o, "wait_on")
        /\ pc[o] = "idle" /\ Up
    BY <1>1 DEF SwitchOn, loader
  <2>1. CASE pc["drain"] \in Stopping
    <3>1. Goto(o, "wait_on") /\ UNCHANGED lock
      BY <2>0, <2>1 DEF CancelDrain
    <3> QED BY <1>0, <1>a, <2>0, <3>1, GotoMoves DEF OnlyMove, Quiet
  <2>2. CASE pc["drain"] \notin Stopping
    <3>1. /\ OnlyMove({o, "drain"}) /\ pc'[o] = "wait_on" /\ pc'["drain"] = "idle"
          /\ lock' = IF lock = "drain" THEN "none" ELSE lock
      BY <1>0, <2>0, <2>2 DEF CancelDrain, OnlyMove, Typed, WorkersTyped
    <3>2. LockHasHolder'
      BY <1>a, <2>0, <3>1 DEF LockHasHolder, OnlyMove, Typed, WorkersTyped
    <3> QED BY <2>0, <2>2, <3>1, <3>2 DEF Quiet
  <2> QED BY <2>1, <2>2
<1>2. CASE OnReopens(o)
  <2>1. /\ Goto(o, "wait_ensure") /\ pc[o] = "wait_on"
        /\ UNCHANGED <<lock, gateway, load, registered, desired>>
        /\ state' \in {state, "ready", "cold"}
    BY <1>2 DEF OnReopens, Becomes, Stays, loader, OffFrame
  <2> QED BY <1>0, <1>a, <2>1, GotoMoves DEF OnlyMove, Quiet, Begun, LoadingStates
<1>3. CASE OnEnsures(o)
  <2>1. Goto(o, "idle") /\ pc[o] = "wait_ensure" /\ EnsureReady /\ UNCHANGED desired
    BY <1>3 DEF OnEnsures
  <2> QED BY <1>0, <1>a, <2>1, GotoMoves, EnsureReadyMoves DEF OnlyMove
<1> QED BY <1>1, <1>2, <1>3

\* A step that changes nothing of all this keeps it.
LEMMA OwnedStays ==
    ASSUME Owned, UNCHANGED <<state, gateway, desired, lock, pc, load, registered>>
    PROVE  Owned'
BY DEF Owned, LockHasHolder, LoadIsOwned, StartUpIsAlone, CloseIsOrdered, RecordIsWorkedOn

\* The steps of an unload.
LEMMA UnloadStepOwned ==
    ASSUME NEW a \in Workers, Typed, Safe, Owned, UnloadStep(a)
    PROVE  Owned'
<1>0. {"idle", "cancelling"} \cap ({"wait_unload"} \cup Holding) = {} /\ Stopping \subseteq Holding
  BY DEF Holding, Stopping
<1>1. /\ OnlyMove({a}) /\ LockHasHolder'
      /\ UNCHANGED <<gateway, desired, load, registered>>
      /\ pc[a] \in {"wait_unload"} \cup Holding /\ pc'[a] \in {"idle"} \cup Holding
      /\ pc[a] \in Stopping => pc'[a] \in Stopping \cup {"idle"}
      /\ state' \in Begun => state' = state
      /\ state' = "unloading" =>
            pc'[a] \in Stopping \/ (state' = state /\ pc[a] \notin Stopping)
  BY UnloadStepMoves DEF Owned
<1>2. pc[a] \notin {"idle", "cancelling"} /\ pc'[a] # "cancelling"
  BY <1>0, <1>1
<1>3. LoadIsOwned'
  BY <1>1, <1>2, Actors DEF Owned, LoadIsOwned, OnlyMove
<1>4. StartUpIsAlone'
  BY <1>1, <1>2, Actors DEF Owned, StartUpIsAlone, OnlyMove
<1>5. CloseIsOrdered'
  BY <1>1, <1>2, Actors DEF Owned, CloseIsOrdered, OnlyMove
<1>6. RecordIsWorkedOn'
  BY <1>1 DEF Owned, RecordIsWorkedOn, OnlyMove
<1> QED BY <1>1, <1>3, <1>4, <1>5, <1>6 DEF Owned

\* The later steps of an OFF.
LEMMA OffStepOwned ==
    ASSUME NEW a \in Callers, Typed, Owned, OffStep(a)
    PROVE  Owned'
<1>0. {"idle", "polling"} \cap Stopping = {}
  BY DEF Stopping
<1>1. /\ OnlyMove({a, "drain"}) /\ LockHasHolder' /\ Quiet
      /\ UNCHANGED <<gateway, desired, load, registered>>
      /\ pc["drain"] = pc'["drain"] \/ (pc["drain"] = "idle" /\ pc'["drain"] = "polling")
      /\ pc[a] \notin {"idle"} \cup Stopping /\ pc'[a] # "cancelling"
      /\ pc[a] = "cancelling" => load = "none"
  BY OffStepMoves DEF Owned
<1>2. a \in Workers /\ (a \in Operators \/ a = "boot")
  BY Actors DEF Callers
<1>3. LoadIsOwned'
  BY <1>1, Actors DEF Owned, LoadIsOwned, OnlyMove
<1>4. StartUpIsAlone'
  BY <1>1, <1>2, Actors DEF Owned, StartUpIsAlone, OnlyMove
<1>5. gateway \notin Closing
  BY <1>1, <1>2 DEF Owned, CloseIsOrdered, StartUpIsAlone, Closing
<1>6. CloseIsOrdered'
  BY <1>1, <1>5 DEF CloseIsOrdered, Closing
<1>7. RecordIsWorkedOn'
  BY <1>0, <1>1, Actors DEF Owned, RecordIsWorkedOn, OnlyMove, Quiet
<1> QED BY <1>1, <1>3, <1>4, <1>6, <1>7 DEF Owned

\* set_enabled(role, False), by an operator: while it waits for a load that it
\* cancelled nobody says ON.
LEMMA SwitchOffOwned ==
    ASSUME NEW o \in Operators, Typed, Owned, SwitchOff(o)
    PROVE  Owned'
<1>0. {"idle", "polling"} \cap Stopping = {}
  BY DEF Stopping
<1>1. Up /\ pc[o] = "idle" /\ ~desired' /\ SetDisabled(o) /\ UNCHANGED gateway
  BY DEF SwitchOff
<1>2. /\ OnlyMove({o, "drain"}) /\ LockHasHolder' /\ Quiet /\ UNCHANGED load
      /\ pc'["drain"] = pc["drain"] \/ (pc["drain"] = "idle" /\ pc'["drain"] = "polling")
      /\ \/ UNCHANGED registered /\ pc'[o] # "cancelling"
         \/ load # "none" /\ pc'[o] = "cancelling"
  BY <1>1, SetDisabledMoves, Actors DEF Owned
<1>3. LoadIsOwned'
  BY <1>1, <1>2, Actors DEF Owned, LoadIsOwned, OnlyMove
<1>4. StartUpIsAlone'
  BY <1>1, <1>2, Actors DEF Owned, StartUpIsAlone, OnlyMove, Up, Starting
<1>5. CloseIsOrdered'
  BY <1>1 DEF CloseIsOrdered, Closing, Up
<1>6. RecordIsWorkedOn'
  BY <1>0, <1>1, <1>2, Actors DEF Owned, RecordIsWorkedOn, OnlyMove, Quiet
<1> QED BY <1>2, <1>3, <1>4, <1>5, <1>6 DEF Owned

\* set_enabled(role, True): it queues a load when there is none.
LEMMA OnOwned ==
    ASSUME NEW o \in Operators, OnIsAlone, Typed, Owned,
           SwitchOn(o) \/ OnReopens(o) \/ OnEnsures(o)
    PROVE  Owned'
<1>0. {"idle", "wait_on", "wait_ensure"} \cap Stopping = {}
  BY DEF Stopping
<1>1. /\ OnlyMove({o, "drain"}) /\ LockHasHolder' /\ Quiet /\ UNCHANGED gateway
      /\ \/ UNCHANGED pc["drain"]
         \/ pc["drain"] \notin Stopping /\ pc'["drain"] = "idle"
      /\ pc[o] \in {"idle", "wait_on", "wait_ensure"}
      /\ pc[o] = "idle" => Up
      /\ pc'[o] # "cancelling"
      /\ \/ UNCHANGED <<load, registered>>
         \/ StartsLoad /\ load' = "created" /\ registered'
      /\ UNCHANGED desired \/ pc[o] = "idle"
  BY OnMoves DEF Owned
<1>2. \A p \in Operators : pc[p] # "cancelling" /\ pc'[p] # "cancelling"
  BY <1>1, Actors DEF OnIsAlone, OnlyMove
<1>3. LoadIsOwned'
  BY <1>1, <1>2 DEF Owned, LoadIsOwned
<1>4. gateway \notin Closing \cup Starting
  BY <1>1 DEF Owned, CloseIsOrdered, StartUpIsAlone, Closing, Starting, Up
<1>5. StartUpIsAlone'
  BY <1>1, <1>4, Actors DEF Owned, StartUpIsAlone, OnlyMove
<1>6. CloseIsOrdered'
  BY <1>1, <1>4 DEF CloseIsOrdered, Closing
<1>7. state' \in Begun => load' \in Loading
  BY <1>1, <1>4 DEF Owned, RecordIsWorkedOn, Quiet, StartsLoad, Begun, LoadingStates, Starting
<1>8. RecordIsWorkedOn'
  BY <1>0, <1>1, <1>7, Actors DEF Owned, RecordIsWorkedOn, OnlyMove, Quiet
<1> QED BY <1>1, <1>3, <1>5, <1>6, <1>8 DEF Owned

\* A request that asks for the role queues a load when there is none.
LEMMA RequestOwned ==
    ASSUME NEW r \in Requests, Typed, Owned, RequestStep(r)
    PROVE  Owned'
<1>1. CASE CheckRole(r)
  <2>1. Up /\ EnsureReady /\ UNCHANGED <<desired, pc>>
    BY <1>1 DEF CheckRole
  <2>2. /\ Quiet /\ UNCHANGED <<gateway, lock>>
        /\ \/ UNCHANGED <<load, registered>>
           \/ StartsLoad /\ load' = "created" /\ registered'
    BY <2>1, EnsureReadyMoves
  <2>3. LockHasHolder' /\ LoadIsOwned'
    BY <2>1, <2>2 DEF Owned, LockHasHolder, LoadIsOwned
  <2>4. StartUpIsAlone' /\ CloseIsOrdered'
    BY <2>1, <2>2 DEF Owned, StartUpIsAlone, CloseIsOrdered, Starting, Closing, Up
  <2>5. state' \in Begun => load' \in Loading
    BY <2>1, <2>2 DEF Owned, RecordIsWorkedOn, Quiet, StartsLoad, Begun, LoadingStates, Up
  <2>6. RecordIsWorkedOn'
    BY <2>1, <2>2, <2>5 DEF Owned, RecordIsWorkedOn, Quiet
  <2> QED BY <2>3, <2>4, <2>6 DEF Owned
<1>2. CASE ~CheckRole(r)
  <2>1. UNCHANGED <<state, gateway, desired, lock, pc, load, registered>>
    BY <1>2 DEF RequestStep, AcquireLease, OpenStream, RefreshContinuation, Finish, Renew,
       ContinuationEnds, RequestFrame, workers, loader
  <2> QED BY <2>1, OwnedStays
<1> QED BY <1>1, <1>2

\* The unloads that the scheduler and the drain begin.
LEMMA AutomaticOwned ==
    ASSUME Typed, Owned, SchedulerUnloads \/ DrainPolls
    PROVE  Owned'
<1>0. {"idle", "polling"} \cap Holding = {} /\ Stopping \subseteq Holding
      /\ "idle" \notin Stopping /\ "polling" \notin Stopping
  BY DEF Holding, Stopping
<1>1. UNCHANGED <<gateway, desired, load, registered>>
  BY DEF SchedulerUnloads, DrainPolls, UnloadFrame, loader
<1>2. ASSUME NEW a \in {"sched", "drain"}, OnlyMove({a}), LockHasHolder', Quiet,
             pc[a] \notin Stopping,
             a = "sched" => Up, a = "drain" => pc[a] = "polling"
      PROVE  Owned'
  <2>1. LoadIsOwned' /\ StartUpIsAlone'
    BY <1>1, <1>2, Actors DEF Owned, LoadIsOwned, StartUpIsAlone, OnlyMove
  <2>2. CloseIsOrdered'
    <3>1. CASE Up
      BY <1>1, <3>1 DEF CloseIsOrdered, Closing, Up
    <3>2. CASE a = "drain"
      <4>1. gateway \notin Closing \ {"closing"}
        BY <1>0, <1>2, <3>2 DEF Owned, CloseIsOrdered
      <4>2. pc'["sched"] = pc["sched"] /\ \A o \in Operators : pc'[o] = pc[o]
        BY <1>2, <3>2, Actors DEF OnlyMove
      <4> QED BY <1>1, <4>1, <4>2 DEF Owned, CloseIsOrdered, Closing
    <3> QED BY <1>2, <3>1, <3>2
  <2>3. RecordIsWorkedOn'
    BY <1>1, <1>2 DEF Owned, RecordIsWorkedOn, OnlyMove, Quiet
  <2> QED BY <1>2, <2>1, <2>2, <2>3 DEF Owned
<1>3. CASE SchedulerUnloads
  <2>1. Up /\ pc["sched"] = "idle" /\ UnloadRole("sched")
    BY <1>3 DEF SchedulerUnloads
  <2>2. OnlyMove({"sched"}) /\ LockHasHolder' /\ Quiet
    BY <1>0, <2>1, UnloadRoleMoves, Actors DEF Owned
  <2> QED BY <1>0, <1>2, <2>1, <2>2
<1>4. CASE DrainPolls
  <2>1. /\ pc["drain"] = "polling"
        /\ UnloadRole("drain") \/ (Goto("drain", "idle") /\ UNCHANGED <<record, lock>>)
    BY <1>4 DEF DrainPolls
  <2>2. CASE UnloadRole("drain")
    <3>1. OnlyMove({"drain"}) /\ LockHasHolder' /\ Quiet
      BY <1>0, <2>1, <2>2, UnloadRoleMoves, Actors DEF Owned
    <3> QED BY <1>0, <1>2, <2>1, <3>1
  <2>3. CASE Goto("drain", "idle") /\ UNCHANGED <<record, lock>>
    <3>1. OnlyMove({"drain"}) /\ LockHasHolder' /\ Quiet
      BY <1>0, <2>1, <2>3, GotoMoves, Actors DEF Owned, Quiet, record
    <3> QED BY <1>0, <1>2, <2>1, <3>1
  <2> QED BY <2>1, <2>2, <2>3
<1> QED BY <1>3, <1>4

\* The steps of the load itself.
LEMMA LoadStepOwned == ASSUME Typed, Owned, LoadStep PROVE Owned'
<1>1. /\ UNCHANGED <<gateway, desired, lock, pc>>
      /\ load # "none" /\ (load' = "none" \/ (load' \in Loading /\ UNCHANGED registered))
      /\ state' = "unloading" => state = "unloading"
      /\ state' \in Begun => load' \in Loading \/ (load = "created" /\ state \in Begun)
  BY LoadStepMoves
<1>2. "created" \notin Loading
  BY DEF Loading
<1>3. LockHasHolder' /\ LoadIsOwned'
  BY <1>1 DEF Owned, LockHasHolder, LoadIsOwned
<1>4. StartUpIsAlone' /\ CloseIsOrdered'
  BY <1>1 DEF Owned, StartUpIsAlone, CloseIsOrdered
<1>5. RecordIsWorkedOn'
  BY <1>1, <1>2 DEF Owned, RecordIsWorkedOn
<1> QED BY <1>3, <1>4, <1>5 DEF Owned

\* close(), step by step: what it cancels and waits for is over when it goes on.
LEMMA CloseOwned == ASSUME Typed, Owned, Close PROVE Owned'
<1>1. UNCHANGED <<state, desired, load, registered>>
  BY DEF Close, CloseBegins, CloseDrains, CloseLoads, CloseEnds, CloseFrame, loader
<1>2. gateway \notin Starting /\ gateway' \notin Starting /\ gateway \notin {"down", "recovered"}
      /\ pc["boot"] = "idle"
  BY DEF Close, CloseBegins, CloseDrains, CloseLoads, CloseEnds, Up, Starting, Owned,
     StartUpIsAlone
<1>3. ASSUME NEW a \in {"sched", "drain"}, OnlyMove({a}), LockHasHolder',
             pc[a] \in Stopping => pc'[a] = pc[a]
      PROVE  LockHasHolder' /\ LoadIsOwned' /\ StartUpIsAlone' /\ RecordIsWorkedOn'
  <2>1. LoadIsOwned' /\ StartUpIsAlone'
    BY <1>1, <1>2, <1>3, Actors DEF Owned, LoadIsOwned, StartUpIsAlone, OnlyMove
  <2>2. RecordIsWorkedOn'
    BY <1>1, <1>2, <1>3 DEF Owned, RecordIsWorkedOn, OnlyMove
  <2> QED BY <1>3, <2>1, <2>2
<1>4. CASE CloseBegins
  <2>1. /\ gateway' = "closing" /\ CancelWorker("sched")
        /\ \A o \in Operators : pc[o] = "idle"
    BY <1>4 DEF CloseBegins
  <2>2. /\ OnlyMove({"sched"}) /\ LockHasHolder' /\ pc'["sched"] \in Stopping \cup {"idle"}
        /\ pc["sched"] \in Stopping => pc'["sched"] = pc["sched"]
    BY <2>1, CancelWorkerMoves, Actors DEF Owned
  <2>3. CloseIsOrdered'
    BY <2>1, <2>2, Actors DEF CloseIsOrdered, OnlyMove
  <2> QED BY <1>3, <2>2, <2>3 DEF Owned
<1>5. CASE CloseDrains
  <2>1. /\ gateway = "closing" /\ gateway' = "draining" /\ CancelWorker("drain")
        /\ pc["sched"] = "idle"
    BY <1>5 DEF CloseDrains
  <2>2. /\ OnlyMove({"drain"}) /\ LockHasHolder' /\ pc'["drain"] \in Stopping \cup {"idle"}
        /\ pc["drain"] \in Stopping => pc'["drain"] = pc["drain"]
    BY <2>1, CancelWorkerMoves, Actors DEF Owned
  <2>3. CloseIsOrdered'
    BY <2>1, <2>2, Actors DEF Owned, CloseIsOrdered, OnlyMove, Closing
  <2> QED BY <1>3, <2>2, <2>3 DEF Owned
<1>6. CASE CloseLoads \/ CloseEnds
  <2>1. UNCHANGED <<lock, pc>>
    BY <1>6 DEF CloseLoads, CloseEnds, workers
  <2>2. LockHasHolder' /\ LoadIsOwned' /\ StartUpIsAlone' /\ RecordIsWorkedOn'
    BY <1>1, <1>2, <2>1 DEF Owned, LockHasHolder, LoadIsOwned, StartUpIsAlone, RecordIsWorkedOn
  <2>3. CloseIsOrdered'
    BY <1>1, <1>6, <2>1 DEF CloseLoads, CloseEnds, Owned, CloseIsOrdered, Closing
  <2> QED BY <2>2, <2>3 DEF Owned
<1> QED BY <1>4, <1>5, <1>6 DEF Close

\* A crash, and the start-up after it.
LEMMA RestartOwned == ASSUME Typed, Owned, Crash \/ StartUp PROVE Owned'
<1>1. CASE Crash
  <2>1. /\ gateway' = "down" /\ lock' = "none" /\ load' = "none"
        /\ \A a \in Workers : pc'[a] = "idle"
    BY <1>1 DEF Crash, LoadEnds
  <2> QED BY <2>1, Actors DEF Owned, LockHasHolder, LoadIsOwned, StartUpIsAlone,
             CloseIsOrdered, RecordIsWorkedOn, Closing
<1>2. CASE RecoverLeases \/ ReconcileManaged \/ StartUpEnds
  <2>1. /\ UNCHANGED <<desired, lock, pc, load, registered>>
        /\ gateway \in Starting /\ gateway' \notin Closing
    BY <1>2 DEF RecoverLeases, ReconcileManaged, StartUpEnds, workers, loader, Starting, Closing
  <2>2. LockHasHolder' /\ LoadIsOwned' /\ CloseIsOrdered'
    BY <2>1 DEF Owned, LockHasHolder, LoadIsOwned, CloseIsOrdered, Closing
  <2>3. StartUpIsAlone'
    BY <1>2, <2>1 DEF RecoverLeases, ReconcileManaged, StartUpEnds, Owned, StartUpIsAlone,
       Starting
  <2>4. RecordIsWorkedOn'
    <3>1. CASE RecoverLeases
      BY <3>1 DEF RecoverLeases, RecordIsWorkedOn
    <3>2. CASE ReconcileManaged
      <4>1. state' \in {"cold", "ready", "failed"}
        BY <3>2 DEF ReconcileManaged, Recover, Becomes, Stays
      <4> QED BY <4>1 DEF RecordIsWorkedOn, Begun, LoadingStates
    <3>3. CASE StartUpEnds
      BY <2>1, <3>3 DEF StartUpEnds, record, Owned, RecordIsWorkedOn
    <3> QED BY <1>2, <3>1, <3>2, <3>3
  <2> QED BY <2>2, <2>3, <2>4 DEF Owned
<1>3. CASE StartUpDisables
  <2>0. {"idle", "polling"} \cap Stopping = {}
    BY DEF Stopping
  <2>1. /\ gateway = "reconciled" /\ gateway' = "disabling" /\ UNCHANGED desired
        /\ SetDisabled("boot") /\ load = "none" /\ pc["boot"] = "idle"
        /\ \A o \in Operators : pc[o] = "idle"
    BY <1>3 DEF StartUpDisables, Owned, StartUpIsAlone, Starting
  <2>2. /\ OnlyMove({"boot", "drain"}) /\ LockHasHolder' /\ Quiet /\ UNCHANGED load
        /\ pc'["drain"] = pc["drain"] \/ (pc["drain"] = "idle" /\ pc'["drain"] = "polling")
    BY <2>1, SetDisabledMoves, Actors DEF Owned
  <2>3. \A o \in Operators : pc'[o] = "idle"
    BY <2>1, <2>2, Actors DEF OnlyMove
  <2>4. LoadIsOwned' /\ StartUpIsAlone' /\ CloseIsOrdered'
    BY <2>1, <2>2, <2>3 DEF LoadIsOwned, StartUpIsAlone, CloseIsOrdered, Closing
  <2>5. RecordIsWorkedOn'
    BY <2>0, <2>1, <2>2, Actors DEF Owned, RecordIsWorkedOn, OnlyMove, Quiet
  <2> QED BY <2>2, <2>4, <2>5 DEF Owned
<1> QED BY <1>1, <1>2, <1>3 DEF StartUp

\* Guards and the surroundings.
LEMMA RestOwned ==
    ASSUME Typed, Owned, OutsideStep \/ \E g \in GuardKinds : ClaimGuard(g) \/ ReleaseGuard(g)
    PROVE  Owned'
<1>1. UNCHANGED <<state, gateway, desired, lock, pc, load, registered>>
  BY DEF OutsideStep, UnitStarts, UnitFails, ProfileScript, OtherRoleFails, ResetAutomation,
     Surroundings, ClaimGuard, ReleaseGuard, record, workers, loader
<1> QED BY <1>1, OwnedStays

\* What holds initially.
LEMMA InitOwned == Init => Owned
BY Actors DEF Init, Owned, LockHasHolder, LoadIsOwned, StartUpIsAlone, CloseIsOrdered,
   RecordIsWorkedOn, Closing, Callers, Workers

\* Every step keeps it.
LEMMA NextOwned == ASSUME OnIsAlone, IInv, Owned, [Next]_vars PROVE Owned'
<1>1. CASE UNCHANGED vars
  BY <1>1, OwnedStays DEF vars, record, workers, loader
<1> QED BY <1>1, RequestOwned, SwitchOffOwned, OnOwned, UnloadStepOwned, OffStepOwned,
           AutomaticOwned, LoadStepOwned, CloseOwned, RestartOwned, RestOwned
        DEF IInv, Next, OperatorStep, OutsideStep

\* What the owners make sure of.
LEMMA OwnedImpliesWorkIsOwned == Typed /\ Owned => WorkIsOwned
<1> SUFFICES ASSUME Typed, Owned PROVE WorkIsOwned
  OBVIOUS
<1>1. SingleFlight
  BY DEF Owned, LoadIsOwned, SingleFlight, StartsLoad, LoadTask
<1>2. ASSUME gateway = "closed" PROVE \A a \in Workers : pc[a] = "idle"
  BY <1>2 DEF Owned, CloseIsOrdered, StartUpIsAlone, Closing, Workers, Callers
<1>3. ASSUME gateway = "closed" PROVE LockFree
  BY <1>2, <1>3 DEF Owned, LockHasHolder, LockFree, Holding, Stopping, Typed, WorkersTyped
<1>4. ASSUME gateway = "closed"
      PROVE  load = "none" /\ state \notin {"unloading"} \cup Begun
  BY <1>2, <1>4 DEF Owned, CloseIsOrdered, RecordIsWorkedOn, Stopping, Loading
<1> QED BY <1>1, <1>2, <1>3, <1>4 DEF WorkIsOwned, ClosedIsQuiet, Begun

\* Where operator calls are serialised, no second load begins beside one that
\* is still alive, and close() leaves no task, no lock and no record of work
\* behind, wherever the unloads, drains, loads and operator calls stood that it
\* cancelled or waited for (lifecycle.py:2206, 2424).
THEOREM WorkHasItsOwner == ASSUME Serialised PROVE Spec => []WorkIsOwned
<1>1. Init => IInv /\ Owned
  BY InitIInv, InitOwned
<1>2. OnIsAlone
  BY DEF Serialised, OnIsAlone, SwitchOn, OnReopens, OnEnsures
<1>3. IInv /\ Owned /\ [Next]_vars => (IInv /\ Owned)'
  BY <1>2, NextIInv, NextOwned
<1>4. IInv /\ Owned => WorkIsOwned
  BY OwnedImpliesWorkIsOwned DEF IInv
<1> QED BY <1>1, <1>3, <1>4, PTL DEF Spec

-----------------------------------------------------------------------------
(***************************************************************************)
(* Several roles (RoleIdling), for every number of them and every set of   *)
(* turns and switches, all thresholds and a clock without bound: nobody    *)
(* waits in a circle for the roles' locks, several roles are leased        *)
(* jointly, and only an idleness confirmed by two checks stops a role.     *)
(* Nothing above depends on the constants of RoleIdling, and nothing below *)
(* on those of Lifecycle.                                                  *)
(***************************************************************************)
(***************************************************************************)
(* Types.                                                                  *)
(***************************************************************************)
RecordType == [state : {"ready", "unload_queued", "unloading", "cold"},
               since : Nat, used : Nat, moved : Nat]
RoundType == [at : {"asleep", "checking", "locking", "sampling", "stopping"},
              todo : Seq(Roles), now : Nat, known : BOOLEAN, used : Nat]

RecordsTyped == clock \in Nat /\ records \in [Roles -> RecordType]
LocksTyped == keeper \in [Roles -> Takers \cup {"none", "scheduler"}]
TakersTyped ==
    /\ rows \in [Roles -> SUBSET Turns]
    /\ taker \in [Takers -> [at : {"idle", "locking", "holding"}, roles : SUBSET Roles]]
ChecksTyped ==
    /\ idleState \in [Roles -> [activity : Nat, count : 0..2]]
    /\ quiet \in [Roles -> 0..2]
    /\ round \in RoundType
    /\ round.at # "asleep" => round.todo # <<>>

RolesTyped == RecordsTyped /\ LocksTyped /\ TakersTyped /\ ChecksTyped

\* A non-empty set of naturals has a smallest element.
LEMMA NatMin ==
    ASSUME NEW T, T \subseteq Nat, T # {}
    PROVE  \E m \in T : \A n \in T : m <= n
<1> DEFINE R == {ss \in Nat \X Nat : ss[1] < ss[2]}
<1>1. IsWellFoundedOn(R, Nat)
  BY NatLessThanWellFounded DEF OpToRel
<1>2. \E m \in T : \A n \in T : ~ (<<n, m>> \in R)
  <2> HIDE DEF R
  <2> QED BY <1>1, WFMin
<1>3. PICK m \in T : \A n \in T : ~ (<<n, m>> \in R)
  BY <1>2
<1>4. ASSUME NEW n \in T PROVE m <= n
  <2>1. ~ (n < m)
    BY <1>3
  <2> QED BY <2>1
<1> QED BY <1>4

\* A set of roles has a first one in the order of their names.
LEMMA FirstIsFirst ==
    ASSUME NEW set, set \subseteq Roles, set # {}
    PROVE  First(set) \in set /\ \A q \in set : First(set) <= q
<1>1. set \subseteq Nat
  BY RoleIdlingAssumption DEF Roles
<1>2. \E r \in set : \A q \in set : r <= q
  BY <1>1, NatMin
<1> QED BY <1>2 DEF First

\* The role under check is a role.
LEMMA CheckedIsRole == ASSUME RolesTyped, round.at # "asleep" PROVE Checked \in Roles
BY DEF RolesTyped, ChecksTyped, RoundType, Checked

\* The round goes on with the next role, or ends.
LEMMA NextRoleTyped ==
    ASSUME RolesTyped, round.at # "asleep"
    PROVE  /\ NextRole \in RoundType
           /\ NextRole.at \in {"asleep", "checking"}
           /\ NextRole.at # "asleep" => NextRole.todo # <<>>
<1>1. round.todo \in Seq(Roles) /\ round.todo # <<>> /\ round \in RoundType
  BY DEF RolesTyped, ChecksTyped, RoundType
<1>2. CASE Len(round.todo) = 1
  BY <1>2 DEF NextRole, NoRound, RoundType
<1>3. CASE Len(round.todo) # 1
  <2>1. Tail(round.todo) \in Seq(Roles) /\ Tail(round.todo) # <<>>
    <3>1. Len(Tail(round.todo)) = Len(round.todo) - 1 /\ Tail(round.todo) \in Seq(Roles)
      BY <1>1, HeadTailProperties
    <3>2. Len(round.todo) \in Nat /\ Len(round.todo) # 0
      BY <1>1, EmptySeq
    <3>3. Len(Tail(round.todo)) # 0
      BY <1>3, <3>1, <3>2
    <3> QED BY <3>1, <3>3, EmptySeq
  <2>2. NextRole = [at |-> "checking", todo |-> Tail(round.todo), now |-> round.now,
                    known |-> FALSE, used |-> 0]
    BY <1>1, <1>3 DEF NextRole, RoundType
  <2> QED BY <1>1, <2>1, <2>2 DEF RoundType
<1> QED BY <1>2, <1>3

\* The order of the checks is a sequence of roles.
LEMMA OrderTyped == CheckOrder \in Seq(Roles) /\ CheckOrder # <<>>
<1>1. CheckOrder \in [1..RoleCount -> Roles]
  BY RoleIdlingAssumption DEF CheckOrder, Roles, Executor
<1>2. CheckOrder \in Seq(Roles) /\ Len(CheckOrder) = RoleCount
  BY <1>1, RoleIdlingAssumption DEF CheckOrder
<1> QED BY <1>2, RoleIdlingAssumption

\* A count is 0, 1 or 2.
LEMMA CountTyped ==
    ASSUME NEW r, NEW row, NEW blocked, NEW now, NEW previous, NEW threshold
    PROVE  NextCount(r, row, blocked, now, previous, threshold) \in 0..2
BY DEF NextCount

\* An activity is a date, or 0.
LEMMA ActivityTyped == ASSUME NEW row \in RecordType PROVE Activity(row) \in Nat
BY DEF RecordType, Activity

\* So is the date a role is given.
LEMMA NowTyped == ASSUME RolesTyped, NEW r PROVE Now(r) \in Nat
BY DEF RolesTyped, RecordsTyped, Now

\* Giving leases back keeps the types.
LEMMA GiveBackTyped ==
    ASSUME RolesTyped, NEW x \in Takers, GiveBack(x)
    PROVE  records' \in [Roles -> RecordType] /\ TakersTyped' /\ quiet' \in [Roles -> 0..2]
<1>1. \A r \in Roles : [records[r] EXCEPT !.used = Now(r)] \in RecordType
  BY NowTyped DEF RolesTyped, RecordsTyped, RecordType
<1>2. records' \in [Roles -> RecordType]
  BY <1>1 DEF GiveBack, RolesTyped, RecordsTyped
<1>3. TakersTyped'
  BY DEF GiveBack, RolesTyped, TakersTyped, NoRoles
<1>4. quiet' \in [Roles -> 0..2]
  BY DEF GiveBack, RolesTyped, ChecksTyped
<1> QED BY <1>2, <1>3, <1>4

\* So does a move of a role from state to state.
LEMMA MovesTyped ==
    ASSUME RolesTyped, NEW r \in Roles, NEW s \in {"ready", "unload_queued", "unloading", "cold"},
           records' = Moved(r, s) \/ GoesCold(r)
    PROVE  records' \in [Roles -> RecordType]
<1>1. Cold \in RecordType /\ [records[r] EXCEPT !.state = s, !.moved = Now(r)] \in RecordType
  BY NowTyped DEF RolesTyped, RecordsTyped, RecordType, Cold
<1> QED BY <1>1 DEF Moved, GoesCold, RolesTyped, RecordsTyped

\* Asking the policy once more keeps the types.
LEMMA ReconsidersTyped ==
    ASSUME RolesTyped, round.at # "asleep", records' \in [Roles -> RecordType], Reconsiders(Checked)
    PROVE  /\ idleState' \in [Roles -> [activity : Nat, count : 0..2]]
           /\ round' \in RoundType /\ (round'.at # "asleep" => round'.todo # <<>>)
<1>1. PICK threshold \in Thresholds :
         idleState' = [idleState EXCEPT ![Checked] =
             [activity |-> Activity(records'[Checked]),
              count |-> NextCount(Checked, records'[Checked], rows[Checked] # {}, round.now, @,
                                  threshold)]]
  BY DEF Reconsiders
<1>2. Activity(records'[Checked]) \in Nat
  BY CheckedIsRole, ActivityTyped
<1>3. round' \in RoundType /\ (round'.at # "asleep" => round'.todo # <<>>)
  BY NextRoleTyped DEF Reconsiders
<1>4. idleState' \in [Roles -> [activity : Nat, count : 0..2]]
  BY <1>1, <1>2, CountTyped DEF RolesTyped, ChecksTyped
<1> QED BY <1>3, <1>4

\* A step of a turn or a switch keeps the types.
LEMMA TakerTyped ==
    ASSUME RolesTyped, NEW x \in Takers, Asks(x) \/ TakesLock(x) \/ OpensStream(x) \/ Releases(x)
    PROVE  RolesTyped'
<1>1. UNCHANGED <<clock, idleState, round>>
  BY DEF Asks, TakesLock, OpensStream, Releases, TakerFrame
<1>2. CASE Asks(x) \/ OpensStream(x)
  <2>1. UNCHANGED <<records, keeper, rows, quiet>>
    BY <1>2 DEF Asks, OpensStream
  <2>2. taker' \in [Takers -> [at : {"idle", "locking", "holding"}, roles : SUBSET Roles]]
    <3>1. ASSUME NEW R \in SUBSET Roles
          PROVE  [taker EXCEPT ![x] = [at |-> "locking", roles |-> R]]
                   \in [Takers -> [at : {"idle", "locking", "holding"}, roles : SUBSET Roles]]
      BY DEF RolesTyped, TakersTyped
    <3>2. CASE Asks(x)
      <4>1. PICK asked \in (IF x \in Turns THEN (SUBSET Roles) \ {{}} ELSE {Roles}) :
               taker' = [taker EXCEPT ![x] = [at |-> "locking", roles |-> asked]]
        BY <3>2 DEF Asks
      <4> QED BY <3>1, <4>1
    <3>3. CASE OpensStream(x)
      BY <3>1, <3>3, RoleIdlingAssumption DEF OpensStream, Roles, Executor
    <3> QED BY <1>2, <3>2, <3>3
  <2> QED BY <1>1, <2>1, <2>2 DEF RolesTyped, RecordsTyped, LocksTyped, TakersTyped, ChecksTyped
<1>3. CASE Releases(x)
  BY <1>1, <1>3, GiveBackTyped DEF Releases, RolesTyped, RecordsTyped, LocksTyped, ChecksTyped
<1>4. CASE TakesLock(x)
  <2>1. keeper' \in [Roles -> Takers \cup {"none", "scheduler"}]
    BY <1>4 DEF TakesLock, RolesTyped, LocksTyped
  <2>2. records' \in [Roles -> RecordType] /\ TakersTyped' /\ quiet' \in [Roles -> 0..2]
    <3>1. CASE GiveBack(x)
      BY <3>1, GiveBackTyped
    <3>2. CASE UNCHANGED <<records, taker, rows, quiet>>
      BY <3>2 DEF RolesTyped, RecordsTyped, TakersTyped, ChecksTyped
    <3>3. CASE taker' = [taker EXCEPT ![x] = NoRoles] /\ UNCHANGED <<records, rows, quiet>>
      BY <3>3 DEF RolesTyped, RecordsTyped, TakersTyped, ChecksTyped, NoRoles
    <3>4. CASE /\ rows' = [r \in Roles |->
                         IF r \in taker[x].roles THEN rows[r] \cup {x} ELSE rows[r]]
               /\ quiet' = [r \in Roles |-> IF r \in taker[x].roles THEN 0 ELSE quiet[r]]
               /\ taker' = [taker EXCEPT ![x].at = "holding"] /\ UNCHANGED records /\ x \in Turns
      BY <3>4 DEF RolesTyped, RecordsTyped, TakersTyped, ChecksTyped
    <3> QED BY <1>4, <3>1, <3>2, <3>3, <3>4 DEF TakesLock, TakesRows
  <2> QED BY <1>1, <2>1, <2>2 DEF RolesTyped, RecordsTyped, LocksTyped, ChecksTyped
<1> QED BY <1>2, <1>3, <1>4

\* A step of the scheduler keeps the types.
LEMMA RoundTyped ==
    ASSUME RolesTyped, RoundBegins \/ ChecksRole \/ QueuesUnload \/ AdmitsUnload \/ CompletesUnload
    PROVE  RolesTyped'
<1>1. CASE RoundBegins
  <2>1. round' \in RoundType /\ round'.todo = CheckOrder
    BY <1>1, OrderTyped DEF RoundBegins, NoRound, RoundType, RolesTyped, RecordsTyped
  <2> QED BY <1>1, <2>1, OrderTyped DEF RoundBegins, RolesTyped, RecordsTyped, LocksTyped,
     TakersTyped, ChecksTyped
<1>2. CASE ChecksRole
  <2>0. round.at # "asleep" /\ Checked \in Roles
    BY <1>2, CheckedIsRole DEF ChecksRole
  <2>1. PICK threshold \in Thresholds :
         LET r     == Checked
             count == NextCount(r, records[r], rows[r] # {}, round.now, idleState[r], threshold)
         IN  /\ idleState' = [idleState EXCEPT ![r] =
                                [activity |-> Activity(records[r]), count |-> count]]
             /\ quiet' = [quiet EXCEPT ![r] =
                            IF @ < 2 /\ r \in Unloadable /\ rows[r] = {} THEN @ + 1 ELSE @]
             /\ round' = IF count < 2 THEN NextRole
                         ELSE [round EXCEPT !.at = "locking", !.known = TRUE,
                                            !.used = records[r].used]
    BY <1>2 DEF ChecksRole
  <2>2. idleState' \in [Roles -> [activity : Nat, count : 0..2]]
    BY <2>0, <2>1, CountTyped, ActivityTyped DEF RolesTyped, RecordsTyped, ChecksTyped
  <2>3. quiet' \in [Roles -> 0..2]
    <3>1. quiet[Checked] < 2 => quiet[Checked] + 1 \in 0..2
      BY <2>0 DEF RolesTyped, ChecksTyped
    <3> QED BY <2>0, <2>1, <3>1 DEF RolesTyped, ChecksTyped
  <2>4. round' \in RoundType /\ (round'.at # "asleep" => round'.todo # <<>>)
    <3>1. records[Checked].used \in Nat
      BY <2>0 DEF RolesTyped, RecordsTyped, RecordType
    <3>2. ASSUME NEW u \in Nat
          PROVE  /\ [round EXCEPT !.at = "locking", !.known = TRUE, !.used = u] \in RoundType
                 /\ [round EXCEPT !.at = "locking", !.known = TRUE, !.used = u].todo = round.todo
      BY DEF RolesTyped, ChecksTyped, RoundType
    <3> QED BY <2>0, <2>1, <3>1, <3>2, NextRoleTyped DEF RolesTyped, ChecksTyped, RoundType
  <2> QED BY <1>2, <2>2, <2>3, <2>4 DEF ChecksRole, RolesTyped, RecordsTyped, LocksTyped,
     TakersTyped, ChecksTyped
<1>3. CASE QueuesUnload \/ AdmitsUnload \/ CompletesUnload
  <2>0. round.at # "asleep" /\ Checked \in Roles /\ UNCHANGED <<clock, rows, taker, quiet>>
    BY <1>3, CheckedIsRole DEF QueuesUnload, AdmitsUnload, CompletesUnload, SchedulerFrame
  <2>1. records' \in [Roles -> RecordType]
    BY <1>3, <2>0, MovesTyped DEF QueuesUnload, AdmitsUnload, CompletesUnload, RolesTyped,
       RecordsTyped
  <2>2. keeper' \in [Roles -> Takers \cup {"none", "scheduler"}]
    BY <1>3, <2>0 DEF QueuesUnload, AdmitsUnload, CompletesUnload, RolesTyped, LocksTyped
  <2>3. /\ idleState' \in [Roles -> [activity : Nat, count : 0..2]]
        /\ round' \in RoundType /\ (round'.at # "asleep" => round'.todo # <<>>)
    <3>1. CASE Reconsiders(Checked)
      BY <2>0, <2>1, <3>1, ReconsidersTyped
    <3>2. CASE \E at \in {"sampling", "stopping"} :
                  round' = [round EXCEPT !.at = at] /\ UNCHANGED idleState
      BY <2>0, <3>2 DEF RolesTyped, ChecksTyped, RoundType
    <3> QED BY <1>3, <3>1, <3>2 DEF QueuesUnload, AdmitsUnload, CompletesUnload
  <2> QED BY <2>0, <2>1, <2>2, <2>3 DEF RolesTyped, RecordsTyped, LocksTyped, TakersTyped,
     ChecksTyped
<1> QED BY <1>1, <1>2, <1>3

\* A tick, a load and an OFF keep the types.
LEMMA OtherwiseTyped ==
    ASSUME RolesTyped, Ticks \/ \E r \in Roles : MovesOtherwise(r)
    PROVE  RolesTyped'
<1>1. CASE Ticks
  BY <1>1 DEF Ticks, RolesTyped, RecordsTyped, LocksTyped, TakersTyped, ChecksTyped
<1>2. ASSUME NEW r \in Roles, MovesOtherwise(r) PROVE RolesTyped'
  <2>1. Ready(r) \in RecordType /\ Cold \in RecordType
    BY NowTyped DEF Ready, Cold, RecordType
  <2>2. records' \in [Roles -> RecordType] /\ quiet' \in [Roles -> 0..2]
    BY <1>2, <2>1 DEF MovesOtherwise, GoesCold, RolesTyped, RecordsTyped, ChecksTyped
  <2>3. round' \in RoundType /\ (round'.at # "asleep" => round'.todo # <<>>)
    <3>1. round' = round \/ round' = [round EXCEPT !.known = FALSE]
      BY <1>2 DEF MovesOtherwise
    <3> QED BY <3>1 DEF RolesTyped, ChecksTyped, RoundType
  <2> QED BY <1>2, <2>2, <2>3 DEF MovesOtherwise, RolesTyped, RecordsTyped, LocksTyped, TakersTyped,
             ChecksTyped
<1> QED BY <1>1, <1>2

\* The types hold at first.
LEMMA InitRolesTyped == IdleInit => RolesTyped
<1> SUFFICES ASSUME IdleInit PROVE RolesTyped
  OBVIOUS
<1>1. \A r \in Roles : Ready(r) \in RecordType
  BY DEF IdleInit, Ready, Now, RecordType
<1>2. RecordsTyped /\ LocksTyped /\ TakersTyped
  BY <1>1 DEF IdleInit, RecordsTyped, LocksTyped, TakersTyped, NoRoles
<1>3. ChecksTyped
  BY DEF IdleInit, ChecksTyped, NoRound, RoundType
<1> QED BY <1>2, <1>3 DEF RolesTyped

-----------------------------------------------------------------------------
(***************************************************************************)
(* The locks and the leases.                                               *)
(***************************************************************************)
\* Whoever has locks is still taking them, and has those that come first.
LocksAscend ==
    \A x \in Takers, r \in Roles : keeper[r] = x =>
        /\ taker[x].at = "locking" /\ r \in taker[x].roles
        /\ \A q \in Missing(x) : r < q
LockersMiss == \A x \in Takers : taker[x].at = "locking" => Missing(x) # {}

\* A role the scheduler has begun to unload is locked by it.
SchedulerKeeps ==
    round.at \in {"sampling", "stopping"} =>
        /\ keeper[Checked] = "scheduler"
        /\ records[Checked].state = (IF round.at = "sampling" THEN "unload_queued" ELSE "unloading")

RowsServe == \A r \in Roles : rows[r] # {} => records[r].state \in {"ready", "unload_queued"}
HoldersHaveRows ==
    \A x \in Turns : taker[x].at = "holding" => \A r \in taker[x].roles : x \in rows[r]

Leased == LocksAscend /\ LockersMiss /\ SchedulerKeeps /\ RowsServe /\ HoldersHaveRows

\* Turns and switches take locks.
LEMMA TurnsTake == Turns \subseteq Takers /\ Switches \subseteq Takers
BY DEF Takers

\* The lock a caller waits for is one it lacks, and lies behind all it has.
LEMMA NextLockIsFirst ==
    ASSUME RolesTyped, Leased, NEW x \in Takers, taker[x].at = "locking"
    PROVE  /\ NextLock(x) \in Roles /\ NextLock(x) \in taker[x].roles /\ NextLock(x) \in Nat
           /\ keeper[NextLock(x)] # x
           /\ \A q \in Missing(x) : NextLock(x) <= q
           /\ \A r \in Roles : keeper[r] = x => r < NextLock(x)
<1>1. Missing(x) # {} /\ Missing(x) \subseteq Roles
  BY DEF Leased, LockersMiss, Missing, RolesTyped, TakersTyped
<1>2. NextLock(x) \in Missing(x) /\ \A q \in Missing(x) : NextLock(x) <= q
  BY <1>1, FirstIsFirst DEF NextLock
<1> QED BY <1>1, <1>2 DEF Leased, LocksAscend, Missing, LocksOf, Roles

\* A caller whose locks and place do not change keeps them in order.
LEMMA LocksStay ==
    ASSUME Leased, NEW x \in Takers, taker'[x] = taker[x],
           \A r \in Roles : keeper'[r] = x <=> keeper[r] = x
    PROVE  /\ Missing(x)' = Missing(x)
           /\ \A r \in Roles : keeper'[r] = x =>
                  /\ taker'[x].at = "locking" /\ r \in taker'[x].roles
                  /\ \A q \in Missing(x)' : r < q
           /\ taker'[x].at = "locking" => Missing(x)' # {}
<1>1. LocksOf(x)' = LocksOf(x)
  BY DEF LocksOf
<1>2. Missing(x)' = Missing(x)
  BY <1>1 DEF Missing
<1> QED BY <1>2 DEF Leased, LocksAscend, LockersMiss

\* Giving leases back leaves those of the other turns alone.
LEMMA GiveBackLeased ==
    ASSUME RolesTyped, Leased, NEW x \in Takers, GiveBack(x)
    PROVE  RowsServe' /\ HoldersHaveRows' /\ \A r \in Roles : records'[r].state = records[r].state
<1>1. \A r \in Roles : records'[r].state = records[r].state
  BY DEF GiveBack, RolesTyped, RecordsTyped, RecordType
<1>2. RowsServe'
  BY <1>1 DEF GiveBack, Leased, RowsServe
<1>3. HoldersHaveRows'
  BY TurnsTake DEF GiveBack, NoRoles, Leased, HoldersHaveRows, RolesTyped, TakersTyped
<1> QED BY <1>1, <1>2, <1>3

\* A caller takes its locks in order, and leases of all its roles at once.
LEMMA TakerLeased ==
    ASSUME RolesTyped, Leased, NEW x \in Takers,
           Asks(x) \/ TakesLock(x) \/ (x \in Turns /\ (OpensStream(x) \/ Releases(x)))
    PROVE  Leased'
<1>0. UNCHANGED round /\ Checked' = Checked /\ \A y \in Takers : y # x => taker'[y] = taker[y]
  BY DEF Asks, TakesLock, OpensStream, Releases, TakerFrame, TakesRows, GiveBack, Checked,
     RolesTyped, TakersTyped
<1>0a. x # "none" /\ x # "scheduler"
  BY RoleIdlingAssumption
<1>1. CASE Asks(x) \/ OpensStream(x)
  <2>1. UNCHANGED <<records, keeper, rows>> /\ taker[x].at # "locking"
    BY <1>1 DEF Asks, OpensStream
  <2>2. \A r \in Roles : keeper[r] # x
    BY <2>1 DEF Leased, LocksAscend
  <2>3. taker'[x].at = "locking" /\ taker'[x].roles # {} /\ taker'[x].roles \subseteq Roles
    <3>1. CASE OpensStream(x)
      BY <3>1, RoleIdlingAssumption DEF OpensStream, RolesTyped, TakersTyped, Roles, Executor
    <3>2. CASE Asks(x)
      <4>1. PICK asked \in (IF x \in Turns THEN (SUBSET Roles) \ {{}} ELSE {Roles}) :
               taker' = [taker EXCEPT ![x] = [at |-> "locking", roles |-> asked]]
        BY <3>2 DEF Asks
      <4>2. Executor \in Roles
        BY RoleIdlingAssumption DEF Roles, Executor
      <4>3. asked # {} /\ asked \subseteq Roles
        <5>1. CASE x \in Turns
          <6>1. asked \in (SUBSET Roles) \ {{}}
            BY <4>1, <5>1
          <6> QED BY <6>1
        <5>2. CASE x \notin Turns
          <6>1. asked = Roles
            BY <4>1, <5>2
          <6> QED BY <4>2, <6>1
        <5> QED BY <5>1, <5>2
      <4> QED BY <4>1, <4>3 DEF RolesTyped, TakersTyped
    <3> QED BY <1>1, <3>1, <3>2
  <2>4. LocksAscend' /\ LockersMiss'
    <3>1. Missing(x)' = taker'[x].roles
      BY <2>1, <2>2, <2>3 DEF Missing, LocksOf
    <3> QED BY <1>0, <2>1, <2>2, <2>3, <3>1, LocksStay DEF LocksAscend, LockersMiss
  <2>5. SchedulerKeeps' /\ RowsServe' /\ HoldersHaveRows'
    BY <1>0, <2>1, <2>3, TurnsTake DEF Leased, SchedulerKeeps, RowsServe, HoldersHaveRows
  <2> QED BY <2>4, <2>5 DEF Leased
<1>2. CASE x \in Turns /\ Releases(x)
  <2>1. GiveBack(x) /\ UNCHANGED keeper /\ taker'[x] = NoRoles
    BY <1>2 DEF Releases, GiveBack, RolesTyped, TakersTyped
  <2>2. \A r \in Roles : keeper[r] # x
    BY <1>2 DEF Releases, Leased, LocksAscend
  <2>3. LocksAscend' /\ LockersMiss'
    BY <1>0, <2>1, <2>2, LocksStay DEF LocksAscend, LockersMiss, NoRoles
  <2>4. SchedulerKeeps'
    BY <1>0, <2>1, CheckedIsRole, GiveBackLeased DEF Leased, SchedulerKeeps
  <2> QED BY <2>1, <2>3, <2>4, GiveBackLeased DEF Leased
<1>3. CASE TakesLock(x) /\ Missing(x) # {NextLock(x)}
  <2>1. /\ taker[x].at = "locking" /\ keeper[NextLock(x)] = "none"
        /\ keeper' = [keeper EXCEPT ![NextLock(x)] = x] /\ UNCHANGED <<records, taker, rows>>
    BY <1>3 DEF TakesLock
  <2>2. /\ NextLock(x) \in Roles /\ NextLock(x) \in taker[x].roles /\ NextLock(x) \in Nat
        /\ \A q \in Missing(x) : NextLock(x) <= q
        /\ \A r \in Roles : keeper[r] = x => r < NextLock(x)
    BY <2>1, NextLockIsFirst
  <2>3. LocksOf(x)' = LocksOf(x) \cup {NextLock(x)}
    BY <2>1, <2>2 DEF LocksOf, RolesTyped, LocksTyped
  <2>4. Missing(x)' = Missing(x) \ {NextLock(x)}
    BY <2>1, <2>3 DEF Missing
  <2>5. Missing(x)' # {}
    BY <1>3, <2>1, <2>4 DEF Leased, LockersMiss
  <2>6. \A r \in Roles : keeper'[r] = x =>
           /\ taker'[x].at = "locking" /\ r \in taker'[x].roles /\ \A q \in Missing(x)' : r < q
    <3>1. ASSUME NEW r \in Roles, keeper'[r] = x, NEW q \in Missing(x)' PROVE r < q
      <4>1. q \in Missing(x) /\ q # NextLock(x) /\ q \in Nat
        BY <2>4 DEF Missing, RolesTyped, TakersTyped, Roles
      <4>2. CASE r = NextLock(x)
        BY <2>2, <4>1, <4>2
      <4>3. CASE r # NextLock(x)
        BY <2>1, <3>1, <4>1, <4>3 DEF RolesTyped, LocksTyped, Leased, LocksAscend
      <4> QED BY <4>2, <4>3
    <3> QED BY <2>1, <2>2, <3>1 DEF RolesTyped, LocksTyped, Leased, LocksAscend
  <2>7. \A y \in Takers : y # x => \A r \in Roles : keeper'[r] = y <=> keeper[r] = y
    BY <2>1, RoleIdlingAssumption DEF RolesTyped, LocksTyped
  <2>8. LocksAscend' /\ LockersMiss'
    BY <2>1, <2>5, <2>6, <2>7, LocksStay DEF LocksAscend, LockersMiss
  <2>9. SchedulerKeeps' /\ RowsServe' /\ HoldersHaveRows'
    BY <1>0, <2>1, CheckedIsRole DEF RolesTyped, LocksTyped, Leased, SchedulerKeeps, RowsServe,
       HoldersHaveRows
  <2> QED BY <2>8, <2>9 DEF Leased
<1>4. CASE TakesLock(x) /\ Missing(x) = {NextLock(x)}
  <2>1. keeper' = [r \in Roles |-> IF keeper[r] = x THEN "none" ELSE keeper[r]]
    BY <1>4 DEF TakesLock
  <2>2. \A r \in Roles : keeper'[r] # x
    BY <1>0a, <2>1
  <2>3. \A y \in Takers : y # x => \A r \in Roles : keeper'[r] = y <=> keeper[r] = y
    BY <2>1, RoleIdlingAssumption
  <2>4. CASE GiveBack(x)
    <3>1. taker'[x] = NoRoles
      BY <2>4 DEF GiveBack, RolesTyped, TakersTyped
    <3>2. LocksAscend' /\ LockersMiss'
      BY <1>0, <2>2, <2>3, <3>1, LocksStay DEF LocksAscend, LockersMiss, NoRoles
    <3>3. SchedulerKeeps'
      BY <1>0, <1>0a, <2>1, <2>4, CheckedIsRole, GiveBackLeased DEF Leased, SchedulerKeeps
    <3> QED BY <2>4, <3>2, <3>3, GiveBackLeased DEF Leased
  <2>5. CASE taker' = [taker EXCEPT ![x] = NoRoles] /\ UNCHANGED <<records, rows>>
    <3>1. taker'[x] = NoRoles
      BY <2>5 DEF RolesTyped, TakersTyped
    <3>2. LocksAscend' /\ LockersMiss'
      BY <1>0, <2>2, <2>3, <3>1, LocksStay DEF LocksAscend, LockersMiss, NoRoles
    <3>3. SchedulerKeeps' /\ RowsServe' /\ HoldersHaveRows'
      BY <1>0, <1>0a, <2>1, <2>5, <3>1, CheckedIsRole, TurnsTake DEF Leased, SchedulerKeeps,
         RowsServe, HoldersHaveRows, NoRoles
    <3> QED BY <3>2, <3>3 DEF Leased
  <2>6. CASE /\ x \in Turns /\ \A r \in taker[x].roles : records[r].state = "ready"
             /\ rows' = [r \in Roles |->
                           IF r \in taker[x].roles THEN rows[r] \cup {x} ELSE rows[r]]
             /\ taker' = [taker EXCEPT ![x].at = "holding"] /\ UNCHANGED records
    <3>1. taker'[x].at = "holding" /\ taker'[x].roles = taker[x].roles
      BY <2>6 DEF RolesTyped, TakersTyped
    <3>2. LocksAscend' /\ LockersMiss'
      BY <1>0, <2>2, <2>3, <3>1, LocksStay DEF LocksAscend, LockersMiss
    <3>3. SchedulerKeeps' /\ RowsServe'
      BY <1>0, <1>0a, <2>1, <2>6, CheckedIsRole DEF Leased, SchedulerKeeps, RowsServe
    <3>4. HoldersHaveRows'
      BY <1>0, <2>6, <3>1, TurnsTake DEF Leased, HoldersHaveRows, RolesTyped, TakersTyped
    <3> QED BY <3>2, <3>3, <3>4 DEF Leased
  <2> QED BY <1>4, <2>4, <2>5, <2>6 DEF TakesLock, TakesRows
<1> QED BY <1>1, <1>2, <1>3, <1>4

\* Callers whose locks and places no step changes keep them in order.
LEMMA OthersStay ==
    ASSUME Leased, UNCHANGED taker,
           \A x \in Takers, r \in Roles : keeper'[r] = x <=> keeper[r] = x
    PROVE  LocksAscend' /\ LockersMiss'
BY LocksStay DEF LocksAscend, LockersMiss

\* A round of the scheduler locks a role before it changes it, and stops none
\* with leases.
LEMMA RoundLeased ==
    ASSUME RolesTyped, Leased,
           RoundBegins \/ ChecksRole \/ QueuesUnload \/ AdmitsUnload \/ CompletesUnload
    PROVE  Leased'
<1>1. CASE RoundBegins
  <2>1. round'.at = "checking" /\ UNCHANGED <<records, keeper, rows, taker>>
    BY <1>1 DEF RoundBegins, NoRound
  <2> QED BY <2>1, OthersStay DEF Leased, SchedulerKeeps, RowsServe, HoldersHaveRows
<1>2. CASE ChecksRole
  <2>1. /\ round'.at \in {"asleep", "checking", "locking"}
        /\ UNCHANGED <<records, keeper, rows, taker>>
    <3>1. round' = NextRole \/ \E u : round' = [round EXCEPT !.at = "locking", !.known = TRUE,
                                                          !.used = u]
      BY <1>2 DEF ChecksRole
    <3> QED BY <1>2, <3>1, NextRoleTyped DEF ChecksRole, RolesTyped, ChecksTyped, RoundType
  <2> QED BY <2>1, OthersStay DEF Leased, SchedulerKeeps, RowsServe, HoldersHaveRows
<1>3. CASE QueuesUnload \/ AdmitsUnload \/ CompletesUnload
  <2>1. Checked \in Roles /\ UNCHANGED <<rows, taker>>
    BY <1>3, CheckedIsRole DEF QueuesUnload, AdmitsUnload, CompletesUnload, SchedulerFrame
  <2>2. HoldersHaveRows'
    BY <2>1 DEF Leased, HoldersHaveRows
  <2>3. \A x \in Takers, r \in Roles : keeper'[r] = x <=> keeper[r] = x
    BY <1>3, <2>1, RoleIdlingAssumption DEF QueuesUnload, AdmitsUnload, CompletesUnload, Leased,
       SchedulerKeeps, RolesTyped, LocksTyped
  <2>4. RowsServe'
    <3>1. \A r \in Roles : r # Checked => records'[r] = records[r]
      BY <1>3 DEF QueuesUnload, AdmitsUnload, CompletesUnload, Moved, GoesCold, RolesTyped,
         RecordsTyped
    <3>2. rows[Checked] # {} => records'[Checked].state \in {"ready", "unload_queued"}
      <4>1. records[Checked] \in RecordType /\ records \in [Roles -> RecordType]
        BY <2>1 DEF RolesTyped, RecordsTyped
      <4>2. \A s \in {"ready", "unload_queued"} :
               records' = Moved(Checked, s) => records'[Checked].state = s
        BY <2>1, <4>1 DEF Moved, RecordType
      <4>3. CASE QueuesUnload
        BY <2>1, <4>2, <4>3 DEF QueuesUnload, Leased, RowsServe
      <4>4. CASE AdmitsUnload
        BY <4>2, <4>4 DEF AdmitsUnload
      <4>5. CASE CompletesUnload
        BY <2>1, <4>5 DEF CompletesUnload, Leased, RowsServe, SchedulerKeeps
      <4> QED BY <1>3, <4>3, <4>4, <4>5
    <3> QED BY <2>1, <3>1, <3>2 DEF Leased, RowsServe
  <2>5. SchedulerKeeps'
    <3>1. CASE Reconsiders(Checked)
      BY <1>3, <3>1, NextRoleTyped DEF Reconsiders, SchedulerKeeps, QueuesUnload, AdmitsUnload,
         CompletesUnload
    <3>2. CASE QueuesUnload /\ ~Reconsiders(Checked)
      <4>1. /\ records' = Moved(Checked, "unload_queued")
            /\ keeper' = [keeper EXCEPT ![Checked] = "scheduler"]
            /\ round' = [round EXCEPT !.at = "sampling"]
        BY <3>2 DEF QueuesUnload
      <4>2. round'.at = "sampling" /\ Checked' = Checked
        BY <4>1 DEF Checked, RolesTyped, ChecksTyped, RoundType
      <4>3. keeper'[Checked] = "scheduler" /\ records'[Checked].state = "unload_queued"
        BY <2>1, <4>1 DEF Moved, RolesTyped, RecordsTyped, RecordType, LocksTyped
      <4> QED BY <4>2, <4>3 DEF SchedulerKeeps
    <3>3. CASE AdmitsUnload /\ ~Reconsiders(Checked)
      <4>1. /\ records' = Moved(Checked, "unloading") /\ UNCHANGED keeper
            /\ round' = [round EXCEPT !.at = "stopping"] /\ keeper[Checked] = "scheduler"
        BY <3>3 DEF AdmitsUnload, Leased, SchedulerKeeps
      <4>2. round'.at = "stopping" /\ Checked' = Checked
        BY <4>1 DEF Checked, RolesTyped, ChecksTyped, RoundType
      <4>3. records'[Checked].state = "unloading"
        BY <2>1, <4>1 DEF Moved, RolesTyped, RecordsTyped, RecordType
      <4> QED BY <4>1, <4>2, <4>3 DEF SchedulerKeeps
    <3> QED BY <1>3, <3>1, <3>2, <3>3 DEF CompletesUnload
  <2> QED BY <2>1, <2>2, <2>3, <2>4, <2>5, OthersStay DEF Leased
<1> QED BY <1>1, <1>2, <1>3

\* A tick disturbs nothing, and a role moves otherwise only while it is
\* neither locked nor leased.
LEMMA OtherwiseLeased ==
    ASSUME RolesTyped, Leased, Ticks \/ \E r \in Roles : MovesOtherwise(r)
    PROVE  Leased'
<1>1. CASE Ticks
  <2>1. UNCHANGED <<records, keeper, rows, taker, round>>
    BY <1>1 DEF Ticks
  <2> QED BY <2>1, OthersStay DEF Leased, SchedulerKeeps, RowsServe, HoldersHaveRows, Checked
<1>2. ASSUME NEW r \in Roles, MovesOtherwise(r) PROVE Leased'
  <2>1. UNCHANGED <<keeper, rows, taker>> /\ keeper[r] = "none"
    BY <1>2 DEF MovesOtherwise
  <2>2. round'.at = round.at /\ Checked' = Checked
    <3>1. round' = round \/ round' = [round EXCEPT !.known = FALSE]
      BY <1>2 DEF MovesOtherwise
    <3> QED BY <3>1 DEF RolesTyped, ChecksTyped, RoundType, Checked
  <2>3. \A q \in Roles : q # r => records'[q] = records[q]
    BY <1>2 DEF MovesOtherwise, GoesCold, RolesTyped, RecordsTyped
  <2>4. rows[r] # {} => records'[r].state = "ready"
    BY <1>2 DEF MovesOtherwise, Ready, RolesTyped, RecordsTyped
  <2>5. SchedulerKeeps'
    BY <2>1, <2>2, <2>3, CheckedIsRole DEF Leased, SchedulerKeeps
  <2>6. RowsServe' /\ HoldersHaveRows'
    BY <2>1, <2>3, <2>4 DEF Leased, RowsServe, HoldersHaveRows
  <2> QED BY <2>1, <2>5, <2>6, OthersStay DEF Leased
<1> QED BY <1>1, <1>2

\* At first nothing is locked or leased.
LEMMA InitLeased == IdleInit => Leased
<1> SUFFICES ASSUME IdleInit PROVE Leased
  OBVIOUS
<1>1. (\A x \in Takers : taker[x].at = "idle") /\ round.at = "asleep"
  BY DEF IdleInit, NoRoles, NoRound
<1>2. \A r \in Roles : rows[r] = {} /\ keeper[r] \notin Takers
  BY RoleIdlingAssumption DEF IdleInit
<1> QED BY <1>1, <1>2, TurnsTake DEF Leased, LocksAscend, LockersMiss, SchedulerKeeps, RowsServe,
           HoldersHaveRows

\* The caller that waits for the last of the awaited locks waits for none of
\* the others: who keeps that lock lacks only later ones.
LEMMA AscentBreaksCircles == ASSUME RolesTyped, Leased PROVE NoWaitCycle
<1> SUFFICES ASSUME NEW W \in (SUBSET Takers) \ {{}},
                    \A x \in W : taker[x].at = "locking" /\ keeper[NextLock(x)] \in W
             PROVE  FALSE
  BY DEF NoWaitCycle
<1> DEFINE Left(x) == RoleCount - NextLock(x)
<1>1. \A x \in W : NextLock(x) \in Nat /\ NextLock(x) \in Roles
  BY NextLockIsFirst
<1>2. \A x \in W : Left(x) \in Nat
  BY <1>1, RoleIdlingAssumption DEF Roles
<1>3. \E m \in {Left(x) : x \in W} : \A n \in {Left(x) : x \in W} : m <= n
  <2>1. {Left(x) : x \in W} \subseteq Nat /\ {Left(x) : x \in W} # {}
    <3>1. \E x : x \in W
      <4>1. W # {}
        OBVIOUS
      <4> QED BY <4>1
    <3> QED BY <1>2, <3>1
  <2> HIDE DEF Left
  <2> QED BY <2>1, NatMin
<1>4. PICK x \in W : \A y \in W : Left(x) <= Left(y)
  BY <1>3
<1>5. PICK y \in W : keeper[NextLock(x)] = y
  OBVIOUS
<1>6. NextLock(x) < NextLock(y)
  BY <1>1, <1>5, NextLockIsFirst
<1> QED BY <1>1, <1>4, <1>6, RoleIdlingAssumption

\* Whatever a turn has leased serves.
LEMMA LeasesServe == ASSUME RolesTyped, Leased PROVE LeasedRolesServe
<1> SUFFICES ASSUME NEW x \in Turns, taker[x].at = "holding", NEW r \in taker[x].roles
             PROVE  x \in rows[r] /\ records[r].state \in {"ready", "unload_queued"}
  BY DEF LeasedRolesServe
<1>1. x \in rows[r] /\ r \in Roles
  BY TurnsTake DEF Leased, HoldersHaveRows, RolesTyped, TakersTyped
<1> QED BY <1>1 DEF Leased, RowsServe

-----------------------------------------------------------------------------
(***************************************************************************)
(* The idle policy.                                                        *)
(***************************************************************************)
\* No date lies in the future; a role that may be unloaded has been ready
\* since a reading of the clock, which 0 is not.
ClocksAgree ==
    /\ clock >= 1 /\ round.now <= clock
    /\ \A r \in Roles :
          /\ records[r].since <= clock /\ records[r].used <= clock
          /\ r \in Unloadable /\ records[r].state # "cold" => records[r].since >= 1

\* A counted check saw an activity of the past, and unless the role has been
\* active again, nothing has used it since.
CountsStand ==
    \A r \in Roles : idleState[r].count > 0 =>
        /\ r \in Unloadable /\ idleState[r].activity >= 1 /\ idleState[r].activity < clock
        /\ rows[r] = {} /\ Activity(records[r]) = idleState[r].activity => quiet[r] >= 1

\* What the second check has found stays so until the unload: a use since has
\* left leases or a later date.
CheckStands ==
    round.at \in {"sampling", "stopping"} \/ (round.at = "locking" /\ round.known) =>
        /\ round.now >= records[Checked].since + Residency
        /\ \E threshold \in Thresholds : /\ round.now > records[Checked].since + threshold
                                         /\ round.now > round.used + threshold
        /\ records[Checked].used # round.used => records[Checked].used >= round.now
        /\ records[Checked].used = round.used /\ rows[Checked] = {} => quiet[Checked] = 2
        /\ round.at = "locking" => records[Checked].state = "ready"

\* A role that moved while the scheduler waited for its lock is ready, if at
\* all, since the round began or later.
CheckFails ==
    round.at = "locking" /\ ~round.known /\ records[Checked].state = "ready" =>
        records[Checked].since >= round.now
\* Only roles that may be unloaded get past the check, and those that are
\* stopped are not in use.
UnloadableOnly == round.at \in {"locking", "sampling", "stopping"} => Checked \in Unloadable
StopsUnused == round.at = "stopping" => rows[Checked] = {} /\ records[Checked].used = round.used

Idle == /\ ClocksAgree /\ CountsStand /\ CheckStands /\ CheckFails /\ UnloadableOnly
        /\ StopsUnused

\* A role that is active, and one that is leased, is not counted as idle.
LEMMA ActivityUncounts ==
    ASSUME NEW r, NEW row \in RecordType, NEW blocked \in BOOLEAN, NEW now \in Nat,
           NEW previous, NEW threshold \in Thresholds,
           row.state # "ready" \/ blocked \/ row.since >= now \/ row.used >= now
    PROVE  NextCount(r, row, blocked, now, previous, threshold) = 0
<1>1. threshold \in Nat /\ threshold >= 1 /\ Residency \in Nat /\ Residency >= 1
  BY RoleIdlingAssumption
<1>2. row.since \in Nat /\ row.used \in Nat
  BY DEF RecordType
<1>3. CASE row.state # "ready" \/ blocked
  BY <1>3 DEF NextCount
<1>4. CASE row.since >= now
  <2>1. now < row.since + Residency
    BY <1>1, <1>2, <1>4
  <2> QED BY <2>1 DEF NextCount
<1>5. CASE row.state = "ready" /\ row.used >= now
  <2>1. now <= Activity(row) + threshold
    BY <1>1, <1>2, <1>5 DEF Activity
  <2> QED BY <2>1 DEF NextCount
<1> QED BY <1>3, <1>4, <1>5

\* Once asked again, the policy forgets a role that did not stay idle.
LEMMA ReconsidersForgets ==
    ASSUME RolesTyped, round.at # "asleep", Reconsiders(Checked),
           records'[Checked] \in RecordType,
           \/ records'[Checked].state # "ready" \/ rows[Checked] # {}
           \/ records'[Checked].since >= round.now \/ records'[Checked].used >= round.now
    PROVE  /\ idleState'[Checked].count = 0
           /\ \A r \in Roles : r # Checked => idleState'[r] = idleState[r]
           /\ round'.at \in {"asleep", "checking"} /\ round'.now \in {0, round.now}
<1>1. PICK threshold \in Thresholds :
         idleState' = [idleState EXCEPT ![Checked] =
             [activity |-> Activity(records'[Checked]),
              count |-> NextCount(Checked, records'[Checked], rows[Checked] # {}, round.now, @,
                                  threshold)]]
  BY DEF Reconsiders
<1>2. round.now \in Nat
  BY DEF RolesTyped, ChecksTyped, RoundType
<1>3. idleState'[Checked].count = NextCount(Checked, records'[Checked], rows[Checked] # {},
                                            round.now, idleState[Checked], threshold)
  BY <1>1, CheckedIsRole DEF RolesTyped, ChecksTyped
<1>4. \A r \in Roles : r # Checked => idleState'[r] = idleState[r]
  BY <1>1, CheckedIsRole DEF RolesTyped, ChecksTyped
<1>5. idleState'[Checked].count = 0
  <2> DEFINE row   == records'[Checked]
             blocked  == rows[Checked] # {}
             now      == round.now
             previous == idleState[Checked]
  <2>1. /\ row \in RecordType /\ blocked \in BOOLEAN /\ now \in Nat
        /\ row.state # "ready" \/ blocked \/ row.since >= now \/ row.used >= now
        /\ idleState'[Checked].count = NextCount(Checked, row, blocked, now, previous, threshold)
    BY <1>2, <1>3
  <2> HIDE DEF row, blocked, now, previous
  <2> QED BY <2>1, ActivityUncounts
<1>6. round'.at \in {"asleep", "checking"} /\ round'.now \in {0, round.now}
  <2>1. round' = NextRole /\ round \in RoundType
    BY DEF Reconsiders, RolesTyped, ChecksTyped
  <2>2. NextRole.now \in {0, round.now}
    BY <2>1 DEF NextRole, NoRound, RoundType
  <2> QED BY <2>1, <2>2, NextRoleTyped
<1> QED BY <1>4, <1>5, <1>6

\* What taking and giving back does to one role: it is left alone, or leased,
\* or dated because its last lease went.
LEMMA TakerUses ==
    ASSUME RolesTyped, NEW x \in Takers, Asks(x) \/ TakesLock(x) \/ OpensStream(x) \/ Releases(x),
           NEW r \in Roles
    PROVE  /\ records'[r].state = records[r].state /\ records'[r].since = records[r].since
           /\ \/ /\ records'[r].used = records[r].used
                 /\ (rows'[r] = rows[r] /\ quiet'[r] = quiet[r]) \/ rows'[r] # {}
              \/ records'[r].used = Now(r) /\ rows[r] # {}
           /\ rows[r] = {} /\ records[r].state # "ready" => rows'[r] = {}
<1>1. CASE UNCHANGED <<records, rows, quiet>>
  BY <1>1
<1>2. CASE GiveBack(x)
  BY <1>2 DEF GiveBack, RolesTyped, RecordsTyped, RecordType, TakersTyped, ChecksTyped
<1>3. CASE TakesRows(x) /\ ~GiveBack(x)
  <2>1. /\ rows' = [q \in Roles |-> IF q \in taker[x].roles THEN rows[q] \cup {x} ELSE rows[q]]
        /\ quiet' = [q \in Roles |-> IF q \in taker[x].roles THEN 0 ELSE quiet[q]]
        /\ \A q \in taker[x].roles : records[q].state = "ready"
        /\ UNCHANGED records
    BY <1>3 DEF TakesRows
  <2> QED BY <2>1
<1> QED BY <1>1, <1>2, <1>3 DEF Asks, TakesLock, OpensStream, Releases

\* A use leaves a lease or a date by which the policy knows of it.
LEMMA TakerIdle ==
    ASSUME RolesTyped, Leased, Idle, NEW x \in Takers,
           Asks(x) \/ TakesLock(x) \/ OpensStream(x) \/ Releases(x)
    PROVE  Idle'
<1>1. UNCHANGED <<clock, idleState, round>> /\ Checked' = Checked
  BY DEF Asks, TakesLock, OpensStream, Releases, TakerFrame, Checked
<1>2. \A r \in Roles : Now(r) \in {0, clock} /\ (r \in Unloadable => Now(r) = clock)
  BY DEF Now
<1>3. clock \in Nat /\ \A r \in Roles : records[r] \in RecordType
  BY DEF RolesTyped, RecordsTyped
<1>4. ClocksAgree'
  BY <1>1, <1>2, <1>3, TakerUses DEF Idle, ClocksAgree, RecordType
<1>5. CountsStand'
  <2> SUFFICES ASSUME NEW r \in Roles, idleState[r].count > 0, rows'[r] = {},
                      Activity(records'[r]) = idleState[r].activity
               PROVE  quiet'[r] >= 1
    BY <1>1 DEF Idle, CountsStand
  <2>1. /\ r \in Unloadable /\ idleState[r].activity >= 1 /\ idleState[r].activity < clock
        /\ rows[r] = {} /\ Activity(records[r]) = idleState[r].activity => quiet[r] >= 1
    BY DEF Idle, CountsStand
  <2>2. idleState[r].activity \in Nat
    BY DEF RolesTyped, ChecksTyped
  <2>3. CASE records'[r].used = Now(r) /\ rows[r] # {}
    <3>1. records'[r].used = clock
      BY <1>2, <2>1, <2>3
    <3>2. Activity(records'[r]) = 0 \/ Activity(records'[r]) >= clock
      BY <1>3, <3>1, TakerUses DEF Idle, ClocksAgree, Activity, RecordType
    <3> QED BY <1>3, <2>1, <2>2, <3>2
  <2>4. CASE records'[r].used = records[r].used /\ rows'[r] = rows[r] /\ quiet'[r] = quiet[r]
    <3>1. Activity(records'[r]) = Activity(records[r])
      BY <2>4, TakerUses DEF Activity
    <3> QED BY <2>1, <2>4, <3>1
  <2> QED BY <2>3, <2>4, TakerUses
<1>6. CheckFails' /\ UnloadableOnly'
  BY <1>1, CheckedIsRole, TakerUses DEF Idle, CheckFails, UnloadableOnly
<1>7. CheckStands'
  <2> SUFFICES ASSUME round.at \in {"sampling", "stopping"} \/ (round.at = "locking" /\ round.known)
               PROVE  CheckStands'
    BY <1>1 DEF CheckStands
  <2>1. Checked \in Roles /\ Checked \in Unloadable
    BY CheckedIsRole DEF Idle, UnloadableOnly
  <2>2. PICK threshold \in Thresholds : /\ round.now > records[Checked].since + threshold
                                       /\ round.now > round.used + threshold
    BY DEF Idle, CheckStands
  <2>3. threshold \in Nat /\ round.now \in Nat /\ round.used \in Nat /\ round.now <= clock
    BY RoleIdlingAssumption DEF RolesTyped, ChecksTyped, RoundType, Idle, ClocksAgree
  <2>4. CASE records'[Checked].used = Now(Checked) /\ rows[Checked] # {}
    <3>1. records'[Checked].used >= round.now /\ records'[Checked].used # round.used
      BY <1>2, <1>3, <2>1, <2>2, <2>3, <2>4
    <3> QED BY <1>1, <2>1, <3>1, TakerUses DEF Idle, CheckStands
  <2>5. CASE /\ records'[Checked].used = records[Checked].used
             /\ \/ rows'[Checked] = rows[Checked] /\ quiet'[Checked] = quiet[Checked]
                \/ rows'[Checked] # {}
    BY <1>1, <2>1, <2>5, TakerUses DEF Idle, CheckStands
  <2> QED BY <2>1, <2>4, <2>5, TakerUses
<1>8. StopsUnused'
  <2> SUFFICES ASSUME round.at = "stopping"
               PROVE  rows'[Checked] = {} /\ records'[Checked].used = round.used
    BY <1>1 DEF StopsUnused
  <2>1. rows[Checked] = {} /\ records[Checked].used = round.used /\ Checked \in Roles
    BY CheckedIsRole DEF Idle, StopsUnused
  <2>2. records[Checked].state = "unloading"
    BY DEF Leased, SchedulerKeeps
  <2> QED BY <2>1, <2>2, TakerUses
<1> QED BY <1>4, <1>5, <1>6, <1>7, <1>8 DEF Idle

\* The second check confirms what the first found, and nothing but it.
LEMMA ChecksIdle == ASSUME RolesTyped, Idle, ChecksRole PROVE Idle'
<1>0. /\ round.at = "checking" /\ Checked \in Roles
      /\ UNCHANGED <<clock, records, keeper, rows, taker>>
  BY CheckedIsRole DEF ChecksRole
<1> DEFINE r == Checked
           Count(t) == NextCount(r, records[r], rows[r] # {}, round.now, idleState[r], t)
<1>1. PICK threshold \in Thresholds :
         /\ idleState' = [idleState EXCEPT ![r] =
                            [activity |-> Activity(records[r]), count |-> Count(threshold)]]
         /\ quiet' = [quiet EXCEPT ![r] =
                        IF @ < 2 /\ r \in Unloadable /\ rows[r] = {} THEN @ + 1 ELSE @]
         /\ round' = IF Count(threshold) < 2 THEN NextRole
                     ELSE [round EXCEPT !.at = "locking", !.known = TRUE, !.used = records[r].used]
  BY DEF ChecksRole
<1>2. /\ clock \in Nat /\ records[r] \in RecordType /\ round.now \in Nat /\ round.now <= clock
      /\ quiet[r] \in 0..2 /\ idleState[r] \in [activity : Nat, count : 0..2]
  BY <1>0 DEF RolesTyped, RecordsTyped, ChecksTyped, RoundType, Idle, ClocksAgree
<1>3. Count(threshold) \in 0..2
  BY CountTyped
<1>4. Count(threshold) > 0 =>
         /\ r \in Unloadable /\ records[r].state = "ready" /\ rows[r] = {}
         /\ round.now >= records[r].since + Residency
         /\ round.now > records[r].since + threshold /\ round.now > records[r].used + threshold
         /\ Activity(records[r]) < round.now
         /\ Count(threshold) = 2 =>
               idleState[r].count > 0 /\ idleState[r].activity = Activity(records[r])
  <2> SUFFICES ASSUME Count(threshold) > 0
               PROVE  /\ r \in Unloadable /\ records[r].state = "ready" /\ rows[r] = {}
                      /\ round.now >= records[r].since + Residency
                      /\ round.now > records[r].since + threshold
                      /\ round.now > records[r].used + threshold
                      /\ Activity(records[r]) < round.now
                      /\ Count(threshold) = 2 =>
                            /\ idleState[r].count > 0
                            /\ idleState[r].activity = Activity(records[r])
    OBVIOUS
  <2>1. /\ threshold \in Nat /\ threshold >= 1 /\ Residency \in Nat
        /\ records[r].since \in Nat /\ records[r].used \in Nat
    BY <1>2, RoleIdlingAssumption DEF RecordType
  <2>2. /\ r \in Unloadable /\ records[r].state = "ready" /\ rows[r] = {}
        /\ ~(round.now < records[r].since + Residency)
        /\ ~(round.now <= Activity(records[r]) + threshold)
        /\ idleState[r].activity \in {0, Activity(records[r])}
        /\ ~(idleState[r].count > 0 /\ idleState[r].activity = 0)
        /\ Count(threshold) = 2 => idleState[r].count # 0
    BY DEF NextCount
  <2>3. /\ Activity(records[r]) \in Nat /\ Activity(records[r]) >= records[r].since
        /\ Activity(records[r]) >= records[r].used
    BY <2>1, <2>2 DEF Activity
  <2> QED BY <1>2, <2>1, <2>2, <2>3
<1> HIDE DEF Count
<1>5. /\ quiet'[r] = IF quiet[r] < 2 /\ r \in Unloadable /\ rows[r] = {} THEN quiet[r] + 1
                     ELSE quiet[r]
      /\ idleState'[r].count = Count(threshold) /\ idleState'[r].activity = Activity(records[r])
      /\ \A q \in Roles : q # r => idleState'[q] = idleState[q] /\ quiet'[q] = quiet[q]
  BY <1>0, <1>1 DEF RolesTyped, ChecksTyped
<1>6. CountsStand'
  <2>1. ASSUME Count(threshold) > 0
        PROVE  /\ Activity(records[r]) >= 1 /\ Activity(records[r]) < clock /\ quiet'[r] >= 1
    <3>1. records[r].since >= 1 /\ records[r].since \in Nat /\ records[r].used \in Nat
      BY <1>0, <1>2, <1>4, <2>1 DEF Idle, ClocksAgree, RecordType
    <3> QED BY <1>2, <1>4, <1>5, <2>1, <3>1 DEF Activity
  <2> QED BY <1>0, <1>4, <1>5, <2>1 DEF Idle, CountsStand
<1>7. CASE Count(threshold) < 2
  <2>1. round'.at \in {"asleep", "checking"} /\ round'.now \in {0, round.now}
    BY <1>0, <1>1, <1>7, NextRoleTyped DEF NextRole, NoRound, RolesTyped, ChecksTyped, RoundType
  <2>2. ClocksAgree'
    BY <1>0, <1>2, <2>1 DEF Idle, ClocksAgree
  <2> QED BY <1>6, <2>1, <2>2 DEF Idle, CheckStands, CheckFails, UnloadableOnly, StopsUnused
<1>8. CASE Count(threshold) = 2
  <2>1. /\ round'.at = "locking" /\ round'.known /\ round'.used = records[r].used
        /\ round'.now = round.now /\ Checked' = r
    BY <1>1, <1>8 DEF RolesTyped, ChecksTyped, RoundType, Checked
  <2>2. quiet'[r] = 2
    <3>1. quiet[r] >= 1
      BY <1>0, <1>4, <1>8 DEF Idle, CountsStand
    <3> QED BY <1>2, <1>4, <1>5, <1>8, <3>1
  <2>3. CheckStands'
    BY <1>0, <1>4, <1>8, <2>1, <2>2 DEF CheckStands
  <2>4. ClocksAgree' /\ CheckFails' /\ UnloadableOnly' /\ StopsUnused'
    BY <1>0, <1>4, <1>8, <2>1 DEF Idle, ClocksAgree, CheckFails, UnloadableOnly, StopsUnused
  <2> QED BY <1>6, <2>3, <2>4 DEF Idle
<1> QED BY <1>3, <1>7, <1>8

\* A role whose record changes without a new date, and one that goes cold, is
\* dated as before.
LEMMA MovesKeepDates ==
    ASSUME RolesTyped, Idle, NEW r \in Roles, UNCHANGED clock, round'.now \in {0, round.now},
           \/ \E s \in {"unload_queued", "unloading"} : records' = Moved(r, s)
           \/ records' = Moved(r, "ready") /\ records[r].state # "cold"
           \/ GoesCold(r)
           \/ UNCHANGED records,
           records[r].state # "cold" \/ UNCHANGED records
    PROVE  ClocksAgree'
<1>1. \A q \in Roles : records[q] \in RecordType
  BY DEF RolesTyped, RecordsTyped
<1>2. \A q \in Roles : q # r => records'[q] = records[q]
  BY DEF Moved, GoesCold, RolesTyped, RecordsTyped
<1>3. \/ records'[r].since = records[r].since /\ records'[r].used = records[r].used
      \/ records'[r] = Cold
  <2>1. CASE \E s \in {"unload_queued", "unloading", "ready"} : records' = Moved(r, s)
    BY <1>1, <2>1 DEF Moved, RolesTyped, RecordsTyped, RecordType
  <2>2. CASE GoesCold(r)
    BY <2>2 DEF GoesCold, RolesTyped, RecordsTyped
  <2> QED BY <2>1, <2>2
<1>4. clock \in Nat /\ round.now \in Nat
  BY DEF RolesTyped, RecordsTyped, ChecksTyped, RoundType
<1> QED BY <1>1, <1>2, <1>3, <1>4 DEF Idle, ClocksAgree, Cold

\* When the scheduler is done with a role, no count is left for it.
LEMMA DoneIdle ==
    ASSUME RolesTyped, Idle, round.at # "asleep", Reconsiders(Checked), UNCHANGED <<clock, rows,
       quiet>>,
           \A r \in Roles : r # Checked => records'[r] = records[r],
           records'[Checked] \in RecordType, ClocksAgree',
           \/ records'[Checked].state # "ready" \/ rows[Checked] # {}
           \/ records'[Checked].since >= round.now \/ records'[Checked].used >= round.now
    PROVE  Idle'
<1>1. /\ idleState'[Checked].count = 0 /\ round'.at \in {"asleep", "checking"}
      /\ \A r \in Roles : r # Checked => idleState'[r] = idleState[r]
  BY ReconsidersForgets
<1>2. CountsStand'
  BY <1>1 DEF Idle, CountsStand
<1> QED BY <1>1, <1>2 DEF Idle, CheckStands, CheckFails, UnloadableOnly, StopsUnused

\* An unload begins for the role as the check found it, or not at all.
LEMMA QueuesIdle == ASSUME RolesTyped, Idle, QueuesUnload PROVE Idle'
<1>1. /\ round.at = "locking" /\ Checked \in Roles /\ UNCHANGED <<clock, rows, taker, quiet>>
      /\ records[Checked] \in RecordType
  BY CheckedIsRole DEF QueuesUnload, SchedulerFrame, RolesTyped, RecordsTyped
<1>2. CASE records[Checked].state = "ready" /\ round.known
  <2>1. /\ records' = Moved(Checked, "unload_queued") /\ UNCHANGED idleState
        /\ round' = [round EXCEPT !.at = "sampling"]
    BY <1>2 DEF QueuesUnload
  <2>2. /\ round'.at = "sampling" /\ Checked' = Checked /\ round'.now = round.now
        /\ round'.used = round.used
    BY <2>1 DEF RolesTyped, ChecksTyped, RoundType, Checked
  <2>3. /\ records'[Checked].state = "unload_queued"
        /\ records'[Checked].since = records[Checked].since
        /\ records'[Checked].used = records[Checked].used
        /\ \A r \in Roles : r # Checked => records'[r] = records[r]
    BY <1>1, <2>1 DEF Moved, RolesTyped, RecordsTyped, RecordType
  <2>4. ClocksAgree'
    BY <1>1, <1>2, <2>1, <2>2, MovesKeepDates
  <2>5. CountsStand'
    <3>1. Activity(records'[Checked]) = 0
      BY <2>3 DEF Activity
    <3>2. idleState[Checked].count > 0 => idleState[Checked].activity # 0
      BY <1>1 DEF Idle, CountsStand
    <3> QED BY <1>1, <2>1, <2>3, <3>1, <3>2 DEF Idle, CountsStand
  <2>6. CheckStands'
    BY <1>1, <1>2, <2>2, <2>3 DEF Idle, CheckStands
  <2>7. CheckFails' /\ UnloadableOnly' /\ StopsUnused'
    BY <1>1, <2>2 DEF Idle, CheckFails, UnloadableOnly, StopsUnused
  <2> QED BY <2>4, <2>5, <2>6, <2>7 DEF Idle
<1>3. CASE ~(records[Checked].state = "ready" /\ round.known)
  <2>1. UNCHANGED records /\ Reconsiders(Checked)
    BY <1>3 DEF QueuesUnload
  <2>2. records[Checked].state # "ready" \/ records[Checked].since >= round.now
    BY <1>1, <1>3 DEF Idle, CheckFails, RolesTyped, ChecksTyped, RoundType
  <2>3. round'.now \in {0, round.now}
    BY <1>1, <2>1, NextRoleTyped DEF Reconsiders, NextRole, NoRound, RolesTyped, ChecksTyped,
       RoundType
  <2>4. ClocksAgree'
    BY <1>1, <2>1, <2>3, MovesKeepDates
  <2> QED BY <1>1, <2>1, <2>2, <2>4, DoneIdle
<1> QED BY <1>2, <1>3

\* After the memory sample the unload goes on only if nothing used the role.
LEMMA AdmitsIdle == ASSUME RolesTyped, Leased, Idle, AdmitsUnload PROVE Idle'
<1>1. /\ round.at = "sampling" /\ Checked \in Roles /\ UNCHANGED <<clock, rows, taker, quiet>>
      /\ records[Checked] \in RecordType /\ records[Checked].state = "unload_queued"
  BY CheckedIsRole DEF AdmitsUnload, SchedulerFrame, RolesTyped, RecordsTyped, Leased,
     SchedulerKeeps
<1>2. CASE rows[Checked] = {} /\ records[Checked].used = round.used
  <2>1. /\ records' = Moved(Checked, "unloading") /\ UNCHANGED idleState
        /\ round' = [round EXCEPT !.at = "stopping"]
    BY <1>2 DEF AdmitsUnload
  <2>2. /\ round'.at = "stopping" /\ Checked' = Checked /\ round'.now = round.now
        /\ round'.used = round.used
    BY <2>1 DEF RolesTyped, ChecksTyped, RoundType, Checked
  <2>3. /\ records'[Checked].state = "unloading"
        /\ records'[Checked].since = records[Checked].since
        /\ records'[Checked].used = records[Checked].used
        /\ \A r \in Roles : r # Checked => records'[r] = records[r]
    BY <1>1, <2>1 DEF Moved, RolesTyped, RecordsTyped, RecordType
  <2>4. ClocksAgree'
    BY <1>1, <1>2, <2>1, <2>2, MovesKeepDates
  <2>5. CountsStand'
    <3>1. Activity(records'[Checked]) = 0
      BY <2>3 DEF Activity
    <3>2. idleState[Checked].count > 0 => idleState[Checked].activity # 0
      BY <1>1 DEF Idle, CountsStand
    <3> QED BY <1>1, <2>1, <2>3, <3>1, <3>2 DEF Idle, CountsStand
  <2>6. CheckStands'
    BY <1>1, <1>2, <2>2, <2>3 DEF Idle, CheckStands
  <2>7. CheckFails' /\ UnloadableOnly' /\ StopsUnused'
    BY <1>1, <1>2, <2>2, <2>3 DEF Idle, CheckFails, UnloadableOnly, StopsUnused
  <2> QED BY <2>4, <2>5, <2>6, <2>7 DEF Idle
<1>3. CASE ~(rows[Checked] = {} /\ records[Checked].used = round.used)
  <2>1. records' = Moved(Checked, "ready") /\ Reconsiders(Checked)
    BY <1>3 DEF AdmitsUnload
  <2>2. /\ records'[Checked].used = records[Checked].used
        /\ \A r \in Roles : r # Checked => records'[r] = records[r]
        /\ records'[Checked] \in RecordType
    BY <1>1, <2>1, MovesTyped DEF Moved, RolesTyped, RecordsTyped, RecordType
  <2>3. rows[Checked] # {} \/ records'[Checked].used >= round.now
    BY <1>1, <1>3, <2>2 DEF Idle, CheckStands
  <2>4. round'.now \in {0, round.now}
    BY <1>1, <2>1, NextRoleTyped DEF Reconsiders, NextRole, NoRound, RolesTyped, ChecksTyped,
       RoundType
  <2>5. ClocksAgree'
    BY <1>1, <2>1, <2>4, MovesKeepDates
  <2> QED BY <1>1, <2>1, <2>2, <2>3, <2>5, DoneIdle
<1> QED BY <1>2, <1>3

\* A role that was stopped is cold and starts anew.
LEMMA CompletesIdle == ASSUME RolesTyped, Leased, Idle, CompletesUnload PROVE Idle'
<1>1. /\ round.at = "stopping" /\ Checked \in Roles /\ UNCHANGED <<clock, rows, taker, quiet>>
      /\ records[Checked] \in RecordType /\ records[Checked].state = "unloading"
      /\ GoesCold(Checked) /\ Reconsiders(Checked)
  BY CheckedIsRole DEF CompletesUnload, SchedulerFrame, RolesTyped, RecordsTyped, Leased,
     SchedulerKeeps
<1>2. /\ records'[Checked].state = "cold" /\ records'[Checked] \in RecordType
      /\ \A r \in Roles : r # Checked => records'[r] = records[r]
  BY <1>1 DEF GoesCold, Cold, RecordType, RolesTyped, RecordsTyped
<1>3. round'.now \in {0, round.now}
  BY <1>1, NextRoleTyped DEF Reconsiders, NextRole, NoRound, RolesTyped, ChecksTyped, RoundType
<1>4. ClocksAgree'
  BY <1>1, <1>3, MovesKeepDates
<1> QED BY <1>1, <1>2, <1>4, DoneIdle

\* A role that moves for another reason is ready anew or not ready.
LEMMA OtherwiseIdle ==
    ASSUME RolesTyped, Leased, Idle, RoundBegins \/ Ticks \/ \E r \in Roles : MovesOtherwise(r)
    PROVE  Idle'
<1>0. clock \in Nat /\ round.now \in Nat
  BY DEF RolesTyped, RecordsTyped, ChecksTyped, RoundType
<1>1. CASE RoundBegins
  <2>1. /\ round'.at = "checking" /\ round'.now = clock
        /\ UNCHANGED <<clock, records, rows, idleState, quiet>>
    BY <1>1 DEF RoundBegins, NoRound
  <2> QED BY <1>0, <2>1 DEF Idle, ClocksAgree, CountsStand, CheckStands, CheckFails,
             UnloadableOnly, StopsUnused
<1>2. CASE Ticks
  <2>1. clock' = clock + 1 /\ UNCHANGED <<records, rows, idleState, round, quiet>>
    BY <1>2 DEF Ticks
  <2>2. ClocksAgree'
    <3>1. \A r \in Roles : records[r].since \in Nat /\ records[r].used \in Nat
      BY DEF RolesTyped, RecordsTyped, RecordType
    <3>2. \A n \in Nat : n <= clock => n <= clock + 1
      BY <1>0
    <3> QED BY <1>0, <2>1, <3>1, <3>2 DEF Idle, ClocksAgree
  <2>3. CountsStand'
    <3>1. \A r \in Roles : idleState[r].activity \in Nat
      BY DEF RolesTyped, ChecksTyped
    <3>2. \A n \in Nat : n < clock => n < clock + 1
      BY <1>0
    <3> QED BY <2>1, <3>1, <3>2 DEF Idle, CountsStand
  <2> QED BY <2>1, <2>2, <2>3 DEF Idle, CheckStands, CheckFails, UnloadableOnly, StopsUnused,
             Checked
<1>3. ASSUME NEW r \in Roles, MovesOtherwise(r) PROVE Idle'
  <2>1. /\ UNCHANGED <<clock, keeper, rows, idleState>> /\ keeper[r] = "none"
        /\ records'[r] = Ready(r) \/ records'[r] = Cold
        /\ \A q \in Roles : q # r => records'[q] = records[q] /\ quiet'[q] = quiet[q]
    BY <1>3 DEF MovesOtherwise, GoesCold, RolesTyped, RecordsTyped, ChecksTyped
  <2>2. /\ round'.at = round.at /\ Checked' = Checked /\ round'.now = round.now
        /\ round'.used = round.used
        /\ IF round.at = "locking" /\ r = Checked THEN ~round'.known
           ELSE round'.known = round.known
    BY <1>3 DEF MovesOtherwise, RolesTyped, ChecksTyped, RoundType, Checked
  <2>3. records'[r].state = "ready" =>
           /\ records'[r].since = Now(r) /\ records'[r].used = 0
    BY <2>1 DEF Ready, Cold
  <2>4. Now(r) \in {0, clock} /\ (r \in Unloadable => Now(r) = clock)
    BY DEF Now
  <2>5. ClocksAgree'
    BY <1>0, <2>1, <2>2, <2>4 DEF Idle, ClocksAgree, Ready, Cold
  <2>6. CountsStand'
    <3>1. ASSUME idleState[r].count > 0 PROVE Activity(records'[r]) # idleState[r].activity
      <4>1. r \in Unloadable /\ idleState[r].activity >= 1 /\ idleState[r].activity < clock
        BY <3>1 DEF Idle, CountsStand
      <4>2. idleState[r].activity \in Nat
        BY DEF RolesTyped, ChecksTyped
      <4>3. Activity(records'[r]) = 0 \/ Activity(records'[r]) = clock
        BY <2>3, <2>4, <4>1, <1>0 DEF Activity
      <4> QED BY <1>0, <4>1, <4>2, <4>3
    <3> QED BY <2>1, <3>1 DEF Idle, CountsStand
  <2>7. CheckFails' /\ UnloadableOnly'
    BY <1>0, <2>1, <2>2, <2>3, <2>4, CheckedIsRole DEF Idle, CheckFails, UnloadableOnly, ClocksAgree
  <2>8. CASE r = Checked
    <3>1. round.at \notin {"sampling", "stopping"}
      BY <2>1, <2>8 DEF Leased, SchedulerKeeps
    <3> QED BY <2>2, <2>5, <2>6, <2>7, <2>8, <3>1 DEF Idle, CheckStands, StopsUnused
  <2>9. CASE r # Checked
    <3>1. round.at # "asleep" =>
            records'[Checked] = records[Checked] /\ quiet'[Checked] = quiet[Checked]
      BY <2>1, <2>9, CheckedIsRole
    <3> QED BY <2>1, <2>2, <2>5, <2>6, <2>7, <2>9, <3>1 DEF Idle, CheckStands, StopsUnused
  <2> QED BY <2>8, <2>9
<1> QED BY <1>1, <1>2, <1>3

-----------------------------------------------------------------------------
(***************************************************************************)
(* The results.                                                            *)
(***************************************************************************)
\* The inductive invariant.
RolesInv == RolesTyped /\ Leased /\ Idle

\* It holds at first ...
LEMMA InitInvariant == IdleInit => RolesInv
<1> SUFFICES ASSUME IdleInit PROVE RolesInv
  OBVIOUS
<1>1. ClocksAgree
  BY DEF IdleInit, ClocksAgree, NoRound, Ready, Now
<1>2. Idle
  BY <1>1 DEF IdleInit, Idle, CountsStand, CheckStands, CheckFails, UnloadableOnly, StopsUnused,
     NoRound
<1> QED BY <1>2, InitRolesTyped, InitLeased DEF RolesInv

\* ... and every step keeps it.
LEMMA StepInvariant == RolesInv /\ [IdleNext]_idleVars => RolesInv'
<1> SUFFICES ASSUME RolesInv, [IdleNext]_idleVars PROVE RolesInv'
  OBVIOUS
<1> USE DEF RolesInv
<1>1. ASSUME NEW x \in Takers, Asks(x) \/ TakesLock(x) PROVE RolesInv'
  BY <1>1, TakerTyped, TakerLeased, TakerIdle
<1>2. ASSUME NEW x \in Turns, OpensStream(x) \/ Releases(x) PROVE RolesInv'
  BY <1>2, TurnsTake, TakerTyped, TakerLeased, TakerIdle
<1>3. CASE RoundBegins
  BY <1>3, RoundTyped, RoundLeased, OtherwiseIdle
<1>4. CASE ChecksRole
  BY <1>4, RoundTyped, RoundLeased, ChecksIdle
<1>5. CASE QueuesUnload
  BY <1>5, RoundTyped, RoundLeased, QueuesIdle
<1>6. CASE AdmitsUnload
  BY <1>6, RoundTyped, RoundLeased, AdmitsIdle
<1>7. CASE CompletesUnload
  BY <1>7, RoundTyped, RoundLeased, CompletesIdle
<1>8. CASE Ticks \/ \E r \in Roles : MovesOtherwise(r)
  BY <1>8, OtherwiseTyped, OtherwiseLeased, OtherwiseIdle
<1>9. CASE UNCHANGED idleVars
  BY <1>9 DEF idleVars, RolesTyped, RecordsTyped, LocksTyped, TakersTyped, ChecksTyped, Leased,
     LocksAscend, LockersMiss, Missing, LocksOf, SchedulerKeeps, RowsServe, HoldersHaveRows, Idle,
     ClocksAgree, CountsStand, CheckStands, CheckFails, UnloadableOnly, StopsUnused, Checked
<1> QED BY <1>1, <1>2, <1>3, <1>4, <1>5, <1>6, <1>7, <1>8, <1>9 DEF IdleNext

\* The inductive invariant holds in every behaviour.
THEOREM RolesInvariance == IdleSpec => []RolesInv
BY InitInvariant, StepInvariant, PTL DEF IdleSpec

\* However many roles there are, callers that take several locks never wait for
\* one another in a circle, and a turn at work has leases of every role it asked
\* for, all of which serve (lifecycle.py:2036, 2099, 2114).
THEOREM SeveralRolesAreLeasedTogether == IdleSpec => []LeasesAreJoint
<1>1. RolesInv => LeasesAreJoint
  BY AscentBreaksCircles, LeasesServe DEF RolesInv, LeasesAreJoint
<1> QED BY <1>1, RolesInvariance, PTL

\* Whatever the thresholds and however long the clock runs, the scheduler stops
\* a role only after two checks in a row with no use in between or since, longer
\* idle than a threshold and ready for its minimum residency
\* (lifecycle.py:377-411, 1838-1906).
THEOREM OnlyTheIdleAreStopped == IdleSpec => []IdleIsConfirmed
<1>1. RolesInv => IdleIsConfirmed
  BY DEF RolesInv, Idle, CheckStands, StopsUnused, IdleIsConfirmed
<1> QED BY <1>1, RolesInvariance, PTL

=============================================================================
