# Verification of the DGX MoA gateway

TLA+ models of the gateway in `src/gateway/src/dgx_moa`, the TLC runs that
check them on small instances, and proofs checked by TLAPS.

The gateway serves an OpenAI-compatible API in front of a few large local
models (Executor, Planner, Reviewer, Reasoner, Judge) on one DGX machine with
room for few of them at a time, and remote fallbacks. Its own hard logic is
who may use the local Executor, when a model's unit may be started or stopped,
how a turn gathers, checks and publishes what several models say, how an agent
loop over many turns stops, and what is kept of it all afterwards.

## 1. Inventory

Status: **M** every operation that changes state is modelled, **P** partly,
**–** not modelled. The reasons are in `PROJECT.json`.

| | Part | State | Operations | What makes it hard |
|---|---|---|---|---|
| M | Executor scheduler, `executor_scheduler.py` | owners of the local slots, a FIFO per API key, a round robin of keys, pins, `_local_enabled` | `acquire`, `release` (with `_promote`), `set_local_enabled` | time-outs and cancellations that race promotions; four views of one fact; starvation |
| P | Model lifecycle, `lifecycle.py` | per role: record with transition id, leases, continuations, guards, desired state; failure latch; tasks, locks; the systemd unit | `ensure_ready`, load task, idle unload, `set_enabled`, drain, leases, guards, recovery, `close` | everything awaits; optimistic transition ids; cancelled tasks; driver calls in threads; restarts; locks of several roles |
| P | Turn admission and Executor control, `api.py` | where a turn is; `executor_manual_drain`, `executor_admission_lock` | admission, leases, local-400 fallback, finalization, `set_executor_enabled` | two components keep two halves of one resource; background drain against ON |
| P | Chat handler, `api.py` | request row, pin, leases, background task, Reviewer's locks and guard | `chat` from arrival to each of its exits, `adjudicate` | fifteen exits after different acquisitions; turns that meet at the Reviewer |
| P | Streaming, `api.py`, `streaming.py` | the stream's observation, what was held back, what was sent | `forward_sse`, `stream_response`, `finish_stream`, `response_stream`, `responses_sse` | checks before publication; departures at every await; retries of whole turns |
| P | MoA controller, `controller.py` | selected roles, their tasks, artifacts, confidence, review status | `prepare_executor` | parallel delegates, one deadline, losses that must survive later joins |
| P | Loop engineering, `loop_engineering.py`, `controller.py` | the session: budgets, evidence, phase, verdict | observe, admit, review, judge, stop, operator commands | whole-session writes of overlapping turns; order of observation and review |
| P | Execution graph, `execution_graph.py` | graph, node states, attempts, checkpoint | compile, start, finish, fail, cancel, rerun, load, resume | 2048 shapes; repairs; torn writes |
| P | Frontier, `frontier.py` | circuit, profile locks, thread map, paid ids | `_run`, App Server turns, `codex exec`, paid fallback | late answers, evictions, money |
| P | Training and weekly packages, `training.py`, `weekly.py` | events, candidates, content objects, tombstones, holds, package registry, archive | collect, review, exclude, purge, package, revoke, regenerate, verify | a thread packs what the event loop changes meanwhile |
| P | Skills, knowledge, evolution, `skills.py`, `knowledge.py`, `evolution.py` | immutable versions with status and validation, conflicts, canaries | draft, evaluate, promote, transition, roll back, resolve, import | long legal sequences; two processes on one version |
| P | Profiles, `switch-profile.sh` | the profile guard | switch (environment step of `Lifecycle`) | a script beside the gateway |
| – | Specialist routing, overflow Executor | route, warm-up, rollback model | complete, roll back | several lifecycles at once: beyond TLC in one model |
| – | Session store, actions, async MoA runtime, observation, usage, trace, context, configuration, providers, dashboards, model files, scripts | rows, events, text | | conversions and I/O, or state that the parts above own |

**How they interact.** A chat turn (1) asks the lifecycle whether its roles are
ready (`ensure_ready`, which may start a load), (2) is admitted by the
scheduler, (3) takes an `active_request` lease per role under those roles'
locks, (4) takes an `open_stream` lease when it streams, (5) runs
`prepare_executor` as a task beside it, (6) calls the Executor, reviews and
judges the answer or publishes a checked stream, (7) leaves a continuation
lease behind when it ends in tool calls, and (8) gives leases, pin and row back
in `finalize_request`. The idle scheduler, operators, the start-up code and the
tasks they leave behind move the roles meanwhile; the weekly job and the
training operators work on what finished turns left. Shared are the SQLite
rows, the role locks, `_tasks`, `_drain_tasks`, the Reviewer's locks and guard,
the content store, and the units themselves.

## 2. Plan

Done, in this order: the scheduler with its abstract pool; one lifecycle role;
their composition under ON/OFF; the execution graph; the stream; the loop; the
fan-out; the non-streaming turn; the Frontier; training and packages; the three
registries; several roles with their locks and the idle policy. Proofs exist
for the scheduler and its refinement, the lifecycle, the roles, the composition
of lifecycle and scheduler, the stream, the turn, the fan-out, the loop, the
execution graph, the Frontier, training and the registries. Section 6 says
which properties stay with TLC, and why.

## 3. Modules

### `ExecutorScheduler` and `LeasePool`

One action per method, because each runs under `self._lock`; `acquire` is cut
where the lock is dropped: the queueing, the `on_queued` callback
(`NotifyQueued`, `NotifyFails`), and the wait, which ends in `Resume` or
`GiveUp` (time-out or cancellation, before or after a promotion).

| Code | Model |
|---|---|
| `_owners`, `_queues`, `_round_robin`, `_local_enabled` | `owners`, `queues`, `roundRobin`, `localEnabled` |
| `_pins[...].lease_state` | `pins`, `"none"` when absent |
| where the calling coroutine is | `caller` |
| `acquire` | `Acquire` = `Overflow`, `Refuse`, `AdmitLocally`, `Enqueue` |
| `release`, `_promote` | `Release` = `ReleaseOwner` (`Promote`, `TurnOrder`), `ReleaseQueued`, `ReleaseRemote` |
| local 400 / `finalize_request`, a turn without a slot | `Detach` / `Finalize`, `NextTurn` |

Left out: times, queue positions and the epoch, which are only reported, and a
second `acquire` of a pinned id, which changes nothing (ids are fresh). A slot
of `Requests` serves one turn after another. `LeasePool` is what callers rely
on: a pool of leases in which nobody waits while a lease is free; `Pool` is the
refinement mapping (the pins).

### `Lifecycle`

One role. An action is the code between two awaits; a store method is one
SQLite transaction. `lock` is the role's `asyncio.Lock`, visible only where it
is kept across an await, which only `_unload_role` does for long. The actors
that may run `_unload_role` at once are the idle scheduler, one drain task, the
operators and the start-up code (`Workers`), each with its own `pc`.

| Code | Model |
|---|---|
| `LifecycleRecord.state`, `.retry_count` | `state`, `retry` |
| who still knows the current `transition_id`, `last_used_at` | `fresh`, `sameUse` |
| lease rows (`active_request` and `open_stream` of a request together), continuation rows | `leases`, `continuations` |
| `evaluation_guard`, `profile_guard` | `guards` |
| `lifecycle_desired_state`, `lifecycle_automation` | `desired`, `failures` (latched at `FailureLimit`) |
| systemd's view of the unit | `unit` |
| `_tasks[role]` and its load | `load`, `registered`, `cancelled` |
| `_load`, `_run_load`, `_fail` | `LoadBegins` … `LoadBreaks`, `FailLoad` |
| `_unload_role`, `_complete_unload`, `_fail_unload` | `QueueUnload`, `GetsLock`, `AdmitUnload`, `BeginStop`, `Stopped`, `CompleteUnload`, `FailUnload` |
| `set_enabled(False)` / `(True)` | `SwitchOff`, `SetDisabled`, `OffStep` / `SwitchOn`, `OnReopens`, `OnEnsures` |
| `recover_leases`, `reconcile_managed`, start-up OFF | `RecoverLeases`, `ReconcileManaged`, `StartUpDisables` |

Decisions a reader should know:

- A `transition_id` is a fresh uuid that is only compared. Instead of unbounded
  ids the model keeps the set of actors whose captured id is still current; a
  value captured and never used again is forgotten when its call returns.
- `LoadAdvances` may pass several phases in one poll, as the code does.
- `RecordFailure` may count fewer events than happened, since old ones leave
  the window; the latch also opens without driver faults, through cancelled
  loads, and `_mutation_disabled` (an event that could not be written) is not
  distinguished from it.
- The idle policy's arithmetic is replaced by its precondition here (any moment
  at which the role is ready and nothing blocks may be the second idle check);
  the arithmetic itself is in `RoleIdling`.
- A load that was created and has not run yet may be aborted by an OFF at any
  time, which allows more than the event loop's order of callbacks does.
- A crash loses coroutines and memory; a stop or start that systemd was given
  already may still happen. Start-up steps may crash too.
- A profile guard stays when its transition id was replaced; the repository's
  tests want it so.

### `RoleIdling`

Several roles under one coordinator: `acquire_request_leases` and
`claim_guards` (`Asks`, `TakesLock`, `OpensStream`, `Releases`), which take the
locks of all their roles in name order, and `run_scheduler_check` with
`calculate_idle_policy` (`RoundBegins`, `ChecksRole`, `Reconsiders`,
`QueuesUnload`, `AdmitsUnload`, `CompletesUnload`), Executor first. Dates are
readings of `clock`; an adaptive threshold is any member of `Thresholds`. A
round reads the clock once for all roles, as the code does. `quiet` is history:
the checks in a row since a role was last used.

### `ExecutorControl`

Extends `Lifecycle` (the Executor's role) and `ExecutorScheduler`; both extend
`RequestSlots`, so that a turn has one name in all three. Here are the handlers
that touch both: `CheckExecutor`, `Admit`,
`TakeLease`, `TakeStreamLease`, `FallBack`, `FinishLocal`, `Disconnected`, and
`set_executor_enabled` with `drain_after_pins` (`ExecutorOff`, `PinsDrained`,
`ExecutorOn`, `ExecutorOnJoined`). `executor_admission_lock` is held by one ON
or OFF from start to end, so the two `Operators` of `Lifecycle` become the
operator's `Console` and the background `PinDrain`. `strayStop` is a
`driver.stop` that goes on in its thread after the task that awaited it was
cancelled; a later start of the unit replaces it. A restart loses pins, queues
and `_local_enabled`, which are memory only.

### `ChatTurn`

The non-streaming handler. A turn's coroutine is its stage (`at`); every stage
leads on or to `End(t, exit)`, which stands for one of the handler's exits with
everything it gives back.

| Code | Model |
|---|---|
| pin, request leases of the roles, the Executor's and the dynamic roles' leases | `held[t]` |
| the usage row, the HTTP answer | `row[t]`, `answer[t]` |
| the task around `prepare_executor` | `prep[t]` |
| `reviewer_evaluation_lock`, `controller._review_lock`, `evaluation_guard`, its `transition_id` | `evaluation`, `lock`, `guard`, `record` / `claim[t]` |
| a call of `controller.review` | `call[t]`: `EnterEvaluation`, `EnterReview`, `Release` |
| admission, roles, leases, provider | `Accept`, `OpenRow`, `Admit`, `TakeLeases`, `Choose`, `Ensure`, `SelectProvider` |
| Executor call, check, review, Judge, Frontier B, correction, gate | `CallExecutor`, `CheckAnswer`, `Review`, `Judge`, `StandIn`, `FrontierB`, `Correct`, `TargetedReview`, `OutputGate` |
| `finalize_request`, disconnection | `Finalize` in `End`; `EarlyDisconnect`, `Disconnect` |

### `ChatStream`

One request on `/v1/chat/completions` or `/v1/responses`: the reader
(`driver`), the turn (`turn`), the stream's observation (`st`), what came out
of it (`sent`), what was recorded (`status`) and the Responses events
(`answer`). Text is what the output gate tells apart: no claim of completion,
a claim in an unfinished sentence, a claim in a finished one. Each chunk is one
action (`Content`, `Finish`, `ToolDelta`, `Markup`, `Done`, …); after the loop
`WrapUpText` or `WrapUpTools`, `PublishTools`, `Correct`, `ReportError`; then
`FinishStream`. `Retry`, `JudgeRetry` and `AwaitLoading` ask for another turn.

### `MoaFanout`

`prepare_executor` of one turn: selection (`Select`), fan-out under a semaphore
(`Fanout`, `Begin`), the Reasoner and its second attempt (`Reason`), the joins
until the common deadline (`JoinPlanner`, `JoinReviewer`, `JoinFrontier`) and
what the Executor is told (`Settle`). Plans, reviews and opinions are what the
code branches on; `credited` is whose output the Executor gets under a role's
name, `lost` the failures the coroutine has handled. `ProjectionIsHonest` speaks of
losses, rejections and required roles, not of whose words a role is credited with:
that is `CreditIsDue`, which the code violates for the Reviewer.

### `AgentLoop`

One session across turns that may overlap. A turn reads the stored
`SessionState` (`row`), works on a `copy`, and writes the whole copy back at
each save. `Observed` folds the client's tool results into it (evidence, file
changes, failures, progress); then admission, Executor, review (`AskReviewer`,
`EndReview`), Judge, `Conclude`. `reviewed` is the set of tool calls the
approving review was shown, `known` those the client had run when the turn that
holds the session began; both are history. A result whose call has no semantic
fingerprint (`blind`) ends the observation: the results behind it stay unobserved
in that turn, and a later one observes them. An answer may ask for several tools
(`ProposeCalls`): they are charged one by one and sent together. The transcript
is taken to be whole, and pending call ids, which nothing modelled asks for, are
left out.

### `GraphTemplates` and `ExecutionGraph`

`GraphTemplates` is `compile_execution_graph`: nodes and edges as functions of
the compile input. `ExecutionGraph` is the runtime (`core`, `attempts`), the
writes a call has still to do (`writes`), and the disk (`rows`, `saved`). A
call changes memory at once; attempts and checkpoint then reach the disk one
transaction each, between which the process may stop.

Which node is started when is decided by the callers in the controller, and
what they keep apart is in the guards: nodes whose attempt is finished right
after it is started (`Between`), steps that are taken while nothing is under
way, roles that judge an answer one after the other (`Alone`, `Judges`).
TEST and FRONTIER_B have one caller each, which starts them after the attempt
before them succeeded (`Follows`). Without that guard the model did more than
the code: an edge into TEST or FRONTIER_B may stay selected after a repair, and
a node started through it would be tested, or corrected, out of turn.
`PartialRerun` is guarded as its handler is called: after a late proposal
invalidated the evidence and before the Executor's answer is judged. A rerun of
an approved graph that a crash stopped in FRONTIER_B is left out by that guard.
`NeverStuck` excepts one state (`Unrecorded`): a restart lost the checkpoint
that says how an attempt ended, so the node still counts as running and nobody
will finish it. `RepairIsReviewed` does not compare the positions of attempts:
after a torn start an id is used twice and its row keeps its place, so the order
of the rows is not the order of the attempts. It speaks of the edges a core has
selected, which a repair takes back (`ReviewStands`).

### `Frontier`

`_run` over the profiles (`Begin`, `Lock`, `AttemptFails`, `Conclude`), the App
Server's turn protocol (`Open`, `StartTurn`, `TurnIsKnown`, `TurnEnds`,
`Interrupt`, `LeavesTurn`), `codex exec` (`Exec`), the thread map
(`Remember`), the paid provider (`Pay`; `ExpertPosts` in a thread). A paid call
takes its id once (`Enter`) and then repeats its billable request while the
answer is late or not what the schema wants; `posts` counts those requests.
From `MaxPaid` ids on (10 000 in the code, 1 in the run) an arbitrary one is
forgotten, so an id may pay again. The App Server is an environment that may
refuse, disappear or never answer; another process (`OtherProcess`) shares the
profile locks. A saved thread map is one this code has saved (`IsThreadMap`);
the loader would also take one with ids used twice.

### `TrainingData`

Rows of one week (`rows`), content objects, tombstones, holds, the package
registry and the one archive name of the week. `Collect`, `TransitionCandidate`,
`Tombstone`, `PlaceHold`, `PurgeRows` run in the event loop; the weekly job
selects there (`Fire`) and packs in a thread (`Refuse`, `LowOnDisk`, `Stage`,
`Publish`, `Record`); `Regenerate` takes the same steps without yielding.

### `SkillRegistry`, `KnowledgeRegistry`, `EvolutionRegistry`

Versions as records of a set; an operation reads versions and adds one.
`resolve_conflict` takes three transactions (`BeginResolution`, `StoreResolution`,
`CloseConflict`) and may be lost between them. A skill's file is written in two
steps (`PutSkill` up to `path.exists()`, `ReplaceFile` for `os.replace`), so two
processes may write one path and the later file stays; rows of the other two are
kept apart by their primary key. What the Executor is given is `ServedSkill`,
`ServedKnowledge`, `ServedArtifact`.

`put()` is an operation of its own (`AuthorSkill`, `AddKnowledge`, `PutVersion`):
it takes a version of any number and state, active ones too, and asks only what
the validators ask. The field `by` remembers it, and `SkillsAreValidated` and
`ServiceStartsWithACanary` speak of what the registry itself makes active: they
except what an operator put, which the tests do as well
(`test_skills.py:77-84`, `test_evolution.py:173-202`). In the same way the entry
that resolves a conflict is any entry the caller brings; `KnowledgeStands` says
that it is stored and approved, not that it has to do with the sides.

## 4. Runs

All bounds are constants of the configurations; nothing is capped inside the
modules except by the code's own limits.

| Run | Instance | What it shows |
|---|---|---|
| `scheduler` | 3 keys, 3+1+1 turns, 1 slot, queues 2 / 3, failing store | the views agree, a key is served in order, waiters are answered, no orphan pin, `LeasePool` is implemented |
| `lifecycle` | 1 request, 1 operator, both guards, faults, restarts, `close`, 2 retries, latch at 2; beside it 2 roles, 2 turns, a switch, thresholds, residency and cooldown of 1, clock to 5 | admitted unloads spare leased and guarded roles, work has one owner, leases of several roles are joint, two idle checks, switch and latch are obeyed |
| `control` | 2 turns of 1 key, 1 slot, ON/OFF with its drain, restarts, disconnections | leased work is pinned, OFF spares turns, records agree with the unit, OFF completes and leaves no load, but for the exceptions `WorkEnds` names; one turn may be served remotely |
| `graph` | all 2048 compile inputs; six small graphs executed (tool loop, judgement, both together, approval, join, fallback), tool budget 4, one failure, one load, torn writes | graphs are valid; attempts, joins, approvals and repairs stay straight |
| `stream` | both endpoints, 3 retries, 2 loading answers, departures | what is sent was checked, what is recorded was told, turns end and clients are answered |
| `loop` | 2 overlapping turns, 3 turns in all, 2 calls, 1 per answer, 1 operator command, restarts | an idle loop stops; SUCCESS is backed by a review of every change the turn has observed and every one made before it began |
| `fanout` | every selection of roles, 2 at a time, budget 4, disconnections | a loss lowers the confidence, a rejection stands, no required role is missing; the turn ends |
| `turn` | 1 high-risk and 1 ordinary turn, the Reviewer's record moves once, both settings | exits give everything back, the guard covers the reviews, judged answers are approved |
| `frontier` | 3 calls, 2 profiles, 2 sessions, map of 1, 1 retry, limit 2, 1 paid id remembered | threads are separate; money is the last resort, spent by one call of an id and bounded by its retries until ids are forgotten; calls end |
| `training` | 2 requests, 2 rows, 2 builds, 2 operator actions | exclusions and content are kept; nothing under a hold is removed, but for an archive that a new build of its week replaces |
| `training_revoked` | the same | a revocation during packing is lost (below) |
| `registries` | 2 payloads each, 2 operators; 4 skill files, 2 writers, 1 file from outside; 3 rows of knowledge, 1 conflict; 6 artifact versions, 2 of them put as they are | what a registry makes active passed its steps; no row or closed conflict is taken back |

**Why the bounds are enough.** The scheduler's actions concern at most the
releasing turn, the promoted one and the queue between them: three turns of one
key fill a queue and give FIFO an order to break, a second key makes the round
robin rotate, a third lets one be overtaken. In the lifecycle a request meets
an unload; one operator at a time is what the admission lock enforces for the
Executor. The two specifications of the `lifecycle` run share no state, so a
behaviour moves only one of them. Retries, failures and thresholds have their
limit where "one less", "at" and "past" differ. Two turns are what the
Reviewer's locks, a shared session and the Frontier's map of one thread need
to get in each other's way; a third call evicts. The graph's attempts per node
are bounded by its budgets.

Every property of a passing run has a mutant of the code that violates it.

### Disagreements with the documentation

The run `training_revoked`: `revoke` accepts a package whose archive is being
built; when the packing thread ends, the registry row is set to "completed" and
the revoked package is served (`weekly.py:1113`, `WEEKLY_PACKAGING.md:28-30`).

Found while modelling, and confirmed on the models, without a run of their own:

- Scheduler: the first low-risk turn at a busy slot is queued, not overflowed
  (`executor_scheduler.py:201`, `API_CLIENT_MODES.md:85-87`). A failing
  `on_queued` callback loses the turn's queue entry; `NoOrphanPin` and
  `WaitersAnswered` except a turn so lost.
- Lifecycle: OFF of a role recorded as cold writes `disabled` while its unit
  runs (`lifecycle.py:2188`, `OPERATIONS.md:1262-1263`); observe mode stops the
  unit of a role that was switched off (`api.py:986`, `MODEL_LIFECYCLE.md:115`);
  a continuation refreshed during a memory sample, which a turn on the remote
  Executor does too (`api.py:4245`), leaves an OFF queued for ever
  (`lifecycle.py:1946`, `OPERATIONS.md:1159-1160`), and remote turns that go on
  refreshing theirs keep it waiting as long; `WorkEnds` names both as premises;
  the lock-free stop of
  an OFF asks neither the latch nor a lease taken meanwhile
  (`lifecycle.py:2205-2217`); with two operators, which the endpoint allows for
  roles other than the Executor (`api.py:6612-6621`), ON during the
  cancellation of an OFF starts a second load. With a clock that steps back, a
  use may end at a reading before `ready_since` and escape the two checks.
- Control: OFF refuses a turn that is pinned and not yet leased
  (`api.py:6569`, `MODEL_LIFECYCLE.md:174-175`); a disconnection between pin and
  lease leaks the slot (`api.py:2912`, `VALIDATION.md:5720-5721`).
- Turn: an early disconnection leaves row, pin and leases; two reviews may
  collide at the guard, and a guard whose record moved stays set; a second POST
  of an adjudication runs the Judge again.
- Stream: a response that arrives as the client leaves is dropped unread
  (`api.py:6341`, `VALIDATION.md:727`); [DONE] overtakes content that is still
  held; a remote failure is recorded as "cancelled"; an admission error during
  a correction leaves without a payload.
- Loop: a turn that ends with SUCCESS overwrites the row another turn wrote
  meanwhile, and with it a file change that one had observed and no review saw
  (`state.py:320`; `SuccessLosesNoChange` is violated, with two calls in one
  answer within three turns), and a change behind a call without a fingerprint
  is not observed before the next turn (`controller.py:2701`); `SuccessIsEarned`
  excepts both. An operator's command is lost when an open turn saves
  (`VALIDATION.md:4487`); budgets are overspent by overlapping turns; the
  verdict PROVIDER_UNAVAILABLE is never lifted.
- Fan-out: the last artifact is credited to whoever is joined
  (`controller.py:4580`); delegates outlive their turn; an optional result that
  is complete at the deadline is not kept (`OPERATIONS.md:1203`).
- Graph: a tool node stays SUCCEEDED after a validated repair; JUDGE and
  FRONTIER_B have no edge for an exhausted budget
  (`DYNAMIC_MOA_COMPLETION_PLAN.md:184-186`); a torn write loses an attempt.
- Frontier: "the" paid request of a correlation id is up to
  `collaboration_retries` + 1 billable ones (`frontier.py:1389`,
  `test_frontier.py:1320`), and a late answer is paid for as well as the one that
  is used; a paid success closes the Codex circuit; an invalid schema never
  counts as a failure; an App Server turn interrupted before its id is known
  goes on (`FRONTIER.md:35`).
- Training: a held archive is replaced when a package of its week is built anew
  (`weekly.py:1085`; `PRIVACY_AND_RETENTION.md:15-16` has holds block an archive's
  removal; `HeldArchiveIsNotReplaced` is violated); a second tombstone after a resolved one is not held; the purge of a
  completed package without a path raises; a crash leaves "staging" for ever.
- Registries: two processes may replace a stored skill
  (`skills.py:319`, `SKILL_GOVERNANCE.md:3`); `put()` brings versions into service
  that the documented lifecycle would not (`RUNTIME_SELF_IMPROVEMENT.md`); of two
  operators who resolve one conflict both are told they did
  (`knowledge.py:331`); deprecating adds a version and the active one is still served
  (`KNOWLEDGE_BASE.md`, `SKILLS.md`); the same version in two stores hides both
  from `get`; harmful canaries never block a promotion; a rollback may select a
  candidate's payload (`RUNTIME_SELF_IMPROVEMENT.md`).

## 5. Fairness

Weak fairness only, and only of what runs by itself: a synchronous callback
returns; a promoted coroutine is scheduled; a turn that was admitted ends
(every stage has a timeout) and its continuation expires (a TTL); a load or
unload that is under way continues, since driver calls, probes and loads have
time limits; the drain tasks poll; start-up goes on; a unit that is activating
becomes active when nothing fails; a review that took its guard ends; a stream
has a deadline and its client reads or leaves; a Frontier attempt times out; a
delegate ends or its deadline passes. Nothing is assumed of new requests,
operators, the idle scheduler, queue time-outs, cancellations, faults, crashes,
or answers of remote services. `WorkEnds` has premises, each an exception the
code really has: the failure latch stays closed (once it has opened, the code
leaves an OFF to the operator), no turn loses its pin to an early disconnection,
remote turns sooner or later stop refreshing continuations, and none refreshes
one while an unload after the OFF samples the memory.

## 6. Proofs

Eight modules hold theorems. Each has one inductive invariant, checked by TLC
on the run's instance before it was proved, one lemma per operation or kind of
step, and PTL at the end. They hold for every value of the constants under the
named assumptions of the module (finite limits, positive numbers where the
configuration demands them, marker values such as `Free` outside the sets).

- **`ExecutorControlProofs`, first part** — the scheduler alone: `SlotsNeverIdleWhileQueued`,
  `CollectionsAgree`, `NoPinOutlivesItsTurn`, `KeysAreServedInOrder`,
  `SchedulerImplementsPool`, with a session store that may fail. No property is
  inductive alone: removing a turn from its queue keeps `_pins` and `_queues`
  in step only if it stands there once; promoting keeps the slots full only if
  the round robin's head has a non-empty queue; dropping a key from the round
  robin is right only if it stood there once. `SchedulerInv` is their
  conjunction with `SchedulerTypeOK` and `CallersMatchPins`. The refinement maps each step to a pool step
  or a stutter.
- **`LifecycleProofs`** — `UnloadsSpareUsers` (`UnloadsAreSafe`): whoever
  samples memory or stops the unit keeps the role's lock (`LockIsKept`), an
  admitted unload saw no lease and every later lease needs a ready record
  (`UnloadsOnlyUnused`), and a guard keeps the unit (`GuardKeepsUnit`), with a
  load's retry count below its limit. `AutomationIsObeyed` is an action
  property that follows step by step. `WorkHasItsOwner` (`WorkIsOwned`) has an
  invariant of its own, `Owned`: a load that is alive is the one its canceller
  or close() waits for, start-up and close() are alone, and a record that says
  work is queued or done has a worker at it. Its hypothesis `Serialised` is one
  operator call at a time, which `executor_admission_lock` gives the Executor;
  with two operators the property is false (section 4).
  Its last part is `RoleIdling`. `SeveralRolesAreLeasedTogether`: locks are
  taken in ascending order, so whoever keeps the last lock somebody waits for
  lacks only later ones and waits for nobody. `OnlyTheIdleAreStopped`: a count
  says what the checks saw (`CountsStand`), a check in progress stands unless
  the role was used (`CheckStands`, `CheckFails`), and every date is at most
  the clock (`ClocksAgree`).
- **`ExecutorControlProofs`, second part** — the composition. Nearly every step of
  `ControlNext` is a step of `Lifecycle` and one of `ExecutorScheduler`
  (`ControlIsLifecycle`, `TurnMoves`), so `IInv`, `Owned` and `SchedulerInv` are
  taken over from their own proofs; three steps are not (an OFF behind pins, an
  ON that cancels the drain, a stray stop) and keep them by lemmas of their own.
  `Serialised` is no hypothesis here: that an ON goes on alone (`OnIsAlone`) is
  proved of the handlers (`OperatorsTakeTurns`). What the handlers add is
  `ControlFits`: the record and who works on it (`RecordFits`), leases and pins
  (`LeasesFit`, `CallersFit`: a lease is work in progress, work in progress is
  of a local turn, and a local turn owns a slot), the operator's calls
  (`OperatorFits`: an OFF at work has found a role without leases and keeps
  turns away, and what is left of it goes with the switch), the stop that an
  aborted OFF leaves behind (`StrayFits`), and the unit (`ServiceFits`).
  `OffSparesTurns` and `LocalWorkIsBounded` hold with failing drivers, probes
  and units; `LocalWorkHasItsPin` and `RecordsAlwaysAgree` assume `~Faults`, as
  their run does: a failing memory sample moves a leased role to "failed", and a
  unit that fails or restarts on its own leaves the record behind.
- **`ChatTurnProofs`** — `EndedTurnsAreSettled`, `TheGuardStandsWhileReviewed`,
  `NothingIsSentUnapproved`: a turn's stage fixes its books (`BooksFit`), who
  may be in `review()` for it (`CallFits`) and what the Judge said
  (`JudgeFits`); the two locks are where the calls say (`LocksFit`); until the
  record moves, the claim is with whoever is in the review (`GuardFits`). Every
  exit is one lemma.
- **`ChatStreamProofs`** — `WhatIsSentWasChecked`, `WhatIsRecordedWasTold`:
  where the request stands fixes whether it has a pin (`PinsFit`), tool calls
  are looked at before they are published (`ChecksFit`), and a stream counts as
  completed only from its [DONE] on and without an error (`TellingFits`). A
  step inside the stream needs only what it says of the observation and of
  what was sent (`StreamKeeps`).
- **`FrontierProofs`** — `ThreadsStaySeparate`, `MoneyIsTheLastResort`: a
  profile's lock is with the call that uses it, a call's thread is its own,
  entries of a map have different ids and sessions, and until more ids
  were taken than are remembered, all that were taken are remembered and each
  was taken by one call (`PaidOnce`, over the cardinality of `Entered`).
- **`ControllerProofs`** — the fan-out, and the loop. `TheProjectionAdmitsItsLosses` (`ProjectionIsHonest`):
  the projection is written by the coroutine and by the Reviewer's task, so the
  invariant says at every stage who can still write. The Reviewer's task is over
  once joined (`JoinedIsOver`), a role is credited only from the stage that
  joins it and when its task ended well (`CreditFits`), a loss that came after
  the confidence was derived lowered it (`LossFits`), and a rejection is
  unseated only by the Frontier's (`RejectionFits`).
  `LoopsWithoutProgressEnd` (`IdleLoopsStop`) and `SuccessIsNeverAssumed`
  (`SuccessIsEarned`): what a turn observes is a fold over the client's tool
  results, a recursive function of a LET. That it keeps what the invariant says
  of a session is an induction over numbers, done with a set instead of a
  predicate (`AllNumbers`: a set that holds 0 and, with a number, the next,
  holds them all). A session may be stored by any turn at any time, so the
  invariant (`SessionFits`) holds of the row and of every copy: an idle count at
  the limit has a reason (`IdleFits`), what a review approved and what it
  knew of stay together until the next change is observed (`ApprovalFits`), and
  what had been run when a turn began is among what it has observed (`CallsFit`):
  after n calls of the transcript every one of them that was run is observed,
  unless the observation was cut short (`Accumulated`).
- **`ExecutionGraphProofs`** — `NobodyRunsAheadOfTheGraph`
  (`PrerequisitesHold`), for every set of compile inputs, torn writes included.
  What the calls rely on is the shape of every compiled graph (`Sound`), proved
  of the templates part by part. The invariant `GraphInv` has four parts: types
  (`TypeFits`); memory and disk (`DiskFits`): the writes of a call come in an
  order in which a row precedes the checkpoint that counts it (`Orderly`;
  CHECKPOINT is the exception), so an attempt that a checkpoint knows is in the
  rows; joins (`JoinFits`): no branch is reset while the join behind it is not,
  for which `_descendants` must contain what its edges lead to (`Reach`); and
  approvals (`ApprovalFits`): a row of an Executor, or of what lies between, is
  written after the row of the approval.
  `AttemptsFollowEachOther` (`AttemptsAreSound`) rests on `AttemptInv` beside it:
  which attempts may be live beside each other (`ApartFits`); what the edges a
  core selected say of its states, and with them of what is live (`CloseFits`: a
  closing edge shut every node but the end, what comes after the parallel group
  comes after all of it, so the terminal node starts alone); nothing live in a
  final graph (`FinalFits`); and the Executor's count against the traversals,
  with one to spare while it may start (`PaidFits`, over the sums of `Total`).
  Each part is stated for memory, for the checkpoint, and for the rows beside
  the checkpoint, because it is from those that a restart begins again.
  `GraphsRunToTheirEnd` (`GraphsComplete`) has two halves. That every compiled
  graph passes the validator: an answer passes its nodes in the order of `Rank`;
  an unbounded edge leads to a higher rank (`Onward`), every node but the entry
  has an edge from a lower one (`EntriesThere`) and every node but the end one to
  a higher; the search of the validator closes under the edges (`ReachClosed`),
  so an induction over the ranks (`AllNumbers`) finds every node. That the
  execution never halts before its end: in memory and in the checkpoint
  (`LeadFits`), while the graph has not ended badly, every done node has selected
  an edge onward (`LeadsFrom`), the parallel branches are opened all at once, no
  node is cancelled, and none is skipped but the fallback, or the Executor behind
  a tool that did its work. Then the furthest done node (`Furthest`) leads to a
  node that is ready, or to a join one of whose branches is.
- **`LearningProofs`** — training: `TheExcludedStayOut`, `ContentIsKept`,
  `HoldsAreObeyed`: a selection names rows that existed and were not excluded
  when it was made, and keeps doing so whatever operators do while it is packed
  (`Selections`). The registries: `OnlyValidatedSkills`, `KnowledgeIsConsistent`,
  `PromotionByCanary`: a passed validation in a file is about that file's
  procedure, an operator's own file too, and so in what is being written
  (`ValidatedAsItIs`); a resolution in progress is approved, and stored before it
  closes its conflict (`ResolutionsAreSound`); a version of the registry has the
  stages before it (`StagesFollow`), which rows that only grow never take away.

**Only model-checked.** All liveness properties and everything with ENABLED,
which TLAPS does not reach with its present backends. Of the safety properties,
`RepairIsReviewed`: its invariant relates the edges selected from the Executor,
the reviewer and what follows them, over the shape of every template; TLC
checks it on six graphs.

## 7. Not modelled

In the modelled parts: parsing of load progress and the quantile behind an
adaptive threshold, `disable_all`, token and cost budgets, criteria of the loop
one by one, prompts and projections, rewriting of tool names and arguments in
streams, graph deadlines and compatibility hashes, the repository-editing task
of the Frontier's command line, what sanitisation finds, export of packs and
data sets, the cron expression, the profile state file. A database write that
fails is modelled only at the scheduler's callback. Everything else is in the
table of section 1, with its reason in `PROJECT.json`.
