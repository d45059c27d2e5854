----------------------------- MODULE RoleIdling -----------------------------
(***************************************************************************)
(* Several roles under one LifecycleCoordinator (gateway/src/dgx_moa/      *)
(* lifecycle.py): the locks that leases and guards of several roles take   *)
(* together, and the idle policy by which the scheduler decides, by clock  *)
(* readings and two checks, that a role may be unloaded.  Lifecycle shows  *)
(* one role in detail; here a load and an operator's OFF are one step.     *)
(*                                                                         *)
(* Roles are numbered in the order of their names, "executor" first.  The  *)
(* clock counts whole units and only advances.                             *)
(***************************************************************************)
EXTENDS Naturals, Sequences

CONSTANTS RoleCount,
          Unloadable,   \* roles with idle_unload_enabled
          Turns,        \* slots for chat turns
          Switches,     \* profile switches, which guard every role
          Thresholds,   \* idle thresholds, fallback or adaptive
          Residency,    \* minimum_ready_residency_seconds
          Cooldown,     \* load_unload_cooldown_seconds
          MaxClock      \* bound of the model

Roles == 1..RoleCount
Executor == 1
Takers == Turns \cup Switches

ASSUME RoleIdlingAssumption ==
    /\ RoleCount \in Nat \ {0} /\ Unloadable \subseteq Roles /\ MaxClock \in Nat \ {0}
    /\ Thresholds \subseteq Nat \ {0} /\ Residency \in Nat \ {0} /\ Cooldown \in Nat
    /\ Turns \cap Switches = {} /\ "none" \notin Takers /\ "scheduler" \notin Takers

VARIABLES
    clock,      \* self.clock()
    records,    \* of each role: state, ready_since, last_used_at (0 for None)
                \* and transitioned_at
    keeper,     \* who keeps _locks[role] across an await
    rows,       \* turns with request leases of the role
    taker,      \* where each caller of the lock takers is, and its roles
    idleState,  \* _idle_state: activity (0 for None) and count of the last check
    round,      \* the scheduler's round
    quiet       \* history: checks in a row since the role was last used

idleVars == <<clock, records, keeper, rows, taker, idleState, round, quiet>>

NoRound == [at |-> "asleep", todo |-> <<>>, now |-> 0, known |-> FALSE, used |-> 0]
NoRoles == [at |-> "idle", roles |-> {}]
\* Dates of a role the scheduler leaves alone, and those before the next
\* ready_since, decide nothing: they are 0.
Now(r) == IF r \in Unloadable THEN clock ELSE 0
Ready(r) == [state |-> "ready", since |-> Now(r), used |-> 0, moved |-> Now(r)]
Cold == [state |-> "cold", since |-> 0, used |-> 0, moved |-> 0]

IdleInit ==
    /\ clock = 1
    /\ records = [r \in Roles |-> Ready(r)]
    /\ keeper = [r \in Roles |-> "none"] /\ rows = [r \in Roles |-> {}]
    /\ taker = [x \in Takers |-> NoRoles]
    /\ idleState = [r \in Roles |-> [activity |-> 0, count |-> 0]]
    /\ round = NoRound /\ quiet = [r \in Roles |-> 0]

-----------------------------------------------------------------------------
(***************************************************************************)
(* Leases and guards: acquire_request_leases, claim_guards and             *)
(* release_guards take the locks of all their roles, sorted by name, call  *)
(* the store once and leave.  One lock is taken at a time, because the     *)
(* coroutine may have to wait for each.                                    *)
(***************************************************************************)
LocksOf(x) == {r \in Roles : keeper[r] = x}
Missing(x) == taker[x].roles \ LocksOf(x)
First(set) == CHOOSE r \in set : \A q \in set : r <= q

\* Mutant: guards take the locks in the scheduler's order, Executor last.
NextLockAsOrdered(x) ==
    IF x \in Switches /\ Missing(x) # {Executor}
      THEN First(Missing(x) \ {Executor}) ELSE First(Missing(x))

NextLock(x) == First(Missing(x))

\* The roles whose last request lease goes are dated, in one transaction.
GiveBack(x) ==
    /\ rows' = [r \in Roles |-> rows[r] \ {x}]
    /\ records' = [r \in Roles |->
                     IF rows[r] = {x} THEN [records[r] EXCEPT !.used = Now(r)] ELSE records[r]]
    /\ quiet' = [r \in Roles |-> IF x \in rows[r] THEN 0 ELSE quiet[r]]
    /\ taker' = [taker EXCEPT ![x] = NoRoles]

TakerFrame == UNCHANGED <<clock, idleState, round>>

\* A turn asks for the leases of its roles, a switch for the guards of all,
\* which it claims and releases alike (the flags themselves are in Lifecycle).
Asks(x) ==
    /\ taker[x].at = "idle"
    /\ \E asked \in (IF x \in Turns THEN (SUBSET Roles) \ {{}} ELSE {Roles}) :
           taker' = [taker EXCEPT ![x] = [at |-> "locking", roles |-> asked]]
    /\ UNCHANGED <<records, keeper, rows, quiet>> /\ TakerFrame

\* A streamed answer takes one more lease, of the Executor alone.
OpensStream(x) ==
    /\ taker[x].at = "holding" /\ x \in rows[Executor]
    /\ taker' = [taker EXCEPT ![x] = [at |-> "locking", roles |-> {Executor}]]
    /\ UNCHANGED <<records, keeper, rows, quiet>> /\ TakerFrame

\* The store's transaction under all the locks: leases of all roles or, unless
\* all are ready, of none; the turn then fails and gives back what it has.
TakesRows(x) ==
    IF \A r \in taker[x].roles : records[r].state = "ready"
      THEN /\ rows' = [r \in Roles |->
                         IF r \in taker[x].roles THEN rows[r] \cup {x} ELSE rows[r]]
           /\ quiet' = [r \in Roles |-> IF r \in taker[x].roles THEN 0 ELSE quiet[r]]
           /\ taker' = [taker EXCEPT ![x].at = "holding"] /\ UNCHANGED records
      ELSE GiveBack(x)

TakesLock(x) ==
    /\ taker[x].at = "locking" /\ keeper[NextLock(x)] = "none"
    /\ IF Missing(x) # {NextLock(x)}
         THEN /\ keeper' = [keeper EXCEPT ![NextLock(x)] = x]
              /\ UNCHANGED <<records, taker, rows, quiet>>
         ELSE /\ keeper' = [r \in Roles |-> IF keeper[r] = x THEN "none" ELSE keeper[r]]
              /\ IF x \in Turns THEN TakesRows(x)
                 ELSE taker' = [taker EXCEPT ![x] = NoRoles] /\ UNCHANGED <<records, rows, quiet>>
    /\ TakerFrame

\* The end of the turn, which needs no lock.
Releases(x) ==
    /\ taker[x].at = "holding"
    /\ GiveBack(x)
    /\ UNCHANGED keeper /\ TakerFrame

-----------------------------------------------------------------------------
(***************************************************************************)
(* The idle policy and the scheduler.                                      *)
(***************************************************************************)
\* _activity_at.
Activity(record) ==
    IF record.state # "ready" THEN 0
    ELSE IF record.used > record.since THEN record.used ELSE record.since

\* Mutant: a use between two checks does not reset the count.
NextCountUnreset(r, record, blocked, now, previous, threshold) ==
    IF \/ r \notin Unloadable \/ record.state # "ready" \/ blocked
       \/ now < record.since + Residency \/ now < record.moved + Cooldown
       \/ now <= Activity(record) + threshold
      THEN 0 ELSE IF previous.count = 0 THEN 1 ELSE 2

\* calculate_idle_policy: the count for the next check, at 2 to be unloaded.
NextCount(r, record, blocked, now, previous, threshold) ==
    IF \/ r \notin Unloadable \/ record.state # "ready" \/ blocked
       \/ now < record.since + Residency \/ now < record.moved + Cooldown
       \/ previous.activity \notin {0, Activity(record)}
       \/ now <= Activity(record) + threshold
       \/ previous.count > 0 /\ previous.activity = 0
      THEN 0 ELSE IF previous.count = 0 THEN 1 ELSE 2

\* _ordered_roles: the Executor is checked last.
CheckOrder == [i \in 1..RoleCount |-> IF i = RoleCount THEN Executor ELSE i + 1]

Checked == Head(round.todo)

\* The rest of the round runs on the reading of the clock it began with.
NextRole == IF Len(round.todo) = 1 THEN NoRound
            ELSE [round EXCEPT !.at = "checking", !.todo = Tail(@), !.known = FALSE, !.used = 0]

RoundBegins ==
    /\ round.at = "asleep"
    /\ round' = [NoRound EXCEPT !.at = "checking", !.todo = CheckOrder, !.now = clock]
    /\ UNCHANGED <<clock, records, keeper, rows, taker, idleState, quiet>>

\* One check.  When it confirms the first, _unload_role is called with the
\* record as it was read.
ChecksRole ==
    /\ round.at = "checking"
    /\ \E threshold \in Thresholds :
         LET r     == Checked
             count == NextCount(r, records[r], rows[r] # {}, round.now, idleState[r], threshold)
         IN  /\ idleState' = [idleState EXCEPT ![r] =
                                [activity |-> Activity(records[r]), count |-> count]]
             /\ quiet' = [quiet EXCEPT ![r] = IF @ < 2 /\ r \in Unloadable /\ rows[r] = {} THEN @ + 1 ELSE @]
             /\ round' = IF count < 2 THEN NextRole
                         ELSE [round EXCEPT !.at = "locking", !.known = TRUE,
                                            !.used = records[r].used]
    /\ UNCHANGED <<clock, records, keeper, rows, taker>>

\* After the unload or its refusal the policy is asked once more.
Reconsiders(r) ==
    /\ \E threshold \in Thresholds :
         idleState' = [idleState EXCEPT ![r] =
             [activity |-> Activity(records'[r]),
              count |-> NextCount(r, records'[r], rows[r] # {}, round.now, @, threshold)]]
    /\ round' = NextRole

Moved(r, state) == [records EXCEPT ![r] = [@ EXCEPT !.state = state, !.moved = Now(r)]]
GoesCold(r) == records' = [records EXCEPT ![r] = Cold]

SchedulerFrame == UNCHANGED <<clock, rows, taker, quiet>>

\* _unload_role: the lock, queue_unload, and the memory sample in a thread.
QueuesUnload ==
    /\ round.at = "locking" /\ keeper[Checked] = "none"
    /\ IF records[Checked].state = "ready" /\ round.known
         THEN /\ records' = Moved(Checked, "unload_queued")
              /\ keeper' = [keeper EXCEPT ![Checked] = "scheduler"]
              /\ round' = [round EXCEPT !.at = "sampling"] /\ UNCHANGED idleState
         ELSE UNCHANGED <<records, keeper>> /\ Reconsiders(Checked)
    /\ SchedulerFrame

AdmitsUnload ==
    /\ round.at = "sampling"
    /\ IF rows[Checked] = {} /\ records[Checked].used = round.used
         THEN /\ records' = Moved(Checked, "unloading")
              /\ round' = [round EXCEPT !.at = "stopping"] /\ UNCHANGED <<keeper, idleState>>
         ELSE /\ records' = Moved(Checked, "ready")
              /\ keeper' = [keeper EXCEPT ![Checked] = "none"]
              /\ Reconsiders(Checked)
    /\ SchedulerFrame

CompletesUnload ==
    /\ round.at = "stopping"
    /\ GoesCold(Checked)
    /\ keeper' = [keeper EXCEPT ![Checked] = "none"]
    /\ Reconsiders(Checked)
    /\ SchedulerFrame

-----------------------------------------------------------------------------
Ticks ==
    /\ clock < MaxClock /\ clock' = clock + 1
    /\ UNCHANGED <<records, keeper, rows, taker, idleState, round, quiet>>

\* The role's record moves under its lock for another reason: a load is over,
\* or an operator's OFF, which waits until nothing holds the role.
MovesOtherwise(r) ==
    /\ keeper[r] = "none"
    /\ \/ records[r].state = "cold"
          /\ records' = [records EXCEPT ![r] = Ready(r)]
       \/ records[r].state = "ready" /\ rows[r] = {} /\ GoesCold(r)
    /\ round' = IF round.at = "locking" /\ r = Checked
                  THEN [round EXCEPT !.known = FALSE] ELSE round
    /\ quiet' = [quiet EXCEPT ![r] = 0]
    /\ UNCHANGED <<clock, keeper, rows, taker, idleState>>

IdleNext ==
    \/ \E x \in Takers : Asks(x) \/ TakesLock(x)
    \/ \E x \in Turns : OpensStream(x) \/ Releases(x)
    \/ RoundBegins \/ ChecksRole \/ QueuesUnload \/ AdmitsUnload \/ CompletesUnload
    \/ Ticks \/ \E r \in Roles : MovesOtherwise(r)

IdleSpec == IdleInit /\ [][IdleNext]_idleVars

-----------------------------------------------------------------------------
(***************************************************************************)
(* Properties.                                                             *)
(***************************************************************************)
\* Callers that take several locks never wait for one another in a circle.
NoWaitCycle ==
    \A W \in (SUBSET Takers) \ {{}} :
        \E x \in W : taker[x].at # "locking" \/ keeper[NextLock(x)] \notin W

\* A turn that works has leases of every role it asked for, and they serve.
LeasedRolesServe ==
    \A x \in Turns : taker[x].at = "holding" =>
        \A r \in taker[x].roles :
            x \in rows[r] /\ records[r].state \in {"ready", "unload_queued"}

\* Several roles are leased together or not at all, whatever else takes their
\* locks, and nobody waits for good (lifecycle.py:2036, 2099, 2114).
LeasesAreJoint == NoWaitCycle /\ LeasedRolesServe

\* The scheduler stops a role only after two checks in a row with no use in
\* between or since, when it was idle for longer than the smallest threshold
\* and ready for its minimum residency (lifecycle.py:377-411, 1838-1906).
IdleIsConfirmed ==
    round.at = "stopping" =>
        /\ rows[Checked] = {} /\ quiet[Checked] = 2
        /\ LET record == records[Checked] IN
           /\ round.now >= record.since + Residency
           /\ \E threshold \in Thresholds :
                 round.now > record.since + threshold /\ round.now > record.used + threshold

=============================================================================
