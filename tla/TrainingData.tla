---------------------------- MODULE TrainingData ----------------------------
(***************************************************************************)
(* Training data and its weekly package (gateway/src/dgx_moa/training.py   *)
(* and weekly.py): finished turns leave events and candidates, objects in  *)
(* a content store hold what they say, operators review, exclude, hold and *)
(* purge them, and the candidates of a week are packed into one archive    *)
(* that is registered, verified, revoked, regenerated and removed.         *)
(*                                                                         *)
(* The handlers run in the event loop, one after the other; the weekly job *)
(* selects its candidates there and then packs them in a thread, so        *)
(* anything may happen between its steps.  Regeneration takes the same     *)
(* steps in the event loop, which meanwhile serves nobody.  One week is    *)
(* modelled: all archives of a week have one name.                         *)
(***************************************************************************)
EXTENDS Naturals, Sequences, FiniteSets, SequencesExt

CONSTANTS Requests,
          MaxRows,        \* bound: collected turns
          MaxBuilds,      \* bound: archives built
          MaxOps          \* bound: what operators do

ASSUME TrainingDataAssumption ==
    {MaxRows, MaxBuilds, MaxOps} \subseteq Nat /\ "none" \notin Requests

Ids == 1..MaxRows                  \* of collected turns, in their order

VARIABLES
    over,        \* the week is over: its rows are what the job selects from
    rows,        \* id -> the candidate and the event of a turn: see NoRow
    objects,     \* the files of the content store: <<kind, id or request>>
    tombstones,  \* training_tombstones
    holds,       \* the holds in force, of both stores: <<scope, target, kind>>
    resolved,    \* deletion_request holds that were released
    registry,    \* weekly_packages: key -> its status, sha and whether it has a path
    order,       \* its keys by updated_at
    archive,     \* the file under the archive's name: see NoArchive
    workers,     \* the weekly job, and a regeneration in the event loop: see Idle
    builds, ops  \* counters for the bounds

vars == <<over, rows, objects, tombstones, holds, resolved, registry, order, archive, workers,
          builds, ops>>
store == <<over, rows, objects, tombstones>>
packages == <<registry, order, archive, builds, workers>>
held == <<holds, resolved>>

NoRow == [request |-> "none", event |-> FALSE, state |-> "none",
          eligible |-> FALSE]       \* training_eligible
NoArchive == [build |-> 0, items |-> {}, knew |-> {}]
Broken == MaxBuilds + 1            \* the content of a damaged archive
Idle == [at |-> "idle", items |-> {},
         knew |-> {},                  \* history: the tombstones when it selected
         old |-> {},                   \* regenerate: the revoked key
         build |-> 0]

Init ==
    /\ over = FALSE /\ rows = [i \in Ids |-> NoRow] /\ objects = {} /\ tombstones = {}
    /\ holds = {} /\ resolved = {}
    /\ registry = << >> /\ order = <<>> /\ archive = NoArchive
    /\ workers = [w \in {"job", "loop"} |-> Idle]
    /\ builds = 0 /\ ops = 0

\* The event loop is not inside a regeneration.
Free == workers["loop"].at = "idle"
Operator == Free /\ ops < MaxOps /\ ops' = ops + 1

-----------------------------------------------------------------------------
(***************************************************************************)
(* Collection and review.                                                  *)
(***************************************************************************)
NextRow(i) == rows[i].request = "none" /\ \A j \in 1..(i - 1) : rows[j].request # "none"

\* candidate_from_trace: an ineligible trace (opt-out, policy, exclusion, licence, neither
\* success nor failure) leaves a rejected candidate.
FirstState(eligible) == IF eligible THEN "sanitized" ELSE "rejected"

\* What a turn leaves; one row stands for the candidates of all its roles.
Row(r, eligible) ==
    [request |-> r, event |-> TRUE, eligible |-> eligible, state |-> FirstState(eligible)]
Content(r, eligible) == IF eligible THEN {<<"content", r>>} ELSE {}

Collect(r) ==
    /\ Free /\ ~over /\ r \notin tombstones
    /\ \E i \in Ids, eligible \in BOOLEAN :
         /\ NextRow(i) /\ rows' = [rows EXCEPT ![i] = Row(r, eligible)]
         /\ objects' = objects \cup {<<"event", i>>, <<"candidate", i>>} \cup Content(r, eligible)
    /\ UNCHANGED <<ops, over, tombstones, held, packages>>

EndWeek == ~over /\ over' = TRUE
           /\ UNCHANGED <<ops, rows, objects, tombstones, held, packages>>

\* REVIEW_TRANSITIONS, but for "collected", which nothing creates.
Allowed(state) ==
    CASE state = "sanitized"   -> {"scored", "quarantined", "approved", "rejected"}
      [] state = "scored"      -> {"quarantined", "approved", "rejected"}
      [] state = "quarantined" -> {"sanitized", "rejected"}
      [] state = "approved"    -> {"packaged", "revoked"}
      [] state \in {"rejected", "packaged"} -> {"revoked"}
      [] OTHER -> {}

TransitionCandidate(i) ==
    /\ Operator
    /\ \E target \in Allowed(rows[i].state) :
         /\ target \in {"approved", "packaged"} => rows[i].eligible
         /\ rows' = [rows EXCEPT ![i].state = target]
    /\ UNCHANGED <<over, objects, tombstones, held, packages>>

\* Mutant: the candidates that exist already are forgotten.
TombstoneOnly(r) ==
    /\ Operator /\ tombstones' = tombstones \cup {r}
    /\ holds' = IF r \in resolved THEN holds ELSE holds \cup {<<"request", r, "deletion">>}
    /\ UNCHANGED <<over, rows, objects, resolved, packages>>

\* tombstone: INSERT OR IGNORE does not bring back a hold that was released.
Tombstone(r) ==
    /\ Operator /\ tombstones' = tombstones \cup {r}
    /\ rows' = [i \in Ids |-> IF rows[i].request = r /\ rows[i].state # "none"
                                THEN [rows[i] EXCEPT !.state = "revoked"] ELSE rows[i]]
    /\ holds' = IF r \in resolved THEN holds ELSE holds \cup {<<"request", r, "deletion">>}
    /\ UNCHANGED <<over, objects, resolved, packages>>

ResolveDeletionRequest(r) ==
    /\ Operator /\ <<"request", r, "deletion">> \in holds
    /\ holds' = holds \ {<<"request", r, "deletion">>} /\ resolved' = resolved \cup {r}
    /\ UNCHANGED <<store, packages>>

\* place_hold and release_hold of both stores.
PlaceHold ==
    /\ Operator
    /\ \/ \E i \in Ids : rows[i].request # "none" /\
            (holds' = holds \cup {<<"candidate", i, "operator">>}
             \/ holds' = holds \cup {<<"request", rows[i].request, "operator">>})
       \/ \E k \in DOMAIN registry : holds' = holds \cup {<<"package", k, "operator">>}
    /\ UNCHANGED <<store, resolved, packages>>

ReleaseHold ==
    /\ Operator
    /\ \E h \in holds : h[3] = "operator" /\ holds' = holds \ {h}
    /\ UNCHANGED <<store, resolved, packages>>

Held(scope, target) == \E kind \in {"deletion", "operator"} : <<scope, target, kind>> \in holds

PurgeableCandidate(i) ==
    /\ rows[i].state \in {"quarantined", "rejected", "revoked"}
    /\ ~Held("candidate", i) /\ ~Held("request", rows[i].request)
PurgeableEvent(i) == rows[i].event /\ ~Held("request", rows[i].request)

\* Mutant: what a removed event refers to goes with it.
UnreferencedWith(events, candidates) ==
    {<<"event", i>> : i \in events} \cup {<<"candidate", i>> : i \in candidates}
      \cup {<<"content", rows[i].request>> : i \in events}

\* The payloads of removed rows; what the payloads themselves refer to stays for good.
Unreferenced(events, candidates) ==
    {<<"event", i>> : i \in events} \cup {<<"candidate", i>> : i \in candidates}

\* purge_retention with apply: rows before a date.
PurgeRows ==
    /\ Free
    /\ \E eventBefore, candidateBefore \in Ids :
         LET events == {i \in 1..eventBefore : PurgeableEvent(i)}
             candidates == {i \in 1..candidateBefore : PurgeableCandidate(i)} IN
           /\ rows' = [i \in Ids |->
                [rows[i] EXCEPT !.event = @ /\ i \notin events,
                                !.state = IF i \in candidates THEN "none" ELSE @]]
           /\ objects' = objects \ Unreferenced(events, candidates)
    /\ UNCHANGED <<ops, over, tombstones, held, packages>>

-----------------------------------------------------------------------------
(***************************************************************************)
(* The weekly package.                                                     *)
(***************************************************************************)
\* The source snapshot, which with the week and the configuration is the idempotency key.
PackageableCandidates ==
    {<<i, rows[i].state>> : i \in {j \in Ids : /\ rows[j].state \in {"approved", "sanitized", "scored"}
                                               /\ rows[j].eligible
                                               /\ rows[j].request \notin tombstones}}

Keys == DOMAIN registry
Status(k) == IF k \in Keys THEN registry[k].status ELSE "none"
\* A package that says where its archive is.
Names(k) == k \in Keys /\ registry[k].path /\ registry[k].status # "retention_deleted"

\* registry.set: what is not given becomes NULL.
Set(k, record) ==
    /\ registry' = [j \in Keys \cup {k} |-> IF j = k THEN record ELSE registry[j]]
    /\ order' = Append(SelectSeq(order, LAMBDA j : j # k), k)
With(status) == [status |-> status, path |-> FALSE, sha |-> 0]

Selects(w, old) ==
    /\ builds < MaxBuilds
    /\ workers' = [workers EXCEPT ![w] = [Idle EXCEPT !.at = "selected", !.old = old, !.knew = tombstones,
                                                      !.items = PackageableCandidates]]
    /\ UNCHANGED <<store, held, registry, order, archive, builds>>

\* run_weekly_package_job; the scheduler may fire twice for a week.
Fire == Free /\ over /\ workers["job"].at = "idle" /\ Selects("job", {}) /\ UNCHANGED ops

\* Without an archive path there is no manifest to start from.
Regenerate(k) == Free /\ Status(k) = "revoked" /\ Names(k) /\ Selects("loop", k) /\ UNCHANGED ops

Ends(w) == workers' = [workers EXCEPT ![w] = Idle]

\* resolve_revocation, of the new key and of the one it supersedes.
Resolve(w, keys) ==
    LET mine == {h \in holds : w = "loop" /\ h[1] = "package" /\ h[2] \in keys /\ h[3] = "deletion"} IN
      holds' = holds \ mine /\ resolved' = resolved \cup {h[2] : h \in mine}

Replays(w) == /\ Status(workers[w].items) = "completed"
              /\ archive.build = registry[workers[w].items].sha

Replay(w) ==
    /\ workers[w].at = "selected" /\ Replays(w) /\ Ends(w) /\ Resolve(w, {workers[w].old})
    /\ UNCHANGED <<ops, store, registry, order, archive, builds>>

\* prepare_candidates refuses them all for the sake of one; a revoked package, or the name
\* of another one's archive, need an explicit regeneration.
Refused(w) ==
    \/ workers[w].items # {}
    \/ w = "job" /\ (Status(workers[w].items) = "revoked" \/ archive # NoArchive)
    \/ archive # NoArchive /\ \A k \in Keys : ~(Names(k) /\ Status(k) = "revoked")
Refuse(w) ==
    /\ workers[w].at = "selected" /\ Refused(w) /\ Ends(w)
    /\ UNCHANGED <<ops, store, held, registry, order, archive, builds>>

\* A disk that is nearly full fails the package before the name is looked at; a revoked
\* package fails so only under its regeneration.
LowOnDisk(w) ==
    /\ workers[w].at = "selected" /\ ~Replays(w)
    /\ w = "loop" \/ Status(workers[w].items) # "revoked"
    /\ Set(workers[w].items, With("failed")) /\ Ends(w)
    /\ UNCHANGED <<ops, store, held, archive, builds>>

Stage(w) ==
    /\ workers[w].at = "selected" /\ ~Replays(w)
    /\ \/ archive = NoArchive /\ (w = "loop" \/ Status(workers[w].items) # "revoked")
       \/ w = "loop" /\ \E k \in Keys : Names(k) /\ Status(k) = "revoked"
    /\ Set(workers[w].items, With("staging")) /\ workers' = [workers EXCEPT ![w].at = "build"]
    /\ UNCHANGED <<ops, store, held, archive, builds>>

\* 7z a and 7z t on the temporary archive, then its final name; or a failure of any of them.
Publish(w) ==
    /\ workers[w].at = "build" /\ UNCHANGED <<ops, store, held>>
    /\ \/ /\ builds < MaxBuilds /\ builds' = builds + 1
          /\ archive' = [build |-> builds + 1, items |-> workers[w].items, knew |-> workers[w].knew]
          /\ workers' = [workers EXCEPT ![w].at = "record", ![w].build = builds + 1]
          /\ UNCHANGED <<registry, order>>
       \/ Set(workers[w].items, With("failed")) /\ Ends(w) /\ UNCHANGED <<archive, builds>>

\* The sidecar, the manifest and the summaries, then the registry; writing them may fail
\* with the archive in place.
Record(w) ==
    /\ workers[w].at = "record" /\ Ends(w) /\ UNCHANGED <<ops, store, archive, builds>>
    /\ \/ /\ Set(workers[w].items, [status |-> "completed", path |-> TRUE, sha |-> workers[w].build])
          /\ Resolve(w, {workers[w].items, workers[w].old})
       \/ Set(workers[w].items, With("failed")) /\ UNCHANGED held

Verify(k) ==
    /\ Free /\ Status(k) = "completed" /\ archive.build # registry[k].sha
    /\ Set(k, [registry[k] EXCEPT !.status = "verification_failed"])
    /\ UNCHANGED <<ops, store, held, archive, builds, workers>>

\* revoke, whatever the package's status; a released hold does not come back.
Revoke(k) ==
    /\ Operator /\ k \in Keys
    /\ Set(k, [registry[k] EXCEPT !.status = "revoked"])
    /\ holds' = IF k \in resolved THEN holds ELSE holds \cup {<<"package", k, "deletion">>}
    /\ UNCHANGED <<store, resolved, archive, builds, workers>>

\* Mutant: an archive goes with the first package that may go.
ProtectedBy(k) == FALSE

Protects(k) == Names(k)

\* purge_retention with apply: the packages not updated since a date; a package without
\* an archive path stops the purge.
PurgePackages ==
    /\ Free
    /\ \E n \in DOMAIN order :
         LET old == {k \in ToSet(SubSeq(order, 1, n)) :
                       /\ Status(k) \in {"completed", "revoked", "verification_failed"}
                       /\ ~Held("package", k)} IN
           /\ old # {} /\ \A k \in old : registry[k].path
           /\ \A k \in Keys \ old : ~Protects(k)
           /\ archive' = NoArchive
           /\ registry' = [k \in Keys |-> IF k \in old THEN [registry[k] EXCEPT !.status = "retention_deleted"]
                                          ELSE registry[k]]
           /\ order' = SelectSeq(order, LAMBDA k : k \notin old) \o SelectSeq(order, LAMBDA k : k \in old)
    /\ UNCHANGED <<ops, store, held, builds, workers>>

\* The disk loses what it holds, or the process ends; nothing resumes a staged package.
Corrupt ==
    /\ archive # NoArchive /\ archive' = [archive EXCEPT !.build = Broken]
    /\ UNCHANGED <<ops, store, held, registry, order, builds, workers>>
Crash ==
    /\ workers' = [w \in DOMAIN workers |-> Idle] /\ workers' # workers
    /\ UNCHANGED <<ops, store, held, registry, order, archive, builds>>

-----------------------------------------------------------------------------

Next == \/ EndWeek
        \/ \E r \in Requests : Collect(r) \/ Tombstone(r) \/ ResolveDeletionRequest(r)
        \/ \E i \in Ids : TransitionCandidate(i)
        \/ PlaceHold \/ ReleaseHold \/ PurgeRows \/ Fire
        \/ \E k \in Keys : Regenerate(k) \/ Verify(k) \/ Revoke(k)
        \/ \E w \in DOMAIN workers : Replay(w) \/ Refuse(w) \/ LowOnDisk(w) \/ Stage(w) \/ Publish(w) \/ Record(w)
        \/ PurgePackages \/ Corrupt \/ Crash

Spec == Init /\ [][Next]_vars

-----------------------------------------------------------------------------

\* An excluded request leaves no candidate that could be packed, whatever was collected,
\* reviewed or purged meanwhile, and no archive whose candidates were selected after the
\* exclusion holds one of it (tombstone, excluded, packageable_candidates).
ExcludedStaysOut ==
    /\ \A i \in Ids : rows[i].request \in tombstones => rows[i].state \in {"none", "revoked"}
    /\ \A item \in archive.items : rows[item[1]].request \notin archive.knew

\* A row's payload is in the content store, and so is what the payload of an event refers
\* to, although turns share it and any of them may be purged (purge_retention, objects.put).
RowsHaveContent ==
    \A i \in Ids :
      /\ rows[i].event => /\ <<"event", i>> \in objects
                          /\ rows[i].eligible => <<"content", rows[i].request>> \in objects
      /\ rows[i].state # "none" => <<"candidate", i>> \in objects

\* What an archive that a held package names may become.
HeldArchiveIsKept ==
    \/ archive' = archive
    \/ archive # NoArchive /\ archive' = [archive EXCEPT !.build = Broken]
    \/ /\ builds' > builds
       /\ \E w \in DOMAIN workers : workers[w].at = "build" /\ archive'.items = workers[w].items

\* Nothing under a hold is removed: no event or candidate of a held request, no held
\* candidate; and the archive that a held package names stays as it is, whichever package
\* is removed (purge_retention of both stores) and whatever else happens, with two
\* exceptions.  A disk may damage it; and a package of the same week that is built anew
\* takes its place, because prepare asks no hold before os.replace (weekly.py:1085).
HeldIsKept ==
    [][/\ \A i \in Ids :
            /\ Held("request", rows[i].request) =>
                 (rows[i].event => rows'[i].event) /\ (rows[i].state # "none" => rows'[i].state # "none")
            /\ Held("candidate", i) => (rows[i].state # "none" => rows'[i].state # "none")
       /\ (\E k \in Keys : Held("package", k) /\ Names(k)) => HeldArchiveIsKept]_vars

\* The archive of a held package is not replaced either, as PRIVACY_AND_RETENTION.md has it
\* (violated: its regeneration after a revocation, weekly.py:1085; no run checks it).
HeldArchiveIsNotReplaced ==
    [][\A k \in Keys : Held("package", k) /\ Names(k) /\ registry[k].sha = archive.build
         => archive'.items = archive.items /\ archive'.build \in {archive.build, Broken}]_vars

\* A revoked package comes back by its explicit regeneration only (violated: a job that is
\* packing it finishes as if nothing had happened).
RevokedStaysRevoked ==
    [][\A k \in Keys : Status(k) = "revoked" =>
         Status(k)' \in {"revoked", "retention_deleted"} \/ workers["loop"].at # "idle"]_vars

=============================================================================
