--------------------------- MODULE LearningProofs ---------------------------
(***************************************************************************)
(* Proofs about what is learned from the turns: the training data and its  *)
(* packages, for any requests, number of rows, archives and operations,    *)
(* and the three registries, for any procedures, entries, conflicts and    *)
(* payloads and any number of versions.  None of them shares state with    *)
(* another, so each has an inductive invariant of its own.                 *)
(***************************************************************************)
EXTENDS TrainingData, SkillRegistry, KnowledgeRegistry, EvolutionRegistry, TLAPS

-----------------------------------------------------------------------------
(***************************************************************************)
(* Training data: what is excluded is not packed, no row loses what it     *)
(* refers to, and nothing under a hold is removed.                         *)
(***************************************************************************)

State     == {"none", "sanitized", "scored", "quarantined", "approved", "rejected", "packaged",
              "revoked"}
RowRecord == [request : Requests \cup {"none"}, event : BOOLEAN, state : State,
              eligible : BOOLEAN]
Items     == SUBSET (Ids \X State)
Job       == [at : {"idle", "selected", "build", "record"}, items : Items,
              knew : SUBSET Requests, old : Items, build : Nat]

Typed ==
    /\ rows \in [Ids -> RowRecord] /\ tombstones \subseteq Requests
    /\ Keys \subseteq Items
    /\ archive \in [build : Nat, items : Items, knew : SUBSET Requests]
    /\ workers \in [{"job", "loop"} -> Job] /\ builds \in Nat

\* A row that no turn left is empty, an excluded one is revoked or purged.
RowsStand ==
    \A i \in Ids :
        /\ rows[i].request = "none" => rows[i].state = "none" /\ ~rows[i].event
        /\ rows[i].request \in tombstones => rows[i].state \in {"none", "revoked"}

\* A selection: rows that exist, of requests not excluded when it was made.  It outlives
\* the selected rows' later exclusion, review and purge.
Selection(items, knew) ==
    \A item \in items : /\ item[1] \in Ids
                        /\ rows[item[1]].request \notin knew \cup {"none"}
Selections ==
    /\ \A w \in {"job", "loop"} : Selection(workers[w].items, workers[w].knew)
    /\ Selection(archive.items, archive.knew)

IInv == Typed /\ RowsStand /\ Selections /\ RowsHaveContent
-----------------------------------------------------------------------------
(***************************************************************************)
(* Lemmas: what the model's operators promise, and what a step leaves      *)
(* alone.                                                                  *)
(***************************************************************************)

\* Nothing comes back from the end of a review, and what is not there is not reviewed.
LEMMA ReviewsEnd ==
    ASSUME NEW s \in State
    PROVE  /\ Allowed(s) \subseteq State \ {"none"}
           /\ s \in {"none", "revoked"} => Allowed(s) = {}
BY DEF Allowed, State

\* Writing a package's record adds its key.
LEMMA SetAdds ==
    ASSUME NEW k \in Items, NEW record, Keys \subseteq Items, Set(k, record)
    PROVE  Keys' \subseteq Items
BY DEF Set, Keys

\* What is selected is there and not excluded.
LEMMA SelectionStands ==
    ASSUME Typed, RowsStand
    PROVE  PackageableCandidates \in Items /\ Selection(PackageableCandidates, tombstones)
<1>1. PackageableCandidates \in Items
  BY DEF PackageableCandidates, Typed, RowRecord, Items
<1>2. ASSUME NEW item \in PackageableCandidates
      PROVE  item[1] \in Ids /\ rows[item[1]].request \notin tombstones \cup {"none"}
  <2>1. PICK j \in Ids : /\ rows[j].state \in {"approved", "sanitized", "scored"}
                         /\ rows[j].request \notin tombstones /\ item = <<j, rows[j].state>>
    BY <1>2 DEF PackageableCandidates
  <2>2. item[1] = j
    BY <2>1
  <2> QED  BY <2>1, <2>2 DEF RowsStand
<1> QED  BY <1>1, <1>2 DEF Selection

\* Whatever happens to a row, it stays the row of its turn, and so in its selections.
LEMMA SelectionsLast ==
    ASSUME Selections, UNCHANGED <<workers, archive>>,
           \A i \in Ids : rows[i].request # "none" => rows'[i].request = rows[i].request
    PROVE  Selections'
BY DEF Selections, Selection

\* The steps that only move the books of the packages.
LEMMA StoreUntouched ==
    ASSUME IInv, UNCHANGED <<rows, tombstones, objects>>, Typed', Selections'
    PROVE  IInv'
BY DEF IInv, RowsStand, RowsHaveContent

-----------------------------------------------------------------------------
(***************************************************************************)
(* Collection, review and retention of the rows.                           *)
(***************************************************************************)

\* A turn leaves a row and its payloads.
LEMMA CollectKeeps ==
    ASSUME NEW r \in Requests, IInv, Collect(r) PROVE IInv'
<1>1. PICK i \in Ids, eligible \in BOOLEAN :
         /\ rows[i].request = "none" /\ rows' = [rows EXCEPT ![i] = Row(r, eligible)]
         /\ objects' = objects \cup {<<"event", i>>, <<"candidate", i>>}
                               \cup Content(r, eligible)
  BY DEF Collect, NextRow
<1>2. /\ r \notin tombstones /\ r # "none"
      /\ UNCHANGED <<tombstones, registry, archive, builds, workers>>
  BY TrainingDataAssumption DEF Collect, packages
<1> DEFINE new == Row(r, eligible)
<1>3. /\ new \in RowRecord /\ new.request = r /\ new.state # "none" /\ new.event
      /\ new.eligible = eligible /\ rows' = [rows EXCEPT ![i] = new]
  BY <1>1 DEF Row, RowRecord, FirstState, State
<1> HIDE DEF new
<1>4. /\ rows' \in [Ids -> RowRecord] /\ rows'[i] = new
      /\ \A j \in Ids \ {i} : rows'[j] = rows[j]
  BY <1>1, <1>3 DEF IInv, Typed
<1>5. Typed'
  BY <1>2, <1>4 DEF IInv, Typed, Keys
<1>6. RowsStand'
  BY <1>2, <1>3, <1>4 DEF IInv, RowsStand
<1>7. Selections'
  BY <1>1, <1>2, <1>4, SelectionsLast DEF IInv
<1>8. RowsHaveContent'
  <2>1. ASSUME NEW j \in Ids
        PROVE  /\ rows'[j].event => /\ <<"event", j>> \in objects'
                                    /\ rows'[j].eligible => <<"content", rows'[j].request>> \in objects'
               /\ rows'[j].state # "none" => <<"candidate", j>> \in objects'
    <3>1. CASE j = i
      BY <1>1, <1>3, <1>4, <3>1 DEF Content
    <3>2. CASE j # i
      BY <1>1, <1>4, <3>2 DEF IInv, RowsHaveContent
    <3> QED  BY <3>1, <3>2
  <2> QED  BY <2>1 DEF RowsHaveContent
<1> QED  BY <1>5, <1>6, <1>7, <1>8 DEF IInv

\* A review step and an exclusion move states only, and never from or to "none".
LEMMA ReviewKeeps ==
    ASSUME IInv,
           \/ \E i \in Ids : TransitionCandidate(i)
           \/ \E r \in Requests : Tombstone(r)
    PROVE  IInv'
<1>1. /\ rows' \in [Ids -> RowRecord]
      /\ \A j \in Ids : /\ rows'[j].request = rows[j].request /\ rows'[j].event = rows[j].event
                        /\ rows'[j].eligible = rows[j].eligible
                        /\ (rows'[j].state = "none") <=> (rows[j].state = "none")
      /\ \A j \in Ids : rows'[j].request \in tombstones' => rows'[j].state \in {"none", "revoked"}
      /\ tombstones' \subseteq Requests
      /\ UNCHANGED <<objects, registry, archive, builds, workers>>
  <2>1. ASSUME NEW i \in Ids, TransitionCandidate(i) PROVE <1>1
    <3>1. PICK target \in Allowed(rows[i].state) : rows' = [rows EXCEPT ![i].state = target]
      BY <2>1 DEF TransitionCandidate
    <3>2. rows[i] \in RowRecord /\ rows[i].state \in State
      BY DEF IInv, Typed, RowRecord
    <3>3. target \in State \ {"none"} /\ rows[i].state \notin {"none", "revoked"}
      BY <3>1, <3>2, ReviewsEnd
    <3>4. UNCHANGED <<tombstones, objects, registry, archive, builds, workers>>
      BY <2>1 DEF TransitionCandidate, packages
    <3>5. rows' \in [Ids -> RowRecord]
      BY <3>1, <3>3 DEF IInv, Typed, RowRecord
    <3>6. \A j \in Ids : /\ rows'[j].request = rows[j].request
                         /\ rows'[j].event = rows[j].event
                         /\ rows'[j].eligible = rows[j].eligible
                         /\ rows'[j].state = IF j = i THEN target ELSE rows[j].state
      BY <3>1 DEF IInv, Typed, RowRecord
    <3> QED  BY <3>3, <3>4, <3>5, <3>6 DEF IInv, Typed, RowsStand
  <2>2. ASSUME NEW r \in Requests, Tombstone(r) PROVE <1>1
    <3>1. /\ rows' = [i \in Ids |-> IF rows[i].request = r /\ rows[i].state # "none"
                                      THEN [rows[i] EXCEPT !.state = "revoked"] ELSE rows[i]]
          /\ tombstones' = tombstones \cup {r}
          /\ UNCHANGED <<objects, registry, archive, builds, workers>>
      BY <2>2 DEF Tombstone, packages
    <3>2. rows' \in [Ids -> RowRecord]
      BY <3>1 DEF IInv, Typed, RowRecord, State
    <3>3. \A j \in Ids : /\ rows'[j].request = rows[j].request
                         /\ rows'[j].event = rows[j].event
                         /\ rows'[j].eligible = rows[j].eligible
                         /\ rows'[j].state = IF rows[j].request = r /\ rows[j].state # "none"
                                               THEN "revoked" ELSE rows[j].state
      BY <3>1 DEF IInv, Typed, RowRecord
    <3> QED  BY <3>1, <3>2, <3>3 DEF IInv, Typed, RowsStand
  <2> QED  BY <2>1, <2>2
<1>2. Typed' /\ RowsStand'
  BY <1>1 DEF IInv, Typed, Keys, RowsStand
<1>3. Selections'
  BY <1>1, SelectionsLast DEF IInv
<1>4. RowsHaveContent'
  BY <1>1 DEF IInv, RowsHaveContent
<1> QED  BY <1>2, <1>3, <1>4 DEF IInv

\* What a purge takes away: rows that were there, and their own payloads only.
LEMMA PurgeTakes ==
    ASSUME IInv, PurgeRows
    PROVE  \E events, candidates \in SUBSET Ids :
             /\ \A i \in events : PurgeableEvent(i)
             /\ \A i \in candidates : PurgeableCandidate(i)
             /\ rows' \in [Ids -> RowRecord]
             /\ \A i \in Ids : /\ rows'[i].request = rows[i].request
                               /\ rows'[i].eligible = rows[i].eligible
                               /\ rows'[i].event = (rows[i].event /\ i \notin events)
                               /\ rows'[i].state = IF i \in candidates THEN "none"
                                                                       ELSE rows[i].state
             /\ objects' = objects \ Unreferenced(events, candidates)
<1>1. PICK eventBefore \in Ids, candidateBefore \in Ids :
         LET events == {i \in 1..eventBefore : PurgeableEvent(i)}
             candidates == {i \in 1..candidateBefore : PurgeableCandidate(i)} IN
           /\ rows' = [i \in Ids |->
                [rows[i] EXCEPT !.event = @ /\ i \notin events,
                                !.state = IF i \in candidates THEN "none" ELSE @]]
           /\ objects' = objects \ Unreferenced(events, candidates)
  BY DEF PurgeRows
<1> DEFINE events == {i \in 1..eventBefore : PurgeableEvent(i)}
           candidates == {i \in 1..candidateBefore : PurgeableCandidate(i)}
<1>2. events \in SUBSET Ids /\ candidates \in SUBSET Ids
  BY TrainingDataAssumption DEF Ids
<1>3. /\ \A i \in events : PurgeableEvent(i)
      /\ \A i \in candidates : PurgeableCandidate(i)
  OBVIOUS
<1>4. /\ rows' = [i \in Ids |->
                [rows[i] EXCEPT !.event = @ /\ i \notin events,
                                !.state = IF i \in candidates THEN "none" ELSE @]]
      /\ objects' = objects \ Unreferenced(events, candidates)
  BY <1>1
<1> HIDE DEF events, candidates
<1>5. rows' \in [Ids -> RowRecord]
  <2> SUFFICES ASSUME NEW i \in Ids
               PROVE  [rows[i] EXCEPT !.event = @ /\ i \notin events,
                                      !.state = IF i \in candidates THEN "none" ELSE @]
                        \in RowRecord
    BY <1>4
  <2> DEFINE event == rows[i].event /\ i \notin events
             state == IF i \in candidates THEN "none" ELSE rows[i].state
  <2>1. rows[i] \in RowRecord
    BY DEF IInv, Typed
  <2>2. event \in BOOLEAN
    BY <2>1 DEF RowRecord
  <2>3. state \in State
    BY <2>1 DEF RowRecord, State
  <2> HIDE DEF event, state
  <2>4. [rows[i] EXCEPT !.event = event, !.state = state] \in RowRecord
    BY <2>1, <2>2, <2>3 DEF RowRecord
  <2> QED  BY <2>4 DEF event, state
<1>6. \A i \in Ids : /\ rows'[i].request = rows[i].request
                     /\ rows'[i].eligible = rows[i].eligible
                     /\ rows'[i].event = (rows[i].event /\ i \notin events)
                     /\ rows'[i].state = IF i \in candidates THEN "none" ELSE rows[i].state
  BY <1>4 DEF IInv, Typed, RowRecord
<1> QED  BY <1>2, <1>3, <1>4, <1>5, <1>6

\* A purge leaves to every row that stays what it refers to.
LEMMA PurgeKeeps == ASSUME IInv, PurgeRows PROVE IInv'
<1>1. PICK events \in SUBSET Ids, candidates \in SUBSET Ids :
         /\ rows' \in [Ids -> RowRecord]
         /\ \A i \in Ids : /\ rows'[i].request = rows[i].request
                           /\ rows'[i].eligible = rows[i].eligible
                           /\ rows'[i].event = (rows[i].event /\ i \notin events)
                           /\ rows'[i].state = IF i \in candidates THEN "none" ELSE rows[i].state
         /\ objects' = objects \ Unreferenced(events, candidates)
  BY PurgeTakes
<1>2. UNCHANGED <<tombstones, registry, archive, builds, workers>>
  BY DEF PurgeRows, packages
<1>3. Typed'
  BY <1>1, <1>2 DEF IInv, Typed, Keys
<1>4. RowsStand'
  BY <1>1, <1>2 DEF IInv, RowsStand
<1>5. Selections'
  BY <1>1, <1>2, SelectionsLast DEF IInv
<1>6. RowsHaveContent'
  <2>1. ASSUME NEW i \in Ids
        PROVE  /\ rows'[i].event => /\ <<"event", i>> \in objects'
                                    /\ rows'[i].eligible => <<"content", rows'[i].request>> \in objects'
               /\ rows'[i].state # "none" => <<"candidate", i>> \in objects'
    <3>1. <<"event", i>> \in Unreferenced(events, candidates) => i \in events
      BY DEF Unreferenced
    <3>2. <<"candidate", i>> \in Unreferenced(events, candidates) => i \in candidates
      BY DEF Unreferenced
    <3>3. <<"content", rows[i].request>> \notin Unreferenced(events, candidates)
      BY DEF Unreferenced
    <3> QED  BY <1>1, <3>1, <3>2, <3>3 DEF IInv, RowsHaveContent
  <2> QED  BY <2>1 DEF RowsHaveContent
<1> QED  BY <1>3, <1>4, <1>5, <1>6 DEF IInv

-----------------------------------------------------------------------------
(***************************************************************************)
(* The weekly package.                                                     *)
(***************************************************************************)

LEMMA IdleIsAJob == Idle \in Job /\ Idle.items = {}
BY DEF Idle, Job, Items

LEMMA NothingPacked == NoArchive.items = {} /\ NoArchive.build = 0
                       /\ NoArchive \in [build : Nat, items : Items, knew : SUBSET Requests]
BY DEF NoArchive, Items

\* The books of the packages stay well formed with one more key and another worker's state.
LEMMA PackagesKeep ==
    ASSUME IInv, Keys' \subseteq Items, UNCHANGED store,
           archive' \in [build : Nat, items : Items, knew : SUBSET Requests], builds' \in Nat,
           workers' \in [{"job", "loop"} -> Job],
           \A w \in {"job", "loop"} : Selection(workers'[w].items, workers'[w].knew),
           Selection(archive'.items, archive'.knew)
    PROVE  IInv'
<1>1. UNCHANGED <<rows, tombstones, objects>>
  BY DEF store
<1>2. Typed'
  BY <1>1 DEF IInv, Typed
<1>3. Selections'
  BY <1>1 DEF Selections, Selection
<1> QED  BY <1>1, <1>2, <1>3, StoreUntouched

\* A selection begins: of what may be packed now.
LEMMA SelectKeeps ==
    ASSUME IInv, Fire \/ \E k \in Keys : Regenerate(k) PROVE IInv'
<1>1. PICK w \in {"job", "loop"}, old \in Items : Selects(w, old)
  BY DEF Fire, Regenerate, IInv, Typed, Items
<1> DEFINE new == [Idle EXCEPT !.at = "selected", !.old = old, !.knew = tombstones,
                               !.items = PackageableCandidates]
<1>2. PackageableCandidates \in Items /\ Selection(PackageableCandidates, tombstones)
  BY SelectionStands DEF IInv
<1>3. new \in Job /\ new.items = PackageableCandidates /\ new.knew = tombstones
  BY <1>2 DEF Idle, Job, IInv, Typed
<1>4. workers' = [workers EXCEPT ![w] = new] /\ UNCHANGED <<store, registry, archive, builds>>
  BY <1>1 DEF Selects
<1> HIDE DEF new
<1>5. workers' \in [{"job", "loop"} -> Job]
  BY <1>3, <1>4 DEF IInv, Typed
<1>6. \A v \in {"job", "loop"} : Selection(workers'[v].items, workers'[v].knew)
  <2>1. workers'[w] = new /\ \A v \in {"job", "loop"} \ {w} : workers'[v] = workers[v]
    BY <1>4 DEF IInv, Typed
  <2> QED  BY <1>2, <1>3, <2>1 DEF IInv, Selections
<1>7. Selection(archive'.items, archive'.knew)
  BY <1>4 DEF IInv, Selections
<1> QED  BY <1>4, <1>5, <1>6, <1>7, PackagesKeep DEF IInv, Typed, Keys

\* A worker that ends selects nothing any more.
LEMMA EndsFits ==
    ASSUME NEW w \in {"job", "loop"}, IInv, Ends(w)
    PROVE  /\ workers' \in [{"job", "loop"} -> Job]
           /\ \A v \in {"job", "loop"} : Selection(workers'[v].items, workers'[v].knew)
<1>1. workers' = [workers EXCEPT ![w] = Idle]
  BY DEF Ends
<1>2. workers' \in [{"job", "loop"} -> Job]
  BY <1>1, IdleIsAJob DEF IInv, Typed
<1>3. workers'[w] = Idle /\ \A v \in {"job", "loop"} \ {w} : workers'[v] = workers[v]
  BY <1>1 DEF IInv, Typed
<1> QED  BY <1>2, <1>3, IdleIsAJob DEF IInv, Selections, Selection

\* The steps of a worker.
LEMMA WorkKeeps ==
    ASSUME NEW w \in {"job", "loop"}, IInv,
           Replay(w) \/ Refuse(w) \/ LowOnDisk(w) \/ Stage(w) \/ Publish(w) \/ Record(w)
    PROVE  IInv'
<1>1. /\ archive \in [build : Nat, items : Items, knew : SUBSET Requests]
      /\ Selection(archive.items, archive.knew) /\ Keys \subseteq Items /\ builds \in Nat
      /\ workers \in [{"job", "loop"} -> Job]
      /\ \A v \in {"job", "loop"} : Selection(workers[v].items, workers[v].knew)
  BY DEF IInv, Typed, Selections
<1>2. /\ workers[w].items \in Items /\ workers[w].knew \in SUBSET Requests
  BY <1>1 DEF Job
<1>3. CASE Replay(w) \/ Refuse(w)
  <2>1. Ends(w) /\ UNCHANGED <<store, registry, archive, builds>>
    BY <1>3 DEF Replay, Refuse
  <2>2. /\ workers' \in [{"job", "loop"} -> Job]
        /\ \A v \in {"job", "loop"} : Selection(workers'[v].items, workers'[v].knew)
    BY <2>1, EndsFits
  <2> QED  BY <1>1, <2>1, <2>2, PackagesKeep DEF Keys
<1>4. CASE Stage(w)
  <2>1. /\ Set(workers[w].items, With("staging")) /\ UNCHANGED <<store, archive, builds>>
        /\ workers' = [workers EXCEPT ![w].at = "build"]
    BY <1>4 DEF Stage
  <2>2. workers' \in [{"job", "loop"} -> Job]
    BY <1>1, <2>1 DEF Job
  <2>3. \A v \in {"job", "loop"} : /\ workers'[v].items = workers[v].items
                                   /\ workers'[v].knew = workers[v].knew
    BY <1>1, <2>1 DEF Job
  <2>4. Keys' \subseteq Items
    BY <1>1, <1>2, <2>1, SetAdds
  <2> QED  BY <1>1, <2>1, <2>2, <2>3, <2>4, PackagesKeep
<1>5. CASE Publish(w)
  <2>1. UNCHANGED store
    BY <1>5 DEF Publish
  <2>2. CASE /\ builds' = builds + 1
             /\ archive' = [build |-> builds + 1, items |-> workers[w].items,
                            knew |-> workers[w].knew]
             /\ workers' = [workers EXCEPT ![w].at = "record", ![w].build = builds + 1]
             /\ UNCHANGED <<registry, order>>
    <3>1. workers' \in [{"job", "loop"} -> Job]
      BY <1>1, <2>2 DEF Job
    <3>2. \A v \in {"job", "loop"} : /\ workers'[v].items = workers[v].items
                                     /\ workers'[v].knew = workers[v].knew
      BY <1>1, <2>2 DEF Job
    <3>3. /\ archive' \in [build : Nat, items : Items, knew : SUBSET Requests]
          /\ Selection(archive'.items, archive'.knew)
      BY <1>1, <1>2, <2>2
    <3> QED  BY <1>1, <2>1, <2>2, <3>1, <3>2, <3>3, PackagesKeep DEF Keys
  <2>3. CASE Set(workers[w].items, With("failed")) /\ Ends(w) /\ UNCHANGED <<archive, builds>>
    <3>1. Keys' \subseteq Items
      BY <1>1, <1>2, <2>3, SetAdds
    <3>2. /\ workers' \in [{"job", "loop"} -> Job]
          /\ \A v \in {"job", "loop"} : Selection(workers'[v].items, workers'[v].knew)
      BY <2>3, EndsFits
    <3> QED  BY <1>1, <2>1, <2>3, <3>1, <3>2, PackagesKeep
  <2> QED  BY <1>5, <2>2, <2>3 DEF Publish
<1>6. CASE Record(w)
  <2>1. /\ Ends(w) /\ UNCHANGED <<store, archive, builds>>
        /\ \E record : Set(workers[w].items, record)
    BY <1>6 DEF Record
  <2>2. Keys' \subseteq Items
    BY <1>1, <1>2, <2>1, SetAdds
  <2>3. /\ workers' \in [{"job", "loop"} -> Job]
        /\ \A v \in {"job", "loop"} : Selection(workers'[v].items, workers'[v].knew)
    BY <2>1, EndsFits
  <2> QED  BY <1>1, <2>1, <2>2, <2>3, PackagesKeep
<1>7. CASE LowOnDisk(w)
  <2>1. /\ Ends(w) /\ UNCHANGED <<store, archive, builds>>
        /\ Set(workers[w].items, With("failed"))
    BY <1>7 DEF LowOnDisk
  <2>2. Keys' \subseteq Items
    BY <1>1, <1>2, <2>1, SetAdds
  <2>3. /\ workers' \in [{"job", "loop"} -> Job]
        /\ \A v \in {"job", "loop"} : Selection(workers'[v].items, workers'[v].knew)
    BY <2>1, EndsFits
  <2> QED  BY <1>1, <2>1, <2>2, <2>3, PackagesKeep
<1> QED  BY <1>3, <1>4, <1>5, <1>6, <1>7

\* Verification, revocation and removal, a damaged disk, the end of the process.
LEMMA RegistryKeeps ==
    ASSUME IInv, \/ \E k \in Keys : Verify(k) \/ Revoke(k)
                 \/ PurgePackages \/ Corrupt \/ Crash
    PROVE  IInv'
<1>1. /\ archive \in [build : Nat, items : Items, knew : SUBSET Requests]
      /\ Selection(archive.items, archive.knew) /\ Keys \subseteq Items /\ builds \in Nat
      /\ workers \in [{"job", "loop"} -> Job]
      /\ \A v \in {"job", "loop"} : Selection(workers[v].items, workers[v].knew)
  BY DEF IInv, Typed, Selections
<1>2. ASSUME NEW k \in Keys, Verify(k) \/ Revoke(k) PROVE IInv'
  <2>1. /\ UNCHANGED <<store, archive, builds, workers>>
        /\ \E record : Set(k, record)
    BY <1>2 DEF Verify, Revoke
  <2>2. Keys' \subseteq Items
    BY <1>1, <2>1, SetAdds
  <2> QED  BY <1>1, <2>1, <2>2, PackagesKeep
<1>3. CASE PurgePackages
  <2>1. /\ archive' = NoArchive /\ UNCHANGED <<store, builds, workers>>
        /\ DOMAIN registry' = Keys
    BY <1>3 DEF PurgePackages
  <2>2. /\ archive' \in [build : Nat, items : Items, knew : SUBSET Requests]
        /\ Selection(archive'.items, archive'.knew)
    BY <2>1, NothingPacked DEF Selection
  <2> QED  BY <1>1, <2>1, <2>2, PackagesKeep DEF Keys
<1>4. CASE Corrupt
  <2>1. /\ archive' = [archive EXCEPT !.build = Broken]
        /\ UNCHANGED <<store, registry, builds, workers>>
    BY <1>4 DEF Corrupt
  <2>2. Broken \in Nat
    BY TrainingDataAssumption DEF Broken
  <2>3. /\ archive' \in [build : Nat, items : Items, knew : SUBSET Requests]
        /\ Selection(archive'.items, archive'.knew)
    BY <1>1, <2>1, <2>2
  <2> QED  BY <1>1, <2>1, <2>3, PackagesKeep DEF Keys
<1>5. CASE Crash
  <2>1. /\ workers' = [w \in {"job", "loop"} |-> Idle]
        /\ UNCHANGED <<store, registry, archive, builds>>
    BY <1>1, <1>5 DEF Crash
  <2>2. /\ workers' \in [{"job", "loop"} -> Job]
        /\ \A v \in {"job", "loop"} : Selection(workers'[v].items, workers'[v].knew)
    BY <2>1, IdleIsAJob DEF Selection
  <2> QED  BY <1>1, <2>1, <2>2, PackagesKeep DEF Keys
<1> QED  BY <1>2, <1>3, <1>4, <1>5

\* The end of the week and the books of the holds.
LEMMA OthersKeep ==
    ASSUME IInv, \/ EndWeek \/ PlaceHold \/ ReleaseHold \/ UNCHANGED vars
                 \/ \E r \in Requests : ResolveDeletionRequest(r)
    PROVE  IInv'
<1>1. UNCHANGED <<rows, objects, tombstones, registry, archive, builds, workers>>
  BY DEF EndWeek, PlaceHold, ReleaseHold, ResolveDeletionRequest, store, packages, vars
<1>2. Selections' /\ Typed'
  BY <1>1 DEF IInv, Selections, Selection, Typed, Keys
<1> QED  BY <1>1, <1>2, StoreUntouched

-----------------------------------------------------------------------------
(***************************************************************************)
(* The theorems.                                                           *)
(***************************************************************************)

LEMMA InitFits == ASSUME Init PROVE IInv
<1>1. NoRow \in RowRecord /\ NoRow.state = "none" /\ ~NoRow.event
  BY DEF NoRow, RowRecord, State
<1>2. Keys = {}
  BY DEF Init, Keys
<1>3. Typed
  BY <1>1, <1>2, IdleIsAJob, NothingPacked DEF Init, Typed
<1>4. RowsStand /\ RowsHaveContent
  BY <1>1 DEF Init, RowsStand, RowsHaveContent
<1>5. Selections
  BY IdleIsAJob, NothingPacked DEF Init, Selections, Selection
<1> QED  BY <1>3, <1>4, <1>5 DEF IInv

LEMMA NextKeeps == ASSUME IInv, [Next]_vars PROVE IInv'
<1>1. DOMAIN workers = {"job", "loop"}
  BY DEF IInv, Typed
<1>2. ASSUME NEW w \in DOMAIN workers,
             Replay(w) \/ Refuse(w) \/ LowOnDisk(w) \/ Stage(w) \/ Publish(w) \/ Record(w)
      PROVE  IInv'
  BY <1>1, <1>2, WorkKeeps
<1> QED  BY <1>2, CollectKeeps, ReviewKeeps, PurgeKeeps, SelectKeeps, RegistryKeeps, OthersKeep
         DEF Next

\* The inductive invariant of collection and packaging.
THEOREM Invariance == Spec => []IInv
<1>1. Init => IInv
  BY InitFits
<1>2. IInv /\ [Next]_vars => IInv'
  BY NextKeeps
<1> QED  BY <1>1, <1>2, PTL DEF Spec

\* For any history of turns, reviews, purges and packagings, an excluded request has no
\* candidate that could be packed, and an archive holds none of a request that was
\* excluded when its candidates were selected.
THEOREM TheExcludedStayOut == Spec => []ExcludedStaysOut
<1>1. IInv => ExcludedStaysOut
  BY DEF IInv, RowsStand, Selections, Selection, ExcludedStaysOut
<1> QED  BY <1>1, Invariance, PTL

\* Whatever is purged, a row that stays keeps its payload, and an event what its payload
\* refers to.
THEOREM ContentIsKept == Spec => []RowsHaveContent
<1>1. IInv => RowsHaveContent
  BY DEF IInv
<1> QED  BY <1>1, Invariance, PTL

\* No step removes what is under a hold; what a held package names is left as it is, but
\* by a damaged disk, or for a package of its week that is built anew.
THEOREM HoldsAreObeyed == Spec => HeldIsKept
<1> DEFINE RowKept(i) ==
       /\ Held("request", rows[i].request) =>
            (rows[i].event => rows'[i].event) /\ (rows[i].state # "none" => rows'[i].state # "none")
       /\ Held("candidate", i) => (rows[i].state # "none" => rows'[i].state # "none")
           ArchiveKept ==
       (\E k \in Keys : Held("package", k) /\ Names(k)) => HeldArchiveIsKept
<1>1. ASSUME IInv, [Next]_vars, NEW i \in Ids PROVE RowKept(i)
  <2>1. CASE PurgeRows
    <3>1. PICK events \in SUBSET Ids, candidates \in SUBSET Ids :
             /\ \A j \in events : PurgeableEvent(j)
             /\ \A j \in candidates : PurgeableCandidate(j)
             /\ rows' \in [Ids -> RowRecord]
             /\ \A j \in Ids : /\ rows'[j].request = rows[j].request
                               /\ rows'[j].eligible = rows[j].eligible
                               /\ rows'[j].event = (rows[j].event /\ j \notin events)
                               /\ rows'[j].state = IF j \in candidates THEN "none"
                                                                       ELSE rows[j].state
             /\ objects' = objects \ Unreferenced(events, candidates)
      BY <1>1, <2>1, PurgeTakes
    <3> QED  BY <3>1 DEF PurgeableEvent, PurgeableCandidate
  <2>2. ASSUME NEW r \in Requests, Collect(r) PROVE RowKept(i)
    <3>1. PICK j \in Ids, eligible \in BOOLEAN :
             rows[j].request = "none" /\ rows' = [rows EXCEPT ![j] = Row(r, eligible)]
      BY <2>2 DEF Collect, NextRow
    <3>2. rows[j].state = "none" /\ ~rows[j].event
      BY <1>1, <3>1 DEF IInv, RowsStand
    <3>3. i # j => rows'[i] = rows[i]
      BY <1>1, <3>1 DEF IInv, Typed
    <3> QED  BY <3>2, <3>3
  <2>3. ASSUME NEW j \in Ids, TransitionCandidate(j) PROVE RowKept(i)
    <3>1. PICK target \in Allowed(rows[j].state) : rows' = [rows EXCEPT ![j].state = target]
      BY <2>3 DEF TransitionCandidate
    <3>2. rows[j].state \in State /\ rows \in [Ids -> RowRecord]
      BY <1>1 DEF IInv, Typed, RowRecord
    <3>3. target # "none"
      BY <3>1, <3>2, ReviewsEnd
    <3> QED  BY <3>1, <3>2, <3>3 DEF RowRecord
  <2>4. ASSUME NEW r \in Requests, Tombstone(r) PROVE RowKept(i)
    <3>1. rows' = [j \in Ids |-> IF rows[j].request = r /\ rows[j].state # "none"
                                   THEN [rows[j] EXCEPT !.state = "revoked"] ELSE rows[j]]
      BY <2>4 DEF Tombstone
    <3>2. rows[i] \in RowRecord
      BY <1>1 DEF IInv, Typed
    <3> QED  BY <3>1, <3>2 DEF RowRecord
  <2>5. CASE rows' = rows
    BY <2>5
  <2>6. \/ PurgeRows \/ rows' = rows
        \/ \E r \in Requests : Collect(r) \/ Tombstone(r)
        \/ \E j \in Ids : TransitionCandidate(j)
    BY <1>1 DEF Next, EndWeek, ResolveDeletionRequest, PlaceHold, ReleaseHold, Fire, Regenerate,
                Selects, Verify, Revoke, Replay, Refuse, LowOnDisk, Stage, Publish, Record,
                PurgePackages,
                Corrupt, Crash, store, vars
  <2> QED  BY <2>1, <2>2, <2>3, <2>4, <2>5, <2>6
<1>2. ASSUME IInv, [Next]_vars PROVE ArchiveKept
  <2>1. CASE PurgePackages
    <3>1. PICK n \in DOMAIN order :
             LET old == {k \in ToSet(SubSeq(order, 1, n)) :
                           /\ Status(k) \in {"completed", "revoked", "verification_failed"}
                           /\ ~Held("package", k)} IN
               \A k \in Keys \ old : ~Protects(k)
      BY <2>1 DEF PurgePackages
    <3>2. ASSUME NEW k \in Keys, Held("package", k) PROVE ~Names(k)
      BY <3>1, <3>2 DEF Protects
    <3> QED  BY <3>2
  <2>2. ASSUME NEW w \in {"job", "loop"}, Publish(w) PROVE ArchiveKept
    <3>1. CASE archive' = archive
      BY <3>1 DEF HeldArchiveIsKept
    <3>2. CASE /\ builds' = builds + 1 /\ workers[w].at = "build"
               /\ archive' = [build |-> builds + 1, items |-> workers[w].items,
                              knew |-> workers[w].knew]
      <4>1. builds' > builds /\ w \in DOMAIN workers
        BY <1>2, <3>2 DEF IInv, Typed
      <4> QED  BY <3>2, <4>1 DEF HeldArchiveIsKept
    <3> QED  BY <2>2, <3>1, <3>2 DEF Publish
  <2>3. CASE Corrupt
    BY <2>3 DEF Corrupt, HeldArchiveIsKept
  <2>4. CASE archive' = archive
    BY <2>4 DEF HeldArchiveIsKept
  <2>5. PurgePackages \/ Corrupt \/ archive' = archive \/ \E w \in {"job", "loop"} : Publish(w)
    <3>1. DOMAIN workers = {"job", "loop"}
      BY <1>2 DEF IInv, Typed
    <3> QED  BY <1>2, <3>1 DEF Next, EndWeek, Collect, TransitionCandidate, Tombstone,
                ResolveDeletionRequest, PlaceHold, ReleaseHold, PurgeRows, Fire, Regenerate,
                Selects, Verify, Revoke, Replay, Refuse, LowOnDisk, Stage, Record, Crash, packages, vars
  <2> QED  BY <2>1, <2>2, <2>3, <2>4, <2>5
<1>3. IInv /\ [Next]_vars => (\A i \in Ids : RowKept(i)) /\ ArchiveKept
  BY <1>1, <1>2
<1> QED  BY <1>3, Invariance, PTL DEF Spec, HeldIsKept

-----------------------------------------------------------------------------
(***************************************************************************)
(* Proofs about the Skill registry, for any procedures and any number of   *)
(* versions: what the registry puts into service was validated as it is,   *)
(* and approved.                                                           *)
(***************************************************************************)

Places == {"generated", "experimental", "core", "deprecated", "disabled", "archived"}
Validations == {Unvalidated, Failed} \cup {Passed(p) : p \in Procedures}

SkillFile ==
    [store : Places, version : Nat \X Nat, state : SkillStates,
     source : {"generated", "core", "imported"}, origin : {"runtime", "human", "imported"},
     procedure : Procedures, validation : Validations, approved : BOOLEAN,
     by : {"registry", "put"}]

\* Evidence that was passed is about the procedure that is in the file, and a file that
\* the registry made active has it.  The first half, which an operator's own file has too,
\* is what carries the second through a promotion or a rollback, which copy a procedure
\* and its validation together.
ValidatedAsItIs(f) ==
    /\ f.validation.status = "passed" => f.validation = Passed(f.procedure)
    /\ f.state = "active" =>
         f.by = "put" \/ (f.validation.status = "passed" /\ f.approved)

Sound == {f \in SkillFile : ValidatedAsItIs(f)}

\* A file that was selected may since have been replaced, but was sound itself.
SkillInv ==
    /\ skillFiles \subseteq Sound /\ writing \subseteq Sound
    /\ activated \subseteq {f \in Sound : f.state = "active"}

LEMMA PutKeeps ==
    ASSUME SkillInv, NEW f \in SkillFile, ValidatedAsItIs(f), PutSkill(f)
    PROVE  SkillInv'
<1>1. f \in Sound
  BY DEF Sound
<1>2. QED BY <1>1 DEF SkillInv, PutSkill, Sound, ValidatedAsItIs

LEMMA VersionsAreNumbers ==
    ASSUME NEW v \in Nat \X Nat
    PROVE  NextPatch(v) \in Nat \X Nat /\ NextMinor(v) \in Nat \X Nat
  BY DEF NextPatch, NextMinor

\* An activated copy of a file that passed.
LEMMA ActivateKeeps ==
    ASSUME SkillInv, NEW f \in skillFiles, f.validation.status = "passed",
           NEW v \in Nat \X Nat, Activate(f, v)
    PROVE  SkillInv'
<1> DEFINE new == [f EXCEPT !.version = v, !.state = "active", !.store = "core",
                            !.origin = "human", !.approved = TRUE, !.by = "registry"]
<1>1. f \in SkillFile /\ ValidatedAsItIs(f)
  BY DEF SkillInv, Sound
<1>2. new \in SkillFile
  BY <1>1 DEF SkillFile, Places, SkillStates
<1>3. new.validation = f.validation /\ new.procedure = f.procedure /\ new.approved
  BY <1>1 DEF SkillFile
<1>4. PutSkill(new)
  BY DEF Activate
<1> HIDE DEF new
<1>5. QED BY <1>1, <1>2, <1>3, <1>4, PutKeeps DEF ValidatedAsItIs

LEMMA DraftIsFile ==
    ASSUME NEW p \in Procedures
    PROVE  Draft(p) \in SkillFile /\ Draft(p).state = "experimental"
           /\ Draft(p).procedure = p /\ Draft(p).validation = Unvalidated
  BY DEF Draft, SkillFile, Places, SkillStates, Validations

LEMMA SkillNextKeeps ==
    ASSUME SkillInv, [SkillNext]_skillVars
    PROVE  SkillInv'
<1>1. CASE DraftFromPattern
  <2>1. PICK p \in Procedures : PutSkill(Draft(p))
    BY <1>1 DEF DraftFromPattern
  <2>2. ValidatedAsItIs(Draft(p))
    BY DraftIsFile DEF ValidatedAsItIs, Unvalidated
  <2>3. QED BY <2>1, <2>2, DraftIsFile, PutKeeps
<1>2. CASE AuthorSkill
  <2>1. PICK v \in BroughtVersions, p \in Procedures, state \in BroughtSkillStates,
             approved \in BOOLEAN :
          \E place \in StoresOf(state), evidence \in {Unvalidated, Failed, Passed(p)} :
            PutSkill([Draft(p) EXCEPT !.version = v, !.store = place, !.state = state,
                                      !.source = IF place = "core" THEN "core" ELSE @,
                                      !.origin = "human", !.validation = evidence,
                                      !.approved = approved, !.by = "put"])
    BY <1>2 DEF AuthorSkill
  <2>2. PICK place \in StoresOf(state), evidence \in {Unvalidated, Failed, Passed(p)} :
          PutSkill([Draft(p) EXCEPT !.version = v, !.store = place, !.state = state,
                                    !.source = IF place = "core" THEN "core" ELSE @,
                                    !.origin = "human", !.validation = evidence,
                                    !.approved = approved, !.by = "put"])
    BY <2>1
  <2>3. PICK d \in SkillFile : d = Draft(p) /\ d.procedure = p
    BY DraftIsFile
  <2>4. PICK source \in {"core", "generated", "imported"} :
          source = IF place = "core" THEN "core" ELSE d.source
    BY DEF SkillFile
  <2>5. state \in SkillStates
    BY SkillRegistryAssumption
  <2>6. place \in Places
    BY <2>5 DEF StoresOf, SkillStates, Places
  <2>7. evidence \in Validations
    BY DEF Validations
  <2>8. v \in Nat \X Nat
    BY SkillRegistryAssumption DEF SkillVersions
  <2> DEFINE new == [d EXCEPT !.version = v, !.store = place, !.state = state,
                              !.source = source, !.origin = "human", !.validation = evidence,
                              !.approved = approved, !.by = "put"]
  <2>9. new \in SkillFile
    BY <2>5, <2>6, <2>7, <2>8 DEF SkillFile
  <2>10. new.validation = evidence /\ new.procedure = p /\ new.by = "put"
    BY <2>3 DEF SkillFile
  <2>11. PutSkill(new)
    BY <2>2, <2>3, <2>4
  <2> HIDE DEF new
  <2>12. ValidatedAsItIs(new)
    BY <2>10 DEF ValidatedAsItIs, Passed, Unvalidated, Failed
  <2>13. QED BY <2>9, <2>11, <2>12, PutKeeps
\* A changed procedure loses the evidence of the one it replaces.
<1>3. CASE Successor
  <2>1. PICK p \in Procedures, validated \in BOOLEAN, approved \in BOOLEAN, f \in skillFiles :
          PutSkill(SuccessorOf(f, p, validated, approved))
    BY <1>3 DEF Successor, Get, Found
  <2>2. PICK evidence \in Validations :
          evidence = IF validated THEN Passed(p) ELSE Unvalidated
    BY DEF Validations
  <2>3. f \in SkillFile
    BY DEF SkillInv, Sound
  <2>4. PICK v \in Nat \X Nat : v = NextPatch(f.version)
    BY <2>3, VersionsAreNumbers DEF SkillFile
  <2> DEFINE new == [f EXCEPT !.version = v, !.state = "experimental", !.store = "experimental",
                              !.origin = "human", !.by = "registry",
                              !.approved = approved, !.procedure = p, !.validation = evidence]
  <2>5. new \in SkillFile
    BY <2>3 DEF SkillFile, Places, SkillStates
  <2>6. new.validation = evidence /\ new.procedure = p /\ new.state = "experimental"
    BY <2>3 DEF SkillFile
  <2>7. PutSkill(new)
    BY <2>1, <2>2, <2>4 DEF SuccessorOf
  <2> HIDE DEF new
  <2>8. ValidatedAsItIs(new)
    BY <2>2, <2>6 DEF ValidatedAsItIs, Passed, Unvalidated
  <2>9. QED BY <2>5, <2>7, <2>8, PutKeeps
<1>4. CASE EvaluateSkill
  <2>1. PICK passed \in BOOLEAN, f \in skillFiles :
          /\ f.state = "experimental"
          /\ PutSkill([f EXCEPT !.version = NextPatch(@), !.store = "experimental",
                                !.validation = IF passed THEN Passed(f.procedure) ELSE Failed,
                                !.origin = "runtime", !.approved = FALSE, !.by = "registry"])
    BY <1>4 DEF EvaluateSkill, Get, Found
  <2>2. f \in SkillFile /\ f.procedure \in Procedures /\ ValidatedAsItIs(f)
    BY DEF SkillInv, SkillFile, Sound
  <2>3. PICK evidence \in Validations :
          evidence = IF passed THEN Passed(f.procedure) ELSE Failed
    BY <2>2 DEF Validations
  <2>4. PICK v \in Nat \X Nat : v = NextPatch(f.version)
    BY <2>2, VersionsAreNumbers DEF SkillFile
  <2> DEFINE new == [f EXCEPT !.version = v, !.store = "experimental",
                              !.validation = evidence, !.origin = "runtime", !.approved = FALSE,
                              !.by = "registry"]
  <2>5. new \in SkillFile
    BY <2>2 DEF SkillFile, Places
  <2>6. new.validation = evidence /\ new.procedure = f.procedure /\ new.state = f.state
    BY <2>2 DEF SkillFile
  <2>7. PutSkill(new)
    BY <2>1, <2>3, <2>4
  <2> HIDE DEF new
  <2>8. ValidatedAsItIs(new)
    BY <2>1, <2>3, <2>6 DEF ValidatedAsItIs, Passed, Failed
  <2>9. QED BY <2>5, <2>7, <2>8, PutKeeps
<1>5. CASE RecordSkillCanary
  BY <1>5 DEF RecordSkillCanary, SkillInv, Sound, ValidatedAsItIs
<1>6. CASE PromoteSkill
  <2>1. PICK v \in SkillVersions, f \in skillFiles :
          f.version = v /\ Promotable(f) /\ Activate(f, NextMinor(v))
    BY <1>6 DEF PromoteSkill, Get, Found
  <2>2. NextMinor(v) \in Nat \X Nat
    BY <2>1, VersionsAreNumbers DEF SkillInv, SkillFile, Sound
  <2>3. QED BY <2>1, <2>2, ActivateKeeps DEF Promotable
<1>7. CASE TransitionSkill
  <2>1. PICK approved \in BOOLEAN, f \in skillFiles :
          /\ f.state \in DOMAIN LifecycleNext
          /\ PutSkill([f EXCEPT !.version = NextPatch(@), !.state = LifecycleNext[f.state],
                                !.store = LifecycleNext[f.state], !.approved = approved,
                                !.origin = IF approved THEN "human" ELSE "runtime",
                                !.by = "registry"])
    BY <1>7 DEF TransitionSkill, Get, Found
  <2>2. f \in SkillFile /\ ValidatedAsItIs(f)
    BY DEF SkillInv, Sound
  <2>3. PICK v \in Nat \X Nat : v = NextPatch(f.version)
    BY <2>2, VersionsAreNumbers DEF SkillFile
  <2>4. PICK s \in {"deprecated", "disabled", "archived"} : s = LifecycleNext[f.state]
    BY <2>1 DEF LifecycleNext
  <2>5. PICK o \in {"human", "runtime"} : o = IF approved THEN "human" ELSE "runtime"
    OBVIOUS
  <2> DEFINE new == [f EXCEPT !.version = v, !.state = s, !.store = s,
                              !.approved = approved, !.origin = o, !.by = "registry"]
  <2>6. new \in SkillFile
    BY <2>2 DEF SkillFile, Places, SkillStates
  <2>7. new.validation = f.validation /\ new.procedure = f.procedure /\ new.state = s
    BY <2>2 DEF SkillFile
  <2>8. PutSkill(new)
    BY <2>1, <2>3, <2>4, <2>5
  <2> HIDE DEF new
  <2>9. ValidatedAsItIs(new)
    BY <2>2, <2>7 DEF ValidatedAsItIs
  <2>10. QED BY <2>6, <2>8, <2>9, PutKeeps
<1>8. CASE RollbackSkill
  <2>1. PICK v \in SkillVersions, f \in skillFiles, g \in skillFiles :
          /\ f.version = v /\ g.validation.status = "passed"
          /\ Activate(g, NextMinor(v))
    BY <1>8 DEF RollbackSkill, Get, Found
  <2>2. NextMinor(v) \in Nat \X Nat
    BY <2>1, VersionsAreNumbers DEF SkillInv, SkillFile, Sound
  <2>3. QED BY <2>1, <2>2, ActivateKeeps
<1>9. CASE ImportSkill
  <2>1. PICK v \in BroughtVersions, p \in Procedures, validated \in BOOLEAN :
          PutSkill([Draft(p) EXCEPT !.version = v, !.store = "experimental",
                                    !.source = "imported", !.origin = "imported",
                                    !.validation = IF validated THEN Passed(p) ELSE Unvalidated])
    BY <1>9 DEF ImportSkill
  <2>2. PICK d \in SkillFile : d = Draft(p) /\ d.procedure = p /\ d.state = "experimental"
    BY DraftIsFile
  <2>3. PICK evidence \in Validations :
          evidence = IF validated THEN Passed(p) ELSE Unvalidated
    BY DEF Validations
  <2>4. v \in Nat \X Nat
    BY SkillRegistryAssumption DEF SkillVersions
  <2> DEFINE new == [d EXCEPT !.version = v, !.store = "experimental", !.source = "imported",
                              !.origin = "imported", !.validation = evidence]
  <2>5. new \in SkillFile
    BY <2>4 DEF SkillFile, Places
  <2>6. new.validation = evidence /\ new.procedure = p /\ new.state = "experimental"
    BY <2>2 DEF SkillFile
  <2>7. PutSkill(new)
    BY <2>1, <2>2, <2>3
  <2> HIDE DEF new
  <2>8. ValidatedAsItIs(new)
    BY <2>3, <2>6 DEF ValidatedAsItIs, Passed, Unvalidated
  <2>9. QED BY <2>5, <2>7, <2>8, PutKeeps
<1>10. CASE SelectSkills
  BY <1>10 DEF SelectSkills, ServedSkill, SkillInv, Sound, ValidatedAsItIs
\* What os.replace puts in place was sound when it was put together.
<1>11. CASE ReplaceFile
  <2>1. PICK f \in writing :
          /\ skillFiles' \subseteq skillFiles \cup {f} /\ writing' \subseteq writing
          /\ activated' = activated
    BY <1>11 DEF ReplaceFile
  <2>2. skillFiles' \subseteq Sound /\ writing' \subseteq Sound
    BY <2>1 DEF SkillInv
  <2>3. QED BY <2>1, <2>2 DEF SkillInv, Sound, ValidatedAsItIs
<1>12. CASE WriterDies
  <2>1. writing' \subseteq writing /\ skillFiles' = skillFiles /\ activated' = activated
    BY <1>12 DEF WriterDies
  <2>2. QED BY <2>1 DEF SkillInv, Sound, ValidatedAsItIs
<1>13. CASE UNCHANGED skillVars
  BY <1>13 DEF skillVars, SkillInv, Sound, ValidatedAsItIs
<1>14. QED BY <1>1, <1>2, <1>3, <1>4, <1>5, <1>6, <1>7, <1>8, <1>9, <1>10, <1>11, <1>12,
              <1>13 DEF SkillNext

\* Of what the Executor is given, all that the registry itself put into service was
\* approved and passed a validation of the very procedure it has, whatever processes
\* overwrite each other's files: skills.py:316-335, 354-385, 459-494, 580-615.
THEOREM OnlyValidatedSkills == SkillSpec => []SkillsAreValidated
<1>1. SkillInit => SkillInv
  BY DEF SkillInit, SkillInv
<1>2. SkillInv /\ [SkillNext]_skillVars => SkillInv'
  BY SkillNextKeeps
<1>3. SkillInv => SkillsAreValidated
  <2>1. ASSUME SkillInv, NEW f \in activated
        PROVE  f.by = "put" \/ (f.validation = Passed(f.procedure) /\ f.approved)
    BY <2>1 DEF SkillInv, Sound, ValidatedAsItIs
  <2>2. QED BY <2>1 DEF SkillsAreValidated
<1>4. QED BY <1>1, <1>2, <1>3, PTL DEF SkillSpec

-----------------------------------------------------------------------------
(***************************************************************************)
(* Proofs about the knowledge registry, for any entries, operators and     *)
(* number of versions: rows are for good, and a conflict is only closed,   *)
(* for good too, by an approved row that is stored.                        *)
(***************************************************************************)

Entry == [id : Entries, version : Nat, state : KnowledgeStates,
          validated : BOOLEAN, approved : BOOLEAN]
VersionKey == Entries \X Nat
Conflict == [between : SUBSET VersionKey, open : BOOLEAN, by : VersionKey \cup {<<>>}]
Resolver == [at : {"idle", "put", "close"}, conflict : SUBSET SUBSET VersionKey,
             resolution : SUBSET Entry]

KnowledgeTypeOK ==
    /\ knowledge \subseteq Entry
    /\ conflicts \subseteq Conflict
    /\ resolvers \in [Operators -> Resolver]

\* What goes into service is validated.
Serviceable(e) == e.state = "active" => e.validated

\* What a resolution under way will close its conflict with is approved, and stored by then.
ResolutionsAreSound ==
    \A o \in Operators : \A r \in resolvers[o].resolution :
        /\ Serviceable(r) /\ r.approved
        /\ resolvers[o].resolution = {r}
        /\ resolvers[o].at = "close" => r \in knowledge

KnowledgeInv ==
    KnowledgeTypeOK /\ RowsAreSound /\ ResolutionsAreSound /\ ConflictsAreSuperseded

\* What holds of every step besides.
NothingTaken ==
    /\ knowledge \subseteq knowledge'
    /\ \A c \in conflicts : \E d \in conflicts' :
         d.between = c.between /\ (d.open => c.open)

-----------------------------------------------------------------------------
LEMMA InsertedKeepsRows ==
    ASSUME knowledge \subseteq Entry, RowsAreSound, NEW e \in Entry, Serviceable(e), Inserted(e)
    PROVE  /\ knowledge' = knowledge \cup {e}
           /\ knowledge' \subseteq Entry /\ RowsAreSound' /\ knowledge \subseteq knowledge'
  BY DEF Inserted, RowsAreSound, Serviceable, Key

\* A new row disturbs neither conflicts nor resolutions: they only point to rows.
LEMMA PutKeepsKnowledge ==
    ASSUME KnowledgeInv, NEW e \in Entry, Serviceable(e), PutKnowledge(e)
    PROVE  KnowledgeInv' /\ NothingTaken
<1>1. /\ knowledge \subseteq Entry /\ RowsAreSound /\ Inserted(e)
      /\ UNCHANGED <<conflicts, resolvers>>
  BY DEF KnowledgeInv, KnowledgeTypeOK, PutKnowledge
<1>2. knowledge' \subseteq Entry /\ RowsAreSound' /\ knowledge \subseteq knowledge'
  BY <1>1, InsertedKeepsRows
<1>3. KnowledgeTypeOK'
  BY <1>1, <1>2 DEF KnowledgeInv, KnowledgeTypeOK
<1>4. ResolutionsAreSound'
  BY <1>1, <1>2 DEF KnowledgeInv, ResolutionsAreSound, Serviceable
<1>5. ConflictsAreSuperseded'
  BY <1>1, <1>2 DEF KnowledgeInv, ConflictsAreSuperseded
<1>6. NothingTaken
  BY <1>1, <1>2 DEF NothingTaken
<1>7. QED BY <1>2, <1>3, <1>4, <1>5, <1>6 DEF KnowledgeInv

LEMMA BroughtIsEntry ==
    ASSUME NEW e \in Brought
    PROVE  e \in Entry /\ Serviceable(e)
<1>1. BroughtStates \subseteq KnowledgeStates
  BY KnowledgeRegistryAssumption
<1>2. 1..MaxKnowledgeVersion \subseteq Nat
  BY KnowledgeRegistryAssumption
<1>3. QED BY <1>1, <1>2 DEF Brought, Entry, Serviceable

LEMMA NextVersion ==
    ASSUME NEW e \in Entry
    PROVE  /\ Next1(e) \in Entry /\ Next1(e).id = e.id /\ Next1(e).validated = e.validated
           /\ Next1(e).state = e.state
  BY DEF Next1, Entry

LEMMA OpenConflict ==
    ASSUME NEW between \in SUBSET VersionKey
    PROVE  LET c == [between |-> between, open |-> TRUE, by |-> <<>>]
           IN  c \in Conflict /\ c.between = between /\ c.open
  BY DEF Conflict

LEMMA ClosedConflict ==
    ASSUME NEW c \in Conflict, NEW key \in VersionKey
    PROVE  LET closed == [c EXCEPT !.open = FALSE, !.by = key]
           IN  /\ closed \in Conflict /\ closed.between = c.between /\ closed.by = key
               /\ ~closed.open
  BY DEF Conflict

\* A resolution that is given up or done is forgotten; the others stay sound.
LEMMA ForgottenKeepsOthers ==
    ASSUME KnowledgeInv, NEW o \in Operators, UNCHANGED knowledge,
           resolvers' = [resolvers EXCEPT ![o] = NotResolving]
    PROVE  resolvers' \in [Operators -> Resolver] /\ ResolutionsAreSound'
<1>1. NotResolving \in Resolver /\ NotResolving.resolution = {}
  BY DEF NotResolving, Resolver
<1>2. resolvers' \in [Operators -> Resolver]
  BY <1>1 DEF KnowledgeInv, KnowledgeTypeOK
<1>3. \A p \in Operators : resolvers'[p] = IF p = o THEN NotResolving ELSE resolvers[p]
  BY DEF KnowledgeInv, KnowledgeTypeOK
<1>4. QED BY <1>1, <1>2, <1>3 DEF KnowledgeInv, ResolutionsAreSound, Serviceable

LEMMA ForgottenKeeps ==
    ASSUME KnowledgeInv, NEW o \in Operators, UNCHANGED <<knowledge, conflicts>>,
           resolvers' = [resolvers EXCEPT ![o] = NotResolving]
    PROVE  KnowledgeInv' /\ NothingTaken
<1>1. resolvers' \in [Operators -> Resolver] /\ ResolutionsAreSound'
  BY ForgottenKeepsOthers
<1>2. RowsAreSound' /\ ConflictsAreSuperseded' /\ NothingTaken
  BY DEF KnowledgeInv, RowsAreSound, Key, ConflictsAreSuperseded, NothingTaken
<1>3. QED BY <1>1, <1>2 DEF KnowledgeInv, KnowledgeTypeOK

\* A resolution whose entry is stored, now or before, goes on to close the conflict.
LEMMA StoredIsFound ==
    ASSUME KnowledgeInv, NEW o \in Operators, NEW r \in resolvers[o].resolution,
           r \in knowledge', knowledge \subseteq knowledge',
           resolvers' = [resolvers EXCEPT ![o].at = "close"]
    PROVE  resolvers' \in [Operators -> Resolver] /\ ResolutionsAreSound'
<1>1. resolvers' \in [Operators -> Resolver]
  BY DEF KnowledgeInv, KnowledgeTypeOK, Resolver
<1>2. \A p \in Operators : /\ resolvers'[p].resolution = resolvers[p].resolution
                            /\ resolvers'[p].at = IF p = o THEN "close" ELSE resolvers[p].at
  BY DEF KnowledgeInv, KnowledgeTypeOK, Resolver
<1>3. resolvers[o].resolution = {r}
  BY DEF KnowledgeInv, ResolutionsAreSound
<1>4. QED BY <1>1, <1>2, <1>3 DEF KnowledgeInv, ResolutionsAreSound, Serviceable

LEMMA KnowledgeNextKeeps ==
    ASSUME KnowledgeInv, [KnowledgeNext]_knowledgeVars
    PROVE  KnowledgeInv' /\ NothingTaken
<1>0. knowledge \subseteq Entry /\ RowsAreSound
  BY DEF KnowledgeInv, KnowledgeTypeOK
<1>1. CASE AddKnowledge
  BY <1>1, BroughtIsEntry, PutKeepsKnowledge DEF AddKnowledge
<1>2. CASE ValidateKnowledge
  <2>1. PICK e \in knowledge :
          PutKnowledge([Next1(e) EXCEPT !.validated = TRUE, !.approved = FALSE])
    BY <1>2 DEF ValidateKnowledge
  <2>2. PICK n \in Entry : n = Next1(e)
    BY <1>0, NextVersion
  <2> DEFINE new == [n EXCEPT !.validated = TRUE, !.approved = FALSE]
  <2>3. new \in Entry /\ Serviceable(new)
    BY <2>2 DEF Entry, Serviceable
  <2>4. PutKnowledge(new)
    BY <2>1, <2>2
  <2>5. QED BY <2>3, <2>4, PutKeepsKnowledge
<1>3. CASE PromoteKnowledge
  <2>1. PICK e \in knowledge : /\ e.validated
          /\ PutKnowledge([Next1(e) EXCEPT !.state = "active", !.approved = TRUE])
    BY <1>3 DEF PromoteKnowledge
  <2>2. PICK n \in Entry : n = Next1(e) /\ n.validated = e.validated
    BY <1>0, NextVersion
  <2> DEFINE new == [n EXCEPT !.state = "active", !.approved = TRUE]
  <2>3. new \in Entry /\ Serviceable(new)
    BY <2>1, <2>2 DEF Entry, Serviceable, KnowledgeStates
  <2>4. PutKnowledge(new)
    BY <2>1, <2>2
  <2>5. QED BY <2>3, <2>4, PutKeepsKnowledge
<1>4. CASE TransitionKnowledge
  <2>1. PICK e \in knowledge : /\ e.state \in DOMAIN KnowledgeLifecycle
          /\ PutKnowledge([Next1(e) EXCEPT !.state = KnowledgeLifecycle[@], !.approved = TRUE])
    BY <1>4 DEF TransitionKnowledge
  <2>2. PICK n \in Entry : n = Next1(e) /\ n.state = e.state
    BY <1>0, NextVersion
  <2>3. PICK s \in {"deprecated", "disabled", "archived"} : s = KnowledgeLifecycle[n.state]
    BY <2>1, <2>2 DEF KnowledgeLifecycle
  <2> DEFINE new == [n EXCEPT !.state = s, !.approved = TRUE]
  <2>4. new \in Entry /\ Serviceable(new)
    BY <2>2, <2>3 DEF Entry, Serviceable, KnowledgeStates
  <2>5. PutKnowledge(new)
    BY <2>1, <2>2, <2>3
  <2>6. QED BY <2>4, <2>5, PutKeepsKnowledge
<1>5. CASE RollbackKnowledge
  <2>1. PICK e \in knowledge :
          PutKnowledge([Next1(e) EXCEPT !.state = "active", !.validated = TRUE,
                                        !.approved = TRUE])
    BY <1>5 DEF RollbackKnowledge
  <2>2. PICK n \in Entry : n = Next1(e)
    BY <1>0, NextVersion
  <2> DEFINE new == [n EXCEPT !.state = "active", !.validated = TRUE, !.approved = TRUE]
  <2>3. new \in Entry /\ Serviceable(new)
    BY <2>2 DEF Entry, Serviceable, KnowledgeStates
  <2>4. PutKnowledge(new)
    BY <2>1, <2>2
  <2>5. QED BY <2>3, <2>4, PutKeepsKnowledge
<1>6. CASE AddConflict
  <2>1. PICK e \in knowledge, f \in knowledge :
          /\ conflicts' = conflicts \cup
               {[between |-> {Key(e), Key(f)}, open |-> TRUE, by |-> <<>>]}
          /\ UNCHANGED <<knowledge, resolvers>>
    BY <1>6 DEF AddConflict
  <2>2. {Key(e), Key(f)} \in SUBSET VersionKey
    BY <1>0 DEF Key, Entry, VersionKey
  <2>3. PICK c \in Conflict : c.open /\ conflicts' = conflicts \cup {c}
    BY <2>1, <2>2, OpenConflict
  <2>4. KnowledgeTypeOK' /\ NothingTaken
    BY <2>1, <2>3 DEF KnowledgeInv, KnowledgeTypeOK, NothingTaken
  <2>5. RowsAreSound' /\ ResolutionsAreSound'
    BY <2>1 DEF KnowledgeInv, RowsAreSound, Key, ResolutionsAreSound, Serviceable
  <2>6. ConflictsAreSuperseded'
    BY <2>1, <2>3 DEF KnowledgeInv, ConflictsAreSuperseded
  <2>7. QED BY <2>4, <2>5, <2>6 DEF KnowledgeInv
<1>7. CASE BeginResolution
  <2>1. PICK o \in Operators, c \in conflicts, r \in Brought :
          /\ resolvers' = [resolvers EXCEPT ![o] =
               [at |-> "put", conflict |-> {c.between},
                resolution |-> {[r EXCEPT !.approved = TRUE]}]]
          /\ UNCHANGED <<knowledge, conflicts>>
    BY <1>7 DEF BeginResolution
  <2> DEFINE new == [r EXCEPT !.approved = TRUE]
  <2>2. new \in Entry /\ Serviceable(new) /\ new.approved
    BY BroughtIsEntry DEF Entry, Serviceable
  <2> DEFINE begun == [at |-> "put", conflict |-> {c.between}, resolution |-> {new}]
  <2>3. c.between \in SUBSET VersionKey
    BY DEF KnowledgeInv, KnowledgeTypeOK, Conflict
  <2>4. begun \in Resolver
    BY <2>2, <2>3 DEF Resolver
  <2>5. begun.resolution = {new} /\ begun.at = "put"
    OBVIOUS
  <2>6. resolvers' = [resolvers EXCEPT ![o] = begun]
    BY <2>1
  <2> HIDE DEF new, begun
  <2>7. KnowledgeTypeOK'
    BY <2>1, <2>4, <2>6 DEF KnowledgeInv, KnowledgeTypeOK
  <2>8. \A p \in Operators : resolvers'[p] = IF p = o THEN begun ELSE resolvers[p]
    BY <2>6 DEF KnowledgeInv, KnowledgeTypeOK
  <2>9. ResolutionsAreSound'
    BY <2>1, <2>2, <2>5, <2>8 DEF KnowledgeInv, ResolutionsAreSound, Serviceable
  <2>10. RowsAreSound' /\ ConflictsAreSuperseded' /\ NothingTaken
    BY <2>1 DEF KnowledgeInv, RowsAreSound, Key, ConflictsAreSuperseded, NothingTaken
  <2>11. QED BY <2>7, <2>9, <2>10 DEF KnowledgeInv
<1>8. CASE StoreResolution
  <2>1. PICK o \in Operators : \E r \in resolvers[o].resolution :
          \/ Inserted(r) /\ resolvers' = [resolvers EXCEPT ![o].at = "close"]
          \/ r \in knowledge /\ resolvers' = [resolvers EXCEPT ![o].at = "close"]
             /\ UNCHANGED knowledge
          \/ UNCHANGED knowledge /\ resolvers' = [resolvers EXCEPT ![o] = NotResolving]
    BY <1>8 DEF StoreResolution
  <2>2. PICK r \in resolvers[o].resolution :
          \/ Inserted(r) /\ resolvers' = [resolvers EXCEPT ![o].at = "close"]
          \/ r \in knowledge /\ resolvers' = [resolvers EXCEPT ![o].at = "close"]
             /\ UNCHANGED knowledge
          \/ UNCHANGED knowledge /\ resolvers' = [resolvers EXCEPT ![o] = NotResolving]
    BY <2>1
  <2>3. UNCHANGED conflicts
    BY <1>8 DEF StoreResolution
  <2>4. CASE UNCHANGED knowledge /\ resolvers' = [resolvers EXCEPT ![o] = NotResolving]
    BY <2>3, <2>4, ForgottenKeeps
  <2>5. ASSUME resolvers' = [resolvers EXCEPT ![o].at = "close"],
               r \in knowledge', knowledge \subseteq knowledge',
               knowledge' \subseteq Entry, RowsAreSound'
        PROVE  KnowledgeInv' /\ NothingTaken
    <3>1. resolvers' \in [Operators -> Resolver] /\ ResolutionsAreSound'
      BY <2>5, StoredIsFound
    <3>2. ConflictsAreSuperseded' /\ NothingTaken
      BY <2>3, <2>5 DEF KnowledgeInv, ConflictsAreSuperseded, NothingTaken
    <3>3. QED BY <2>3, <2>5, <3>1, <3>2 DEF KnowledgeInv, KnowledgeTypeOK
  <2>6. CASE Inserted(r) /\ resolvers' = [resolvers EXCEPT ![o].at = "close"]
    <3>1. r \in Entry /\ Serviceable(r)
      BY DEF KnowledgeInv, KnowledgeTypeOK, Resolver, ResolutionsAreSound
    <3>2. /\ knowledge' = knowledge \cup {r}
          /\ knowledge' \subseteq Entry /\ RowsAreSound' /\ knowledge \subseteq knowledge'
      BY <1>0, <2>6, <3>1, InsertedKeepsRows
    <3>3. QED BY <2>5, <2>6, <3>2
  <2>7. CASE r \in knowledge /\ resolvers' = [resolvers EXCEPT ![o].at = "close"]
             /\ UNCHANGED knowledge
    <3>1. RowsAreSound'
      BY <1>0, <2>7 DEF RowsAreSound, Key
    <3>2. QED BY <1>0, <2>5, <2>7, <3>1
  <2>8. QED BY <2>2, <2>4, <2>6, <2>7
\* The conflict is not looked at again, but the row that closes it is there.
<1>9. CASE CloseConflict
  <2>1. PICK o \in Operators, c \in conflicts : \E r \in resolvers[o].resolution :
          /\ resolvers[o].at = "close"
          /\ conflicts' = (conflicts \ {c}) \cup {[c EXCEPT !.open = FALSE, !.by = Key(r)]}
          /\ resolvers' = [resolvers EXCEPT ![o] = NotResolving]
          /\ UNCHANGED knowledge
    BY <1>9 DEF CloseConflict, Closes
  <2>2. PICK r \in resolvers[o].resolution :
          /\ resolvers[o].at = "close"
          /\ conflicts' = (conflicts \ {c}) \cup {[c EXCEPT !.open = FALSE, !.by = Key(r)]}
          /\ resolvers' = [resolvers EXCEPT ![o] = NotResolving]
          /\ UNCHANGED knowledge
    BY <2>1
  <2>3. r \in knowledge /\ r.approved
    BY <2>2 DEF KnowledgeInv, ResolutionsAreSound
  <2>4. Key(r) \in VersionKey
    BY <1>0, <2>3 DEF Key, Entry, VersionKey
  <2>5. c \in Conflict
    BY DEF KnowledgeInv, KnowledgeTypeOK
  <2>6. PICK closed \in Conflict :
          /\ closed = [c EXCEPT !.open = FALSE, !.by = Key(r)]
          /\ closed.between = c.between /\ closed.by = Key(r) /\ ~closed.open
    BY <2>4, <2>5, ClosedConflict
  <2>7. UNCHANGED knowledge /\ conflicts' = (conflicts \ {c}) \cup {closed}
    BY <2>2, <2>6
  <2>8. resolvers' \in [Operators -> Resolver] /\ ResolutionsAreSound'
    BY <2>2, ForgottenKeepsOthers
  <2>9. KnowledgeTypeOK'
    BY <2>6, <2>7, <2>8 DEF KnowledgeInv, KnowledgeTypeOK
  <2>10. RowsAreSound'
    BY <1>0, <2>7 DEF RowsAreSound, Key
  <2>11. ConflictsAreSuperseded'
    BY <2>3, <2>6, <2>7 DEF KnowledgeInv, ConflictsAreSuperseded, Key
  <2>12. NothingTaken
    BY <2>6, <2>7 DEF NothingTaken
  <2>13. QED BY <2>8, <2>9, <2>10, <2>11, <2>12 DEF KnowledgeInv
<1>10. CASE LoseOperator
  <2>1. PICK o \in Operators : /\ resolvers' = [resolvers EXCEPT ![o] = NotResolving]
                               /\ UNCHANGED <<knowledge, conflicts>>
    BY <1>10 DEF LoseOperator
  <2>2. QED BY <2>1, ForgottenKeeps
<1>11. CASE UNCHANGED knowledgeVars
  BY <1>11 DEF knowledgeVars, KnowledgeInv, KnowledgeTypeOK, RowsAreSound, Key,
               ResolutionsAreSound, Serviceable, ConflictsAreSuperseded, NothingTaken
<1>12. QED BY <1>1, <1>2, <1>3, <1>4, <1>5, <1>6, <1>7, <1>8, <1>9, <1>10, <1>11
           DEF KnowledgeNext

\* Whatever operators do at once and wherever a resolution ends halfway: a row is stored
\* once and for good, nothing unvalidated is in service, and a conflict is only closed, for
\* good, by an approved row that is stored: knowledge.py:84-90, 199-219, 311-338.
THEOREM KnowledgeIsConsistent == KnowledgeSpec => KnowledgeStands
<1>1. KnowledgeInit => KnowledgeInv
  BY DEF KnowledgeInit, KnowledgeInv, KnowledgeTypeOK, RowsAreSound, ResolutionsAreSound,
         ConflictsAreSuperseded, NotResolving, Resolver
<1>2. KnowledgeInv /\ [KnowledgeNext]_knowledgeVars => KnowledgeInv' /\ NothingTaken
  BY KnowledgeNextKeeps
<1>3. KnowledgeInv => ConflictsAreSuperseded /\ RowsAreSound
  BY DEF KnowledgeInv
<1>4. KnowledgeSpec => []KnowledgeInv /\ [][NothingTaken]_knowledgeVars
  BY <1>1, <1>2, PTL DEF KnowledgeSpec
<1>5. QED BY <1>3, <1>4, PTL DEF KnowledgeStands, NothingIsTakenBack, NothingTaken

-----------------------------------------------------------------------------
(***************************************************************************)
(* Proofs about the evolution registry, for any number of versions: what   *)
(* the registry put into service came there step by step, over a canary    *)
(* that helped.                                                            *)
(***************************************************************************)

Artifact == [version : Nat, state : ArtifactStates, payload : Payloads,
             evaluated : BOOLEAN, target : BOOLEAN, by : {"registry", "put"}]

\* What led to each version, stage by stage: this is what a promotion hands on.
StagesFollow ==
    \A a \in artifacts :
        /\ a.state = "evaluated" =>
             a.by = "put" \/ \E c \in artifacts : c.state = "candidate" /\ Older(c, a)
        /\ a.state = "canary" => a.by = "put" \/ Evaluated(a)

ArtifactInv == artifacts \subseteq Artifact /\ StagesFollow /\ ServiceStartsWithACanary

\* The row an operation writes, made of the row it read.
LEMMA NextOfIsArtifact ==
    ASSUME NEW a \in Artifact
    PROVE  /\ NextOf(a) \in Artifact /\ NextOf(a).version = a.version + 1
           /\ NextOf(a).payload = a.payload /\ NextOf(a).evaluated = a.evaluated
           /\ Older(a, NextOf(a))
<1>1. a.version + 1 \in Nat /\ a.version < a.version + 1
  BY DEF Artifact
<1>2. PICK n \in Nat : n = a.version + 1
  BY <1>1
<1> DEFINE next == [a EXCEPT !.version = n, !.by = "registry"]
<1>3. NextOf(a) = next
  BY <1>2 DEF NextOf
<1>4. /\ next \in Artifact /\ next.version = n
      /\ next.payload = a.payload /\ next.evaluated = a.evaluated
  BY DEF Artifact
<1> HIDE DEF next
<1>5. QED BY <1>1, <1>2, <1>3, <1>4 DEF Older

\* More rows and canaries leave every version the stages it had.
LEMMA StagesLast ==
    ASSUME artifacts \subseteq artifacts', artifactCanaries \subseteq artifactCanaries', NEW a
    PROVE  (Evaluated(a) => Evaluated(a)') /\ (Canaried(a) => Canaried(a)')
<1>1. \A b : Evaluated(b) => Evaluated(b)'
  BY DEF Evaluated
<1>2. QED BY <1>1 DEF Canaried

\* So what is written only has to have its own.
LEMMA PutKeepsService ==
    ASSUME ArtifactInv, NEW a \in Artifact, PutArtifact(a),
           a.state = "evaluated" =>
             a.by = "put" \/ \E c \in artifacts : c.state = "candidate" /\ Older(c, a),
           a.state = "canary" => a.by = "put" \/ Evaluated(a),
           a.state = "active" =>
             \E s \in artifacts \cup {a} : /\ s.state = "active" /\ s.version <= a.version
                                           /\ s.by = "put" \/ Canaried(s)
    PROVE  ArtifactInv'
<1>1. artifacts' = artifacts \cup {a} /\ artifactCanaries' = artifactCanaries
  BY DEF PutArtifact
<1>2. \A b : (Evaluated(b) => Evaluated(b)') /\ (Canaried(b) => Canaried(b)')
  BY <1>1, StagesLast
<1>3. StagesFollow'
  BY <1>1, <1>2 DEF ArtifactInv, StagesFollow
<1>4. ServiceStartsWithACanary'
  BY <1>1, <1>2 DEF ArtifactInv, ServiceStartsWithACanary
<1>5. QED BY <1>1, <1>3, <1>4 DEF ArtifactInv

LEMMA ArtifactNextKeeps ==
    ASSUME ArtifactInv, [ArtifactNext]_artifactVars
    PROVE  ArtifactInv'
<1>0. artifacts \subseteq Artifact
  BY DEF ArtifactInv
<1>1. CASE GenerateCandidate
  <2>1. PICK p \in Payloads : PutArtifact(NewArtifact(1, p))
    BY <1>1 DEF GenerateCandidate
  <2>2. NewArtifact(1, p) \in Artifact /\ NewArtifact(1, p).state = "candidate"
    BY DEF NewArtifact, Artifact, ArtifactStates
  <2>3. QED BY <2>1, <2>2, PutKeepsService
\* What an operator puts is excepted wherever it starts.
<1>2. CASE PutVersion
  <2>1. PICK v \in 1..MaxArtifactVersion, p \in Payloads, state \in ArtifactStates,
             evaluated \in BOOLEAN, target \in BOOLEAN :
          PutArtifact([NewArtifact(v, p) EXCEPT !.state = state, !.evaluated = evaluated,
                                                !.target = target, !.by = "put"])
    BY <1>2 DEF PutVersion
  <2>2. PICK d \in Artifact : d = NewArtifact(v, p)
    <3>1. v \in Nat
      BY EvolutionRegistryAssumption
    <3>2. NewArtifact(v, p) \in Artifact
      BY <3>1 DEF NewArtifact, Artifact, ArtifactStates
    <3>3. QED BY <3>2
  <2> DEFINE new == [d EXCEPT !.state = state, !.evaluated = evaluated,
                              !.target = target, !.by = "put"]
  <2>3. new \in Artifact /\ new.by = "put"
    BY DEF Artifact
  <2>4. new.version <= new.version
    BY <2>3 DEF Artifact
  <2>5. PutArtifact(new)
    BY <2>1, <2>2
  <2> HIDE DEF new
  <2>6. QED BY <2>3, <2>4, <2>5, PutKeepsService
<1>3. CASE EvaluateArtifact
  <2>1. PICK a \in artifacts, passed \in BOOLEAN : a.state = "candidate"
          /\ PutArtifact([NextOf(a) EXCEPT !.evaluated = TRUE,
                                           !.state = IF passed THEN "evaluated" ELSE "rejected"])
    BY <1>3 DEF EvaluateArtifact
  <2>2. PICK next \in Artifact : next = NextOf(a) /\ Older(a, next)
    BY <1>0, NextOfIsArtifact
  <2>3. PICK s \in {"evaluated", "rejected"} : s = IF passed THEN "evaluated" ELSE "rejected"
    OBVIOUS
  <2> DEFINE new == [next EXCEPT !.evaluated = TRUE, !.state = s]
  <2>4. new \in Artifact /\ new.state = s /\ Older(a, new)
    BY <2>2 DEF Artifact, ArtifactStates, Older
  <2>5. PutArtifact(new)
    BY <2>1, <2>2, <2>3
  <2> HIDE DEF new
  <2>6. QED BY <2>1, <2>4, <2>5, PutKeepsService
<1>4. CASE StartCanary
  <2>1. PICK a \in artifacts : /\ a.state = "evaluated" /\ a.evaluated
          /\ PutArtifact([NextOf(a) EXCEPT !.state = "canary", !.target = TRUE])
    BY <1>4 DEF StartCanary
  <2>2. PICK next \in Artifact : next = NextOf(a) /\ Older(a, next)
    BY <1>0, NextOfIsArtifact
  <2> DEFINE new == [next EXCEPT !.state = "canary", !.target = TRUE]
  <2>3. new \in Artifact /\ new.state = "canary" /\ Older(a, new)
    BY <2>2 DEF Artifact, ArtifactStates, Older
  <2>4. PutArtifact(new)
    BY <2>1, <2>2
  <2> HIDE DEF new
  <2>5. Evaluated(new)
    BY <2>1, <2>3 DEF Evaluated, ArtifactInv, StagesFollow
  <2>6. QED BY <2>3, <2>4, <2>5, PutKeepsService
<1>5. CASE RecordArtifactCanary
  <2>1. artifacts' = artifacts /\ artifactCanaries \subseteq artifactCanaries'
    BY <1>5 DEF RecordArtifactCanary
  <2>2. \A b : (Evaluated(b) => Evaluated(b)') /\ (Canaried(b) => Canaried(b)')
    BY <2>1, StagesLast
  <2>3. StagesFollow'
    BY <2>1, <2>2 DEF ArtifactInv, StagesFollow
  <2>4. ServiceStartsWithACanary'
    BY <2>1, <2>2 DEF ArtifactInv, ServiceStartsWithACanary
  <2>5. QED BY <2>1, <2>3, <2>4 DEF ArtifactInv
\* The canary that helped is the older version of the two.
<1>6. CASE PromoteArtifact
  <2>1. PICK a \in artifacts : /\ a.state = "canary" /\ a.version \in artifactCanaries
                               /\ PutArtifact([NextOf(a) EXCEPT !.state = "active"])
    BY <1>6 DEF PromoteArtifact
  <2>2. PICK next \in Artifact : next = NextOf(a) /\ Older(a, next)
    BY <1>0, NextOfIsArtifact
  <2> DEFINE new == [next EXCEPT !.state = "active"]
  <2>3. /\ new \in Artifact /\ new.state = "active" /\ Older(a, new)
        /\ new.version <= new.version
    BY <2>2 DEF Artifact, ArtifactStates, Older
  <2>4. PutArtifact(new)
    BY <2>1, <2>2
  <2> HIDE DEF new
  <2>5. Canaried(new)
    BY <2>1, <2>3 DEF Canaried, ArtifactInv, StagesFollow
  <2>6. QED BY <2>3, <2>4, <2>5, PutKeepsService
\* What the rolled back version came into service by is older than its successor too.
<1>7. CASE RollbackArtifact
  <2>1. PICK a \in artifacts, t \in artifacts :
          /\ a.state = "active"
          /\ PutArtifact([t EXCEPT !.version = a.version + 1, !.state = "active",
                                   !.target = TRUE, !.by = "registry"])
    BY <1>7 DEF RollbackArtifact, RollsBack
  <2>2. PICK n \in Nat : n = a.version + 1
    BY <1>0 DEF Artifact
  <2> DEFINE new == [t EXCEPT !.version = n, !.state = "active", !.target = TRUE,
                              !.by = "registry"]
  <2>3. t \in Artifact /\ PutArtifact(new)
    BY <1>0, <2>1, <2>2
  <2>4. new \in Artifact /\ new.version = n /\ new.state = "active"
    BY <2>3 DEF Artifact, ArtifactStates
  <2> HIDE DEF new
  <2>5. PICK s \in artifacts : /\ s.state = "active" /\ s.version <= a.version
                               /\ s.by = "put" \/ Canaried(s)
    BY <2>1 DEF ArtifactInv, ServiceStartsWithACanary
  <2>6. s.version <= new.version
    BY <1>0, <2>2, <2>4, <2>5 DEF Artifact
  <2>7. QED BY <2>3, <2>4, <2>5, <2>6, PutKeepsService
<1>8. CASE UNCHANGED artifactVars
  BY <1>8 DEF artifactVars, ArtifactInv, StagesFollow, ServiceStartsWithACanary, Evaluated,
              Canaried, Older
<1>9. QED BY <1>1, <1>2, <1>3, <1>4, <1>5, <1>6, <1>7, <1>8 DEF ArtifactNext

\* The registry puts an artifact into service only by way of a candidate, its evaluation
\* and a canary that helped, all with its payload, or where an operator put a version of
\* its own there, however many versions and rollbacks there are: evolution.py:226-417.
THEOREM PromotionByCanary == ArtifactSpec => []ServiceStartsWithACanary
<1>1. ArtifactInit => ArtifactInv
  BY DEF ArtifactInit, ArtifactInv, StagesFollow, ServiceStartsWithACanary
<1>2. ArtifactInv /\ [ArtifactNext]_artifactVars => ArtifactInv'
  BY ArtifactNextKeeps
<1>3. ArtifactInv => ServiceStartsWithACanary
  BY DEF ArtifactInv
<1>4. QED BY <1>1, <1>2, <1>3, PTL DEF ArtifactSpec

=============================================================================
