-------------------------- MODULE KnowledgeRegistry --------------------------
(***************************************************************************)
(* The knowledge registry (gateway/src/dgx_moa/knowledge.py): immutable    *)
(* rows (id, version) in SQLite.  Every operation reads one version and    *)
(* inserts the next, so the row's absence is a compare-and-swap: of two    *)
(* operators who work on one version the second is refused.                *)
(*                                                                         *)
(* An operation is one step, since rows never change between its read and  *)
(* its insert; resolving a conflict takes three transactions and is three  *)
(* steps, between which other operators act or the process ends.  What the *)
(* resolving entry has to do with the sides of the conflict is up to the   *)
(* caller: of its "supersedes" it is only asked that it is not empty.      *)
(***************************************************************************)
EXTENDS Naturals, FiniteSets

CONSTANTS Entries,             \* knowledge ids
          Operators,           \* who resolve conflicts
          BroughtStates,       \* bound: the states of entries that callers bring
          MaxKnowledgeVersion, \* bound: versions of an entry
          MaxEntries,          \* bound: rows
          MaxConflicts         \* bound: conflicts recorded

KnowledgeStates == {"candidate", "active", "conflicted", "deprecated", "disabled", "archived"}

ASSUME KnowledgeRegistryAssumption ==
    /\ BroughtStates \subseteq KnowledgeStates
    /\ MaxKnowledgeVersion \in Nat \ {0} /\ {MaxEntries, MaxConflicts} \subseteq Nat

VARIABLES knowledge,  \* knowledge_entries: records, see Candidate
          conflicts,  \* knowledge_conflicts: see AddConflict
          resolvers   \* resolve_conflict() per operator: see NotResolving

knowledgeVars == <<knowledge, conflicts, resolvers>>

NotResolving == [at |-> "idle", conflict |-> {}, resolution |-> {}]

KnowledgeInit ==
    /\ knowledge = {} /\ conflicts = {}
    /\ resolvers = [o \in Operators |-> NotResolving]

\* An entry that a caller made: of any version, in any state, approved or not.  Only an
\* active one has to be validated.
Brought ==
    {e \in [id : Entries, version : 1..MaxKnowledgeVersion, state : BroughtStates,
            validated : BOOLEAN,      \* validation_evidence is not empty
            approved : BOOLEAN] :     \* lifecycle.approval_id
       e.state = "active" => e.validated}

Key(e) == <<e.id, e.version>>
Next1(e) == [e EXCEPT !.version = @ + 1]

\* Mutant: INSERT OR REPLACE.
Replacing(e) ==
    /\ e.version <= MaxKnowledgeVersion /\ Cardinality(knowledge) < MaxEntries
    /\ knowledge' = {f \in knowledge : Key(f) # Key(e)} \cup {e}

\* put() of a version there is not yet; what differs from the one there is is refused.
Inserted(e) ==
    /\ e.version <= MaxKnowledgeVersion /\ Cardinality(knowledge) < MaxEntries
    /\ \A f \in knowledge : Key(f) # Key(e)
    /\ knowledge' = knowledge \cup {e}

PutKnowledge(e) == Inserted(e) /\ UNCHANGED <<conflicts, resolvers>>

AddKnowledge == \E e \in Brought : PutKnowledge(e)

ValidateKnowledge ==
    \E e \in knowledge : e.state = "candidate"
        /\ PutKnowledge([Next1(e) EXCEPT !.validated = TRUE, !.approved = FALSE])

PromoteKnowledge ==
    \E e \in knowledge : e.state = "candidate" /\ e.validated
        /\ PutKnowledge([Next1(e) EXCEPT !.state = "active", !.approved = TRUE])

KnowledgeLifecycle ==
    [active |-> "deprecated", deprecated |-> "disabled", disabled |-> "archived"]

TransitionKnowledge ==
    \E e \in knowledge : e.state \in DOMAIN KnowledgeLifecycle
        /\ PutKnowledge([Next1(e) EXCEPT !.state = KnowledgeLifecycle[@], !.approved = TRUE])

RollbackKnowledge ==
    \E e, t \in knowledge : e.id = t.id /\ e.state = "active" /\ t.validated
        /\ PutKnowledge([Next1(e) EXCEPT !.state = "active", !.validated = TRUE,
                                         !.approved = TRUE])

\* Any two rows conflict if the caller says so.  The id of a conflict is made of its two versions: INSERT OR IGNORE adds it once.
AddConflict ==
    \E e, f \in knowledge :
        /\ Cardinality(conflicts) < MaxConflicts
        /\ \A c \in conflicts : c.between # {Key(e), Key(f)}
        /\ conflicts' = conflicts \cup
             {[between |-> {Key(e), Key(f)}, open |-> TRUE, by |-> <<>>]}
        /\ UNCHANGED <<knowledge, resolvers>>

-----------------------------------------------------------------------------
\* resolve_conflict(), with the approval and the superseding entry of its caller.  First
\* the conflict has to be open.
BeginResolution ==
    \E o \in Operators, c \in conflicts, r \in Brought :
        /\ resolvers[o].at = "idle" /\ c.open
        /\ resolvers' = [resolvers EXCEPT ![o] =
             [at |-> "put", conflict |-> {c.between},
              resolution |-> {[r EXCEPT !.approved = TRUE]}]]
        /\ UNCHANGED <<knowledge, conflicts>>

\* put() inserts the entry, or finds the very same one, as after a crash, or refuses
\* another one of that version (two rows that are equal here may differ in their content).
StoreResolution ==
    \E o \in Operators : resolvers[o].at = "put" /\ \E r \in resolvers[o].resolution :
        \/ Inserted(r) /\ resolvers' = [resolvers EXCEPT ![o].at = "close"]
        \/ r \in knowledge /\ resolvers' = [resolvers EXCEPT ![o].at = "close"]
           /\ UNCHANGED knowledge
        \/ /\ \E f \in knowledge : Key(f) = Key(r)
           /\ resolvers' = [resolvers EXCEPT ![o] = NotResolving] /\ UNCHANGED knowledge
    /\ UNCHANGED conflicts

Closes(o) == resolvers[o].at = "close"

\* The conflict is closed without a second look: one that another operator closed in
\* between is closed again, by this entry.
CloseConflict ==
    \E o \in Operators, c \in conflicts : Closes(o) /\ c.between \in resolvers[o].conflict
        /\ \E r \in resolvers[o].resolution :
             conflicts' = (conflicts \ {c}) \cup {[c EXCEPT !.open = FALSE, !.by = Key(r)]}
        /\ resolvers' = [resolvers EXCEPT ![o] = NotResolving]
        /\ UNCHANGED knowledge

\* The process of an operator ends within the call.
LoseOperator ==
    \E o \in Operators : resolvers[o].at # "idle"
        /\ resolvers' = [resolvers EXCEPT ![o] = NotResolving]
        /\ UNCHANGED <<knowledge, conflicts>>

\* search(): the latest of the active versions, with the open conflicts of that version.
ServedKnowledge(k) ==
    {e \in knowledge : e.id = k /\ e.state = "active" /\ \A f \in knowledge :
        (f.id = k /\ f.state = "active") => f.version <= e.version}

KnowledgeNext ==
    \/ AddKnowledge \/ ValidateKnowledge \/ PromoteKnowledge \/ TransitionKnowledge
    \/ RollbackKnowledge \/ AddConflict
    \/ BeginResolution \/ StoreResolution \/ CloseConflict \/ LoseOperator

KnowledgeSpec == KnowledgeInit /\ [][KnowledgeNext]_knowledgeVars

-----------------------------------------------------------------------------
\* A conflict is only closed by an entry that is stored and approved, whatever operators
\* and crashes come between the transactions.  (Not that it has to do with the sides, or is
\* validated: knowledge.py:318.)  knowledge.py:311-338; KNOWLEDGE_BASE.md "remain stored
\* and visible until an approved superseding entry resolves the conflict".
ConflictsAreSuperseded ==
    \A c \in conflicts : ~c.open => \E e \in knowledge : Key(e) = c.by /\ e.approved

\* One row per version, and no unvalidated one in service.
RowsAreSound ==
    \A e \in knowledge : /\ e.state = "active" => e.validated
                         /\ \A f \in knowledge : Key(f) = Key(e) => f = e

\* No row is changed or lost, and no conflict forgotten or opened again.
NothingIsTakenBack ==
    [][ /\ knowledge \subseteq knowledge'
        /\ \A c \in conflicts : \E d \in conflicts' :
             d.between = c.between /\ (d.open => c.open) ]_knowledgeVars

\* Whatever operators do at once and wherever a resolution ends halfway: a version of the
\* knowledge is stored once and for good, nothing unvalidated is in service, and a conflict
\* stays visible until an approved entry that is stored closes it, for good.
\* knowledge.py:84-90, 199-219, 311-338.
KnowledgeStands == []ConflictsAreSuperseded /\ []RowsAreSound /\ NothingIsTakenBack

\* (violated: knowledge.py:331) A conflict is resolved once: the operator who closed it is
\* told so, and another's entry takes its place.
ResolvedOnce ==
    [][\A c \in conflicts : ~c.open => c \in conflicts']_knowledgeVars

\* (violated: knowledge.py:428) What is deprecated is not served.
\* Once a newer version was written the served one cannot be rolled back either.
DeprecatedIsNotServed ==
    \A k \in Entries : \A e \in ServedKnowledge(k), f \in knowledge :
        (f.id = k /\ f.state \in {"deprecated", "disabled", "archived"}) => f.version < e.version
=============================================================================
