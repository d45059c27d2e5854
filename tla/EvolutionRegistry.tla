-------------------------- MODULE EvolutionRegistry --------------------------
(***************************************************************************)
(* The evolution registry (gateway/src/dgx_moa/evolution.py): the          *)
(* immutable versions of one artifact, here a role's prompt, from the      *)
(* candidate to the active version that replaces the role's policy text.   *)
(* An operation inserts the version after the one it read, and is one      *)
(* step: rows never change, and the primary key refuses the second of two  *)
(* who insert a version at once.                                           *)
(***************************************************************************)
EXTENDS Naturals, FiniteSets

CONSTANTS Payloads,
          MaxArtifactVersion,  \* bound: versions of the artifact
          MaxArtifactPuts      \* bound: versions an operator put as they are

ASSUME EvolutionRegistryAssumption ==
    MaxArtifactVersion \in Nat \ {0} /\ MaxArtifactPuts \in Nat

VARIABLES artifacts,        \* evolution_artifacts: records, see NewArtifact
          artifactCanaries  \* the versions with a helpful canary

artifactVars == <<artifacts, artifactCanaries>>

ArtifactInit == artifacts = {} /\ artifactCanaries = {}

ArtifactStates == {"candidate", "evaluated", "rejected", "canary", "active", "deprecated"}

NewArtifact(v, p) ==
    [version |-> v, state |-> "candidate", payload |-> p,
     evaluated |-> FALSE,      \* evaluation_evidence_ids is not empty
     target |-> FALSE,         \* rollback_target is given
     by |-> "registry"]        \* "put": an operator called put() with it

PutArtifact(a) ==
    /\ a.version <= MaxArtifactVersion
    /\ \A b \in artifacts : b.version # a.version
    /\ artifacts' = artifacts \cup {a}
    /\ UNCHANGED artifactCanaries

NextOf(a) == [a EXCEPT !.version = @ + 1, !.by = "registry"]

\* The id of a generated artifact is made of its payload and evidence; once there is a
\* version of it, generating it again finds the newest one.
GenerateCandidate ==
    \E p \in Payloads : artifacts = {} /\ PutArtifact(NewArtifact(1, p))

\* put() itself, with which an operator brings a version of any number and state: an
\* active one needs an approval and a rollback target.
PutVersion ==
    \E v \in 1..MaxArtifactVersion, p \in Payloads, state \in ArtifactStates,
       evaluated, target \in BOOLEAN :
        /\ Cardinality({a \in artifacts : a.by = "put"}) < MaxArtifactPuts
        /\ state = "active" => target
        /\ PutArtifact([NewArtifact(v, p) EXCEPT !.state = state, !.evaluated = evaluated,
                                                 !.target = target, !.by = "put"])

EvaluateArtifact ==
    \E a \in artifacts, passed \in BOOLEAN : a.state = "candidate"
        /\ PutArtifact([NextOf(a) EXCEPT !.evaluated = TRUE,
                                         !.state = IF passed THEN "evaluated" ELSE "rejected"])

StartCanary ==
    \E a \in artifacts : a.state = "evaluated" /\ a.evaluated
        /\ PutArtifact([NextOf(a) EXCEPT !.state = "canary", !.target = TRUE])

RecordArtifactCanary ==
    \E a \in artifacts : a.state = "canary"
        /\ artifactCanaries' = artifactCanaries \cup {a.version}
        /\ UNCHANGED artifacts

PromoteArtifact ==
    \E a \in artifacts : a.state = "canary" /\ a.version \in artifactCanaries /\ a.target
        /\ PutArtifact([NextOf(a) EXCEPT !.state = "active"])

\* Mutant: a canary may be rolled back as well.
InService(a) == a.state \in {"active", "canary"}

RollsBack(a) == a.state = "active"

\* The target is any version there is: a rejected one too.
RollbackArtifact ==
    \E a, t \in artifacts : RollsBack(a)
        /\ PutArtifact([t EXCEPT !.version = a.version + 1, !.state = "active", !.target = TRUE,
                                !.by = "registry"])

\* active(): what the prompt of the role is made of.
ServedArtifact ==
    {a \in artifacts : a.state = "active" /\ \A b \in artifacts :
        b.state = "active" => b.version <= a.version}

ArtifactNext ==
    \/ GenerateCandidate \/ PutVersion \/ EvaluateArtifact \/ StartCanary
    \/ RecordArtifactCanary \/ PromoteArtifact \/ RollbackArtifact

ArtifactSpec == ArtifactInit /\ [][ArtifactNext]_artifactVars

-----------------------------------------------------------------------------
\* The steps that led to a version, each older and with the same payload.  What an operator
\* put stands for itself.
Older(a, b) == a.version < b.version /\ a.payload = b.payload

Evaluated(b) ==
    \E e \in artifacts :
        /\ e.state = "evaluated" /\ e.evaluated /\ Older(e, b)
        /\ e.by = "put" \/ \E c \in artifacts : c.state = "candidate" /\ Older(c, e)

Canaried(a) ==
    \E b \in artifacts :
        /\ b.state = "canary" /\ b.version \in artifactCanaries /\ Older(b, a)
        /\ b.by = "put" \/ Evaluated(b)

\* The registry puts an artifact into service only by way of a candidate, its evaluation
\* and a canary that helped, all with its payload.  Excepted are a rollback, which takes any
\* payload there is but only replaces what is in service, and what an operator puts, which
\* may start at any stage and be active at once: test_evolution.py:173-202.
\* evolution.py:88-90, 226-250, 346-417; RUNTIME_SELF_IMPROVEMENT.md "The only allowed
\* lifecycle is candidate -> evaluated -> canary -> active".
ServiceStartsWithACanary ==
    \A a \in artifacts : a.state = "active" =>
        \E s \in artifacts : /\ s.state = "active" /\ s.version <= a.version
                             /\ s.by = "put" \/ Canaried(s)

\* (violated: evolution.py:388) What is served went through a canary.
ServedWasCanaried ==
    \A a \in ServedArtifact : \E b \in artifacts :
        b.version \in artifactCanaries /\ b.payload = a.payload
=============================================================================
