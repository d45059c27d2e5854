---------------------------- MODULE SkillRegistry ----------------------------
(***************************************************************************)
(* The Skill registry (gateway/src/dgx_moa/skills.py): one skill, kept as  *)
(* files <store>/<skill>/<version>.json.  Every operation reads versions   *)
(* by number and writes one new file; the Executor is given the latest     *)
(* active one.                                                             *)
(*                                                                         *)
(* A version number does not name a file: the path holds the store too, so *)
(* two stores may hold the same version, after which get() finds neither.  *)
(* And put() looks for the path before it writes: of two processes that    *)
(* both found it free the later one replaces the file of the earlier.  So  *)
(* an operation takes two steps, what it reads up to path.exists(), and    *)
(* os.replace; what it read may be replaced in between.                    *)
(***************************************************************************)
EXTENDS Naturals, FiniteSets

CONSTANTS Procedures,
          MaxMinor, MaxPatch,  \* bounds of a version number
          BroughtVersions,     \* bound: the numbers of files that came from outside
          BroughtSkillStates,  \* bound: the states an operator puts them in
          MaxSkillFiles,       \* bound: files written
          MaxWriters,          \* bound: processes within put() at a time
          MaxBrought           \* bound: files that came from outside, put or imported

SkillVersions == (1..MaxMinor) \X (0..MaxPatch)    \* the major number never changes
SkillStates == {"experimental", "active", "deprecated", "disabled", "archived"}

ASSUME SkillRegistryAssumption ==
    /\ {MaxMinor, MaxPatch, MaxSkillFiles, MaxWriters, MaxBrought} \subseteq Nat
    /\ BroughtVersions \subseteq SkillVersions /\ BroughtSkillStates \subseteq SkillStates

Newer(v, w) == v[1] > w[1] \/ (v[1] = w[1] /\ v[2] > w[2])
NextPatch(v) == <<v[1], v[2] + 1>>
NextMinor(v) == <<v[1] + 1, v[2]>>

\* validation: what its evidence is about.  A passed validation is evidence for
\* the procedure the evaluator saw.
Unvalidated == [status |-> "unvalidated", about |-> "nothing"]
Failed == [status |-> "failed", about |-> "nothing"]
Passed(p) == [status |-> "passed", about |-> p]

VARIABLES skillFiles,    \* the files, as records: see Draft
          writing,       \* put() between path.exists() and os.replace: what it will write
          skillCanaries, \* the versions with a helpful canary: no other outcome is asked for
          activated      \* the selection in the Executor's context, at most one file

skillVars == <<skillFiles, writing, skillCanaries, activated>>

SkillInit == skillFiles = {} /\ writing = {} /\ skillCanaries = {} /\ activated = {}

Draft(p) ==
    [store |-> "generated", version |-> <<1, 0>>, state |-> "experimental",
     source |-> "generated", origin |-> "runtime",     \* provenance.source
     procedure |-> p, validation |-> Unvalidated, approved |-> FALSE,
     by |-> "registry"]      \* "put": an operator called put() with it

\* get(): KeyError unless exactly one store has the version.
Found(v) == {f \in skillFiles : f.version = v}
Get(v) == {f \in Found(v) : Cardinality(Found(v)) = 1}

SamePath(f, g) == f.store = g.store /\ f.version = g.version

\* put(), up to path.exists(): a path that is there is refused (what is written twice
\* carries two timestamps and so never has the same content).
PutSkill(f) ==
    /\ Cardinality(skillFiles \cup writing) < MaxSkillFiles /\ Cardinality(writing) < MaxWriters
    /\ f.version \in SkillVersions
    /\ \A g \in skillFiles : ~SamePath(f, g)
    /\ writing' = writing \cup {f}
    /\ UNCHANGED <<skillFiles, skillCanaries, activated>>

\* os.replace: whatever has taken the path since is lost.
ReplaceFile ==
    \E f \in writing :
        /\ skillFiles' = {g \in skillFiles : ~SamePath(f, g)} \cup {f}
        /\ writing' = writing \ {f}
        /\ UNCHANGED <<skillCanaries, activated>>

\* The process of an operator ends, or its disk is full, before os.replace.
WriterDies ==
    /\ \E f \in writing : writing' = writing \ {f}
    /\ UNCHANGED <<skillFiles, skillCanaries, activated>>

\* The id of a draft is made of its pattern, procedure and all: one skill has one draft.
DraftFromPattern ==
    \E p \in Procedures : PutSkill(Draft(p))
        /\ \A f \in skillFiles \cup writing : f.by = "registry" => f.procedure = p \/ f.store # "generated"

\* Mutant: a changed procedure keeps the validation of the one it replaces.
SuccessorOfKept(f, p, validated, approved) ==
    [f EXCEPT !.version = NextPatch(@), !.state = "experimental", !.store = "experimental",
              !.origin = "human", !.by = "registry",
              !.approved = approved, !.procedure = p]

SuccessorOf(f, p, validated, approved) ==
    [f EXCEPT !.version = NextPatch(@), !.state = "experimental", !.store = "experimental",
              !.origin = "human", !.by = "registry",
              !.approved = approved, !.procedure = p,
              !.validation = IF validated THEN Passed(p) ELSE Unvalidated]

\* The caller may change the procedure and may bring its own validation.
Successor ==
    \E v \in SkillVersions, p \in Procedures, validated, approved \in BOOLEAN :
        \E f \in Get(v) :
            /\ f.store = "core" => approved
            /\ PutSkill(SuccessorOf(f, p, validated, approved))

EvaluateSkill ==
    \E v \in SkillVersions, passed \in BOOLEAN : \E f \in Get(v) :
        /\ f.state = "experimental"
        /\ PutSkill([f EXCEPT !.version = NextPatch(@), !.store = "experimental",
                              !.validation = IF passed THEN Passed(f.procedure) ELSE Failed,
                              !.origin = "runtime", !.approved = FALSE, !.by = "registry"])

RecordSkillCanary ==
    \E v \in SkillVersions : \E f \in Get(v) :
        /\ f.state = "experimental" /\ f.validation.status = "passed"
        /\ skillCanaries' = skillCanaries \cup {v}
        /\ UNCHANGED <<skillFiles, writing, activated>>

\* What promotion asks of a version; its state is not among it.
Promotable(f) ==
    /\ f.validation.status = "passed"
    /\ f.origin = "runtime" => f.version \in skillCanaries

Activate(f, v) ==
    PutSkill([f EXCEPT !.version = v, !.state = "active", !.store = "core",
                       !.origin = "human", !.approved = TRUE, !.by = "registry"])

PromoteSkill ==
    \E v \in SkillVersions : \E f \in Get(v) : Promotable(f) /\ Activate(f, NextMinor(v))

LifecycleNext ==
    [active |-> "deprecated", experimental |-> "disabled", deprecated |-> "disabled",
     disabled |-> "archived"]

\* Without an approval a policy has to permit it, and never for a core skill.
TransitionSkill ==
    \E v \in SkillVersions, approved \in BOOLEAN : \E f \in Get(v) :
        /\ f.state \in DOMAIN LifecycleNext
        /\ f.source = "core" => approved
        /\ PutSkill([f EXCEPT !.version = NextPatch(@), !.state = LifecycleNext[f.state],
                              !.store = LifecycleNext[f.state], !.approved = approved,
                              !.origin = IF approved THEN "human" ELSE "runtime",
                              !.by = "registry"])

\* The target's number counts for nothing: the new version follows the current one.
RollbackSkill ==
    \E v, t \in SkillVersions : \E f \in Get(v), g \in Get(t) :
        /\ f.state = "active" /\ g.validation.status = "passed"
        /\ Activate(g, NextMinor(v))

RoomForBrought ==
    Cardinality({f \in skillFiles \cup writing : f.origin = "imported" \/ f.by = "put"}) < MaxBrought

\* One entry of a pack, from another registry: it keeps its number and its validation.
ImportSkill ==
    /\ RoomForBrought
    /\ \E v \in BroughtVersions, p \in Procedures, validated \in BOOLEAN :
         PutSkill([Draft(p) EXCEPT !.version = v, !.store = "experimental",
                                   !.source = "imported", !.origin = "imported",
                                   !.validation = IF validated THEN Passed(p) ELSE Unvalidated])

StoresOf(state) ==
    CASE state = "experimental" -> {"generated", "experimental"}
      [] state = "active" -> {"core"}
      [] OTHER -> {state}

\* put() itself, with which an operator brings a skill of any version, validation and
\* approval: all that is asked is that the store fits the state.  (Evidence is about the
\* skill it comes with.  Left out is an origin "runtime", of which a promotion asks more;
\* a skill's source is its own only where it is put into production.)
AuthorSkill ==
    /\ RoomForBrought
    /\ \E v \in BroughtVersions, p \in Procedures, state \in BroughtSkillStates,
          approved \in BOOLEAN :
         \E store \in StoresOf(state), evidence \in {Unvalidated, Failed, Passed(p)} :
             PutSkill([Draft(p) EXCEPT !.version = v, !.store = store, !.state = state,
                                       !.source = IF store = "core" THEN "core" ELSE @,
                                       !.origin = "human", !.validation = evidence,
                                       !.approved = approved, !.by = "put"])

\* search(): the latest of the active versions, whatever newer version there is.
ServedSkill ==
    {f \in skillFiles : f.state = "active" /\ \A g \in skillFiles :
        g.state = "active" => ~Newer(g.version, f.version)}

\* A registry that cannot be read leaves the turn without skills.
SelectSkills == activated' \in {ServedSkill, {}} /\ UNCHANGED <<skillFiles, writing, skillCanaries>>

SkillNext ==
    \/ DraftFromPattern \/ AuthorSkill \/ Successor \/ EvaluateSkill \/ RecordSkillCanary
    \/ PromoteSkill \/ TransitionSkill \/ RollbackSkill \/ ImportSkill \/ SelectSkills
    \/ ReplaceFile \/ WriterDies

SkillSpec == SkillInit /\ [][SkillNext]_skillVars

-----------------------------------------------------------------------------
\* What the registry itself puts into service was approved and passed a validation of the
\* very procedure it has, whatever operations overwrite each other.  Excepted is what an
\* operator wrote into service with put(), which asks for neither (skills.py:122-141,
\* 316-335) and is served as well: test_skills.py:77-84.  skills.py:354-385, 459-494,
\* 580-615; SKILL_GOVERNANCE.md "Promotion requires passed validation with evidence plus a
\* human approval ID".
SkillsAreValidated ==
    \A f \in activated : f.by = "put" \/ (f.validation = Passed(f.procedure) /\ f.approved)

\* (violated: skills.py:319, 331; SKILL_GOVERNANCE.md "Production Skill versions are
\* immutable") What is stored stays as it is.
VersionsAreImmutable == [][skillFiles \subseteq skillFiles']_skillVars

\* (violated: a deprecated skill is served on, skills.py:538; SKILLS.md) A skill whose
\* newest version was taken out of service is not served.
RetiredIsNotServed ==
    \A f \in ServedSkill, g \in skillFiles :
        g.state \in {"deprecated", "disabled", "archived"} => ~Newer(g.version, f.version)
=============================================================================
