---------------------------- MODULE MCRegistries ----------------------------
(***************************************************************************)
(* The three registries of governed versions in one run.  They share no    *)
(* state and no caller, so a behaviour moves only one of them.             *)
(***************************************************************************)
EXTENDS SkillRegistry, KnowledgeRegistry, EvolutionRegistry, TLC

CONSTANTS p1, p2, k1, k2, o1, o2
MCProcedures == {p1, p2}
MCBroughtVersions == {<<1, 1>>}
MCEntries == {k1, k2}
MCOperators == {o1, o2}
MCSymmetry == Permutations(MCProcedures) \cup Permutations(MCEntries) \cup Permutations(MCOperators)

registryVars == <<skillVars, knowledgeVars, artifactVars>>
Init == SkillInit /\ KnowledgeInit /\ ArtifactInit
Next ==
    \/ KnowledgeInit /\ ArtifactInit /\ SkillNext /\ UNCHANGED <<knowledgeVars, artifactVars>>
    \/ SkillInit /\ ArtifactInit /\ KnowledgeNext /\ UNCHANGED <<skillVars, artifactVars>>
    \/ SkillInit /\ KnowledgeInit /\ ArtifactNext /\ UNCHANGED <<skillVars, knowledgeVars>>
Spec == Init /\ [][Next]_registryVars
=============================================================================
