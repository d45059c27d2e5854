CONSTANTS
    p1 = p1
    p2 = p2
    k1 = k1
    k2 = k2
    o1 = o1
    o2 = o2
    Procedures <- MCProcedures
    Payloads <- MCProcedures
    Entries <- MCEntries
    Operators <- MCOperators
    MaxMinor = 3
    MaxPatch = 2
    MaxSkillFiles = 4
    MaxWriters = 2
    BroughtVersions <- MCBroughtVersions
    BroughtSkillStates = {"experimental", "active"}
    MaxBrought = 1
    BroughtStates = {"candidate", "active"}
    MaxKnowledgeVersion = 2
    MaxEntries = 3
    MaxConflicts = 1
    MaxArtifactVersion = 6
    MaxArtifactPuts = 2
SPECIFICATION Spec
INVARIANTS
    SkillsAreValidated
    ServiceStartsWithACanary
PROPERTIES
    KnowledgeStands
SYMMETRY MCSymmetry
CHECK_DEADLOCK FALSE
