CONSTANTS
    c1 = c1
    c2 = c2
    c3 = c3
    Calls <- MCCalls
    Kinds <- MCKinds
    Sessions <- MCSessions
    Session <- MCSession
    ThreadIds <- MCThreadIds
    Saved <- MCSaved
    Correlation <- MCCorrelation
    Profiles <- MCProfiles
    AppServer = TRUE
    Retries = 1
    FailureLimit = 2
    CompactAfter = 2
    MaxThreads = 1
    MaxPaid = 1
SPECIFICATION Spec
INVARIANTS
    ThreadsAreSeparate
    PaidIsLastResort
PROPERTIES
    CallsEnd
