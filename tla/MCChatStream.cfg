SPECIFICATION Spec
CONSTANTS
    Modes <- MCModes
    MayLeave = TRUE
    RetryLimit = 3
    MaxLoads = 2
INVARIANTS
    OutputIsChecked
    TurnsAreTold
PROPERTIES
    TurnsRelease
    ClientsAreAnswered
