CONSTANTS
    Turns <- MCTurns
    MaxConcurrent = 2
    DelegationBudget = 4
    Disconnects = TRUE
SPECIFICATION Spec

    
PROPERTIES
    FanInEnds
