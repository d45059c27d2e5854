SPECIFICATION LoopSpec
CONSTANTS
    t1 = t1
    t2 = t2
    Slots <- MCSlots
    MaxTurns = 3
    MaxCalls = 2
    MaxPerAnswer = 1
    Budget <- MCBudget
    IdleLimit = 1
    Verdicts <- MCVerdicts
    MaxCommands = 1
    MayCrash = TRUE
SYMMETRY MCSymmetry
CHECK_DEADLOCK FALSE
INVARIANTS
    IdleLoopsStop

    
