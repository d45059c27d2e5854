CONSTANTS
    Turns <- MCTurns
    t1 = t1
    t2 = t2
    Kinds <- MCKinds
    Settings <- MCSettings
    MaxMoves = 1
SPECIFICATION Spec
INVARIANTS
    EndedTurnsHoldNothing
    ReviewsAreGuarded
PROPERTIES
    AnswersAreApproved
    TurnsEnd
