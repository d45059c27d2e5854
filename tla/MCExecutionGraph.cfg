SPECIFICATION Spec
CONSTANTS
  Compiled <- AllInputs
  Executed <- Explored
  ToolBudget = 4
  MaxAttempts <- Bound
  MaxFailures = 1
  MaxLoads = 1
  TornWrites = TRUE
CHECK_DEADLOCK FALSE
INVARIANTS
  AttemptsAreSound
  PrerequisitesHold
  RepairIsReviewed
  GraphsComplete
