SPECIFICATION FairSpec
CONSTANTS
  OutCap = 1
  ErrCap = 5
  MaxTurns = 2
  Models = 2
  Partial = TRUE
  Checkpointing = FALSE
  SystemPrompt = FALSE
  Budget = 1
  MaxEvents = 2
  Events <- CostEvents
  Priors <- FreshSession
INVARIANTS
  NoMixedAttempts
  BudgetRespected
  
PROPERTIES
  CancelStops
  DrainedRunEnds
