SPECIFICATION Spec
CONSTANTS
  OutCap = 2
  ErrCap = 2
  MaxTurns = 2
  Models = 1
  Partial = FALSE
  Checkpointing = TRUE
  SystemPrompt = TRUE
  Budget = 9
  MaxEvents = 2
  Events <- ToolEvents
  Priors <- AnySession
INVARIANTS
  TypeOK
  HistoryAnswered
  ShownIsStored
PROPERTY ImplementsContract
