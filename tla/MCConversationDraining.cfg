SPECIFICATION Spec
CONSTANTS
  default = default
  fork = fork
  owner = owner
  other = other
  Sessions <- TwoSessions
  ForkSession = fork
  Talkers <- JustOwner
  Interrupters <- Nobody
  Closers <- JustOther
  Paths <- FileOrDirectory
  Contents <- TwoContents
  Drains = TRUE
  MaxRuns = 3
  Checkpointing = TRUE
INVARIANTS
  TypeOK
  CheckpointIsQuestion
PROPERTIES
  AnswersKept
  CheckpointsKept
