SPECIFICATION FairSpec
CONSTANTS
  default = default
  fork = fork
  owner = owner
  other = other
  Sessions <- TwoSessions
  ForkSession = fork
  Talkers <- JustOwner
  Interrupters <- Nobody
  Closers <- JustOther
  Paths <- NoPaths
  Contents <- TwoContents
  Drains = FALSE
  MaxRuns = 1
  Checkpointing = FALSE
PROPERTY ClosedRunsEnd
