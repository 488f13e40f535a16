SPECIFICATION FairSpec
CONSTANTS
  default = default
  fork = fork
  owner = owner
  other = other
  Sessions <- TwoSessions
  ForkSession = fork
  Talkers <- OwnerAndOther
  Interrupters <- JustOther
  Closers <- JustOther
  Paths <- NoPaths
  Contents <- TwoContents
  Drains = FALSE
  MaxRuns = 2
  Checkpointing = FALSE
INVARIANT SupersededIsCancelled
PROPERTY HeldRunsEnd
