SPECIFICATION Spec
CONSTANTS
  p1 = p1
  p2 = p2
  Procs <- TwoProcesses
  MaxForks = 1
  MaxAsked = 2
  Checkpointing = TRUE
INVARIANTS
  TypeOK
  
  CheckpointIsNew
