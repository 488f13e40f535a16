SPECIFICATION Spec
CONSTANTS
  p1 = p1
  p2 = p2
  Procs <- OneProcess
  MaxForks = 1
  MaxAsked = 1
  Checkpointing = TRUE
PROPERTY SavedSurvives
