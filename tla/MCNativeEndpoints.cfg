SPECIFICATION Spec
CONSTANTS
  w1 = w1
  w2 = w2
  Env <- NoEnv
  Callers <- TwoCallers
  Uses <- SomeUses
  Models <- OneModel
  Names <- SomeNames
  MaxCalls = 3
CHECK_DEADLOCK FALSE
INVARIANTS
  TypeOK
  
  ConversationContinues
  RequestsAgree
PROPERTIES
  CallsReturn
