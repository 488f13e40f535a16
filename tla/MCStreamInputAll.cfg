SPECIFICATION YieldingSpec
CONSTANTS
  Inputs = 3
  InCap = 1
  OutCap = 2
  ErrCap = 2
  MaxSay = 2
  MaxWarn = 1
INVARIANTS
  TypeOK
  NothingLost
PROPERTIES
  RunsAreSerial
  StreamEnds
CHECK_DEADLOCK FALSE
