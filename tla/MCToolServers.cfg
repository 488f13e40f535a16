SPECIFICATION Spec
CONSTANTS
  c1 = c1
  c2 = c2
  m1 = m1
  q1 = q1
  q2 = q2
  None = None
  Bad = Bad
  Clients <- TwoClients
  Maps <- OneMap
  ServerNames <- SomeServers
  ToolNames <- SomeTools
  Contents <- SomeContents
  Configs <- SomeConfigs
  OptionLists <- Lists
  Spoken <- Said
  Asks <- TwoAsks
  AskOf <- AsksOfOne
CHECK_DEADLOCK FALSE
INVARIANTS
  TypeOK
  ConnectingIsRefreshing
  ShownAsConfigured
  OwnTools
  RunsWhatWasMeant
