SPECIFICATION Spec
CONSTANTS
  e1 = e1
  c1 = c1
  c2 = c2
  t1 = t1
  t2 = t2
  t3 = t3
  Executors <- OneExecutor
  Calls <- TwoCalls
  Owner <- SameClient
  Tools <- AllTools
  Registered <- KnownTools
  Updates <- SomeUpdates
  Modes = {"default", "bypassPermissions"}
  MaxHooks = 2
  MaxUpdates = 2
INVARIANTS
  TypeOK
  PolicyDecides
  
