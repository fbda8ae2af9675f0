CONSTANTS
  vm = vm
  Requests = {s1, s2}
  Names = {vm}
  Marked = {}
  MaxAssets = 2
  MaxEdits = 4
  Migrations = 2
  Services <- MCServices
  Seed <- MCSeed
  Development = TRUE
SPECIFICATION Spec
INVARIANTS
  TypeOK
  MigrationsInOrder
  ServingMigrated
PROPERTIES
  
  StopInOrder
  StopEnds
CHECK_DEADLOCK FALSE
