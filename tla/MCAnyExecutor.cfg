SPECIFICATION Spec
CONSTANTS
  MaxConcurrent = 1
  NumLegs = 2
  LegQty = 1
  Storage = TRUE
  StorageFails = TRUE
  MaxViews = 1
  MaxPlans = 2
  MaxReports = 2
  MaxWaiting = 1
  ChannelsMayClose = TRUE
INVARIANTS
  TypeOK
  ConcurrencyCap
  StorageMatchesMemory
  Accounting
  OpportunitiesAccounted
PROPERTIES
  ImplementsLifecycle
  PlansClose
