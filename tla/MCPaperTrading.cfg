SPECIFICATION Spec
CONSTANTS
  MaxConcurrent = 2
  NumLegs = 2
  LegQty = 1
  Storage = TRUE
  StorageFails = FALSE
  MaxViews = 1
  MaxPlans = 2
INVARIANTS
  CancelMapExact
  FillsConserved
  DiskIsReal
  ForgottenPlansAreCancelled
PROPERTIES
  WorkersEnd
  KeepsPromise
