SPECIFICATION Spec
CONSTANTS
  MaxConcurrent = 1
  NumLegs = 3
  LegQty = 1
  Storage = TRUE
  StorageFails = FALSE
  MaxViews = 1
  MaxPlans = 1
INVARIANT
  CancelStopsPlan
