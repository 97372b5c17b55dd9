SPECIFICATION Spec
CONSTANTS
  Sides = {bid}
  Prices = 2
  Depth = 1
  MaxGap = 1
  MaxBuffered = 1
  MaxSize = 1
  MaxUpdates = 4
  StreamSnapshots = TRUE
INVARIANTS
  TypeOK
  BookCatchesUp
  FreshUnlessFlagged
