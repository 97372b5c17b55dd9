SPECIFICATION Spec
CONSTANTS
  Sides = {bid}
  Prices = 2
  Depth = 2
  MaxGap = 1000
  MaxBuffered = 1
  MaxSize = 1
  MaxUpdates = 4
  StreamSnapshots = FALSE
INVARIANT
  BookIsAVersion
