SPECIFICATION Spec
CONSTANTS
  Symbols = {ab, bc, ac}
  Capacity = 1
  MaxChanges = 1
  MaxViews = 2
INVARIANTS
  TypeOK
  BooksOfOneRound
PROPERTIES
  ImplementsViewStream
  AcceptedViewsArrive
  ShutdownDrains
