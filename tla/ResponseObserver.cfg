SPECIFICATION ObserverSpec
INVARIANTS ObserverInv ReportedWhenClosed
CHECK_DEADLOCK FALSE
CONSTANTS
  Null = Null
  Bodies <- AllBodies
  RawCap = 100
