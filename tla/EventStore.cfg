SPECIFICATION StoreSpec
INVARIANT StoreInv
CHECK_DEADLOCK FALSE
CONSTANTS
  a1 = a1
  a2 = a2
  a3 = a3
  a4 = a4
  Appends = {a1, a2, a3, a4}
  Pieces <- Lines
  MaxWriting = 4
  MaxFailures = 2
