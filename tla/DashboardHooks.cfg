SPECIFICATION Spec
INVARIANTS DetailsAreTrue SelectionIsShown SessionListIsWhole NothingHangs
CHECK_DEADLOCK FALSE
CONSTANTS
  None = None
  a = a
  b = b
  L = L
  M = M
  Runs = {a, b, L, M}
  LargeRuns = {L, M}
  Pages <- ListPages
  ArtifactIds <- IdsOf
  MaxPending = 2
