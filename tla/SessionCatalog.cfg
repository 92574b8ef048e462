SPECIFICATION FairSpec
INVARIANTS ListsAreTrue PagesTile ServerSurvives
PROPERTY EveryScanEnds
CHECK_DEADLOCK FALSE
CONSTANTS
  None = None
  r1 = r1
  r2 = r2
  Rebuild = "rebuild"
  Runs = {r1, r2}
  Log <- RunLog
  Clients = {"c1"}
  Followed <- Pages
  PageLimit = 1
  Lists = {"h1"}
  LargeSize = 1
  MaxRequests = 3
  MaxRemovals = 1
  MaxWriteFails = 1
