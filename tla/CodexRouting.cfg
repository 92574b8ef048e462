SPECIFICATION Spec
INVARIANTS RoutingInv UserLinesSurvive
CONSTANTS
  None = None
  Managed = managed
  Providers = {p1, p2}
  Urls = {url1}
  MaxLines = 3
  Documents <- UserDocuments
  Extra <- ExtraLine
  MaxEdits = 2
  MaxDeaths = 1
