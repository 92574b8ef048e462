SPECIFICATION Spec
INVARIANTS TokensAreConserved RequestsAreTiled TitlesAreOwnWhileIdsAre AnswersAreWhole OnlyKeptTextIsShown InterleavingDoesNotMatter LargeRunAgrees
PROPERTY RequestsKeepTheirTurn
CONSTANTS
  None = None
  p1 = p1
  p2 = p2
  a1 = a1
  t1 = t1
  t2 = t2
  c1 = c1
  c2 = c2
  ContextTexts = {}
  TypeOfTool <- OutputOfTool
  TokenCount <- TokensOf
  Unit = 60
  MaxCoordinate = 6
  Requests_ = {1, 2}
  Prompts_ <- TwoPrompts
  TurnIds <- TwoTurns
  NoTurn = {None, "malformed"}
  Replies_ = {a1}
  Shell = "shell"
  CallIds <- TwoCalls
  Usages <- SomeUsages
  Hand = {9}
  Modes = {"preview", "metadata"}
  Limits <- LimitsOf
  MaxInFlight = 2
  MaxClock = 1
  MaxOddities = 1
CHECK_DEADLOCK FALSE
