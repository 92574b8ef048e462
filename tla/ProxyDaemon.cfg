SPECIFICATION FairSpec
INVARIANT ProcessInv
PROPERTIES ReportsAreTrue StrangersAreLeftAlone CommandsFinish
CHECK_DEADLOCK FALSE
CONSTANTS
  None = None
  Commands = {c1, c2}
  Pids = {p1, p2, p3}
  MaxCommands = 3
  MaxOverlaps = 1
  MaxSlowStarts = 1
  MaxSlowStops = 1
  MaxKills = 1
  MaxReboots = 1
