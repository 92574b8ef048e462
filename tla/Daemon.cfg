SPECIFICATION Spec
INVARIANT DaemonInv
PROPERTIES DaemonReportsAreTrue ProxyOutlivesRouting
SYMMETRY Symmetry
CHECK_DEADLOCK FALSE
CONSTANTS
  None = None
  Managed = managed
  Providers = {p1}
  Urls = {url1}
  Documents <- UserDocuments
  Extra <- ExtraLine
  MaxEdits = 1
  MaxDeaths = 0
  Pids = {pid1, pid2, pid3}
  DashboardPids = {dash1, dash2, dash3}
  MaxCommands = 4
  MaxOverlaps = 0
  MaxSlowStarts = 0
  MaxSlowStops = 0
  MaxKills = 1
  MaxReboots = 1
  MaxDaemons = 3
  MaxCrashes = 1
  MaxStrays = 1
