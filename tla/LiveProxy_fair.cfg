SPECIFICATION FairSpec
CHECK_DEADLOCK FALSE
PROPERTIES OrderlyExitKeepsObservations KeepsPromise EveryRequestSettles CloseFinishes
CONSTANTS
  None = None
  hdr = hdr
  cdx = cdx
  RawIds = {hdr, cdx}
  Named = {n1}
  Safe <- OneSafeId
  Generated = {g1, g2}
  ResponseIds = {u1, u2}
  Fingerprints = {f1}
  Fallback = n1
  IdleMs = 1
  Requests = {r1, r2}
  Payloads <- OnePrompt
  MaxArtifacts = 0
  MaxTime = 0
  MaxDiskFailures = 1
  MaxDepartures = 1
  MaxKills = 1
  MaxRestarts = 0
