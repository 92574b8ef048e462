SPECIFICATION Spec
INVARIANTS IInv ForwardedIsRecorded RunsInOrder AnsweredKeepsUsage ContinuationStaysInRun
SYMMETRY Symmetry
CHECK_DEADLOCK FALSE
CONSTANTS
  None = None
  hdr = hdr
  cdx = cdx
  RawIds = {hdr, cdx}
  Named = {n1}
  Safe <- OneSafeId
  Generated = {g1, g2}
  ResponseIds = {u1, u2}
  Fingerprints = {f1}
  Fallback = None
  IdleMs = 0
  Requests = {r1, r2}
  Payloads <- MixedPayloads
  MaxArtifacts = 1
  MaxTime = 1
  MaxDiskFailures = 1
  MaxDepartures = 0
  MaxKills = 1
  MaxRestarts = 1
