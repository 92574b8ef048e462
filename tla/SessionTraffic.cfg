SPECIFICATION Spec
INVARIANTS IInv RequestsShareRuns MintedRunIsOneConversation
SYMMETRY Symmetry
CHECK_DEADLOCK FALSE
CONSTANTS
  None = None
  hdr = hdr
  cdx = cdx
  key = key
  n1 = n1
  n2 = n2
  RawIds = {hdr, cdx, key}
  Named = {n1, n2}
  Safe <- SafeId
  Generated = {g1, g2, g3}
  ResponseIds = {u1}
  Fingerprints = {f1, f2}
  Fallback = None
  IdleMs = 1
  Payloads <- MixedPayloads
  MaxRequests = 3
  MaxTime = 2
  MaxRestarts = 1
