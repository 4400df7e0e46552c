SPECIFICATION ProvenanceSpec
CONSTANTS
  Cab = {c1}
  Fn = {}
  MaxSpeed = 1
  SendGap = 1
  DefaultToggle = {}
  None = None
  Embedder = FALSE
INVARIANT OfflineSpeedNeverReplayed
