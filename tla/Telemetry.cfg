SPECIFICATION FairSpec
CONSTANTS
  Dest = {d1, d2}
  Off = Off
  None = None
  Unreadable = Unreadable
  MaxBuilds = 3
  MaxLaunches = 2
CHECK_DEADLOCK FALSE
INVARIANTS
  StoredIsActive
  ExportsAreApproved
  ExportersAreCurrent
  ClosedExportsNothing
PROPERTIES
  UnreadableIsUntouched
  PageComesBack
