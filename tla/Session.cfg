SPECIFICATION FairSpec
CONSTANTS
  Cab = {c1, c2}
  DefaultCab = c1
  None = None
  Unreadable = Unreadable
  Capacity = 2
  MaxActions = 3
  MaxConnections = 2
  MaxLaunches = 2
CHECK_DEADLOCK FALSE
INVARIANTS
  TypeOK
  StoredIsRunning
  AcceptedPreferencesKept
  DrainsDetached
  NoConnectionLeaks
  EventsAreOfThisConnection
  CaughtUpViewIsCurrent
PROPERTIES
  UnreadableIsUntouched
  CloseEnds
