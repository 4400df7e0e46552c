SPECIFICATION Spec
CONSTANTS
  Cab = {c1, c2}
  None = None
  Capacity = 2
  Latching = FALSE
  MaxGestures = 5
  MaxLinks = 2
  MaxPending = 2
SYMMETRY Interchangeable
CHECK_DEADLOCK FALSE
INVARIANTS
  HiddenHoldsNothing
  QuietViewIsTrue
  NoStuckFunction
  EditsEndOnce
