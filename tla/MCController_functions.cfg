SPECIFICATION Spec
CONSTANTS
  Cab = {c1, c2}
  Fn = {0}
  MaxSpeed = 0
  SendGap = 1
  DefaultToggle = {}
  None = None
  Embedder = TRUE
SYMMETRY Interchangeable
VIEW Future
PROPERTY Isolation
