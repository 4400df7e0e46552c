SPECIFICATION LayoutSpec
CONSTANTS
  Cab = {c1}
  Fn = {0}
  MaxSpeed = 1
  SendGap = 1
  DefaultToggle = {}
  None = None
  Embedder = FALSE
  MaxDown = 2
  MaxUp = 1
SYMMETRY Interchangeable
VIEW Future
INVARIANT QuietTabsTellTheTruth
