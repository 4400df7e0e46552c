SPECIFICATION LayoutSpec
CONSTANTS
  Cab = {c1, c2}
  Fn = {}
  MaxSpeed = 0
  SendGap = 1
  DefaultToggle = {}
  None = None
  Embedder = FALSE
  MaxDown = 2
  MaxUp = 2
SYMMETRY Interchangeable
VIEW Future
INVARIANT QuietTabsTellTheTruth
