SPECIFICATION FairSpec
CONSTANTS
  Cab = {c1, c2}
  Fn = {}
  MaxSpeed = 1
  SendGap = 1
  DefaultToggle = {}
  None = None
  Embedder = FALSE
INVARIANTS
  TypeOK
  OrderIsOpenTabs
  NothingSurvivesDisconnect
  IntentIsDisplayed
  SettledIsExchanged
  SentIsDisplayed
PROPERTIES
  Isolation
  IntentReachesStation
