SPECIFICATION FairSpec
CONSTANTS
  Caller = {a, b}
  None = None
  Capacity = 1
  Chunks = 2
  MaxFrames = 1
  MaxCommands = 2
INVARIANTS
  TypeOK
  CommandsStayWhole
PROPERTIES
  FailureIsReported
  SendReturns
  ShutdownEndsReader
