CONSTANTS
  Handlers = {h1, h2, h3}
  Commands = {c1, c2, c3}
  NoHandler = NoHandler
  NoCommand = NoCommand
  NWorkers = 2
  ConnLimit = 1
  PendSize = 1
SPECIFICATION FairSpec
INVARIANTS
  OneOwner
  CommandsAccounted
PROPERTIES
  ConnectEnds
  StopReturns
CHECK_DEADLOCK FALSE
