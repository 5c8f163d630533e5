CONSTANTS
  Handlers = {h1, h2, h3}
  Fds = {f1, f2}
  NoHandler = NoHandler
  NoFd = NoFd
  NWorkers = 2
  ConnLimits = {1, 2}
  PendSize = 1
  MaxEvents = 2
CHECK_DEADLOCK FALSE
SPECIFICATION FairSpec
INVARIANTS
  HandlersValid
  OneOwner
  ClosedOnce
  NothingLeaked
PROPERTIES
  QueuedIsServed
  StopCompletes
