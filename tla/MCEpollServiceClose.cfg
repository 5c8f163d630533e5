CONSTANTS
  Handlers = {h1, h2, h3}
  Fds = {f1, f2, f3}
  NoHandler = NoHandler
  NoFd = NoFd
  NWorkers = 1
  ConnLimits = {1}
  PendSize = 1
  MaxEvents = 1
CHECK_DEADLOCK FALSE
SPECIFICATION Spec
INVARIANTS
  CloseBeforeDestroy
