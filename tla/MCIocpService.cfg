CONSTANTS
  Handlers = {h1, h2, h3}
  Socks = {s1, s2}
  Addrs = {a1, a2}
  None = None
  NWorkers = 1
  ConnLimit = 2
  PendSize = 1
  MaxEvents = 2
CHECK_DEADLOCK FALSE
SYMMETRY Alike
SPECIFICATION Spec
INVARIANTS
  OneOwner
  CompletionsMatched
