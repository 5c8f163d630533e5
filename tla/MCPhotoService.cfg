CONSTANTS
  s1 = s1
  s2 = s2
  Sessions <- TwoSessions
  Peers <- Pairs
  w1 = w1
  w2 = w2
  Workers <- TwoWorkers
  Turns <- SameOrOther
  NoWorker = NoWorker
  MaxFaults = 1
  MaxInputs = 3
SPECIFICATION LiveSpec
INVARIANTS
  UploadKept
  FewLateCopies
  OneAnswer
  EmptyOnlyIfMissing
  ReportsTrue
PROPERTIES
  SessionEnds
CHECK_DEADLOCK FALSE
