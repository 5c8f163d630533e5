CONSTANTS
  k1 = k1
  k2 = k2
  w1 = w1
  w2 = w2
  NoKey = NoKey
  Keys <- TwoKeys
  Workers <- TwoWorkers
  Renderable <- OneKey
  MaxTrims <- TwoAndOne
  MaxFaults = 1
  MaxRestarts = 1
SPECIFICATION FairSpec
INVARIANTS
  OneJobPerRecord
  StoredOnce
  TrimCounters
  WakeupPerReport
  SuccessMeansStored
PROPERTIES
  ImplementsService
  WedgedUntilRestart
  EveryTrimAnswered
