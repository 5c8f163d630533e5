CONSTANTS
  NoValue = NoValue
  Values = {v1, v2}
  Platforms = {"linux", "windows"}
  QSize = 2
  Modulus = 4
SPECIFICATION FairSpec
INVARIANTS
  NoSlotRace
  WakeupsBounded
PROPERTIES
  ImplementsFifo
  CallReturns
