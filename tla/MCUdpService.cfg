CONSTANTS
  Packets = {p1, p2, p3}
  NoPacket = NoPacket
  Platforms = {"linux", "windows"}
  NWorkers = 2
  QSize = 1
SPECIFICATION FairSpec
INVARIANTS
  PacketsAccounted
PROPERTIES
  StopTakesAPacket
CHECK_DEADLOCK FALSE
