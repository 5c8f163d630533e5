CONSTANTS
  MaxSide = 14
  Sources <- SmallSources
SPECIFICATION DealSpec
INVARIANTS
  Covers
  RenditionSize
CHECK_DEADLOCK FALSE
