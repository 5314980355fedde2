\* Every call, against a digitizer with two tools and both axes.
SPECIFICATION Spec
CONSTANTS
  SCREEN_W = 2
  SCREEN_H = 3
  Abs = {0}
  Codes <- TwoToolsAndAxes
  QLEN = 3
  FRAME = 2
  CHUNK_READ = 2
  CHUNK_POLL = 3
INVARIANTS
  TypeOK
  ProximityHasTool
  ReadNeverBlocks
  NothingLost
  ReadWaitBounded
PROPERTIES
  FramesInOrder
  ReadReturns
  PollOnceReturns
  EmptyHanded
