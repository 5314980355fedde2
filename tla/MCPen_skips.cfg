\* Does every SYN_REPORT give a PenEvent?
SPECIFICATION Spec
CONSTANTS
  SCREEN_W = 2
  SCREEN_H = 3
  Abs = {0}
  Codes <- TwoToolsAndAxes
  QLEN = 4
  FRAME = 2
  CHUNK_READ = 4
  CHUNK_POLL = 4
INVARIANT
  DrainedPenIsCurrent
