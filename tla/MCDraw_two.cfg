\* Two scopes of one surface open together, on the main path.
SPECIFICATION Spec
CONSTANTS
  SCREEN_W = 3
  SCREEN_H = 1
  PATH = "Main"
  Guards = {d1, d2}
  Gray <- TwoGrays
  WHITE <- Paper
  Modes = {}
  None = None
  USIZE = 65536
  Points <- CrossPoints
  Rects <- WideRects
  Batches = {}
  Images = {}
SYMMETRY Scopes
INVARIANTS
  InSync
  AtMostOneSend
PROPERTIES
  SpentIsSilent
  CommitsOnlyOwedInk
  ImplementsCanvas
