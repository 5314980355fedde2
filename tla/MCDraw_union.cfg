\* Does dirty_union put the corners in order?
SPECIFICATION Spec
CONSTANTS
  SCREEN_W = 2
  SCREEN_H = 2
  PATH = "Osd"
  Guards = {d1}
  Gray <- TwoGrays
  WHITE <- Paper
  Modes = {}
  None = None
  USIZE = 65536
  Points <- OnePoint
  Rects <- ColumnRects
  Batches <- OneBatch
  Images <- TwoImages
PROPERTY
  UnionNormalizes
