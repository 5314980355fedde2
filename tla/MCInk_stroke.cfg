\* Strokes of the pen and the eraser, over the edges, with clears in between.
SPECIFICATION InkSpec
CONSTANTS
  SCREEN_W = 2
  SCREEN_H = 5
  Tools = {"None", "Pen", "Eraser"}
  PEN_RADIUS = 1
  CLASSES = 1
  ERASER_RADIUS = 2
  None = None
INVARIANTS
  InkTypeOK
  NoGaps
  WidthOfStroke
PROPERTIES
  AlongStroke
  ImplementsStrokes
