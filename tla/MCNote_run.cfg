\* The program from start to end, beside another that uses the device.
SPECIFICATION NoteSpec
CONSTANTS
  me = me
  you = you
  ebc = ebc
  e2 = e2
  e3 = e3
  mine = mine
  Procs = {me, you}
  Ebcs = {ebc, e2, e3}
  owner <- WithYou
  Surfaces = {mine, yours}
  None = None
  NFILE = 2
  Tools = {"None", "Pen", "Eraser"}
  KEYS = 1
CHECK_DEADLOCK FALSE
INVARIANTS
  NoteTypeOK
  FreshPressure
  LeavesNothing
  FdsAccounted
  OffWhenUnused
PROPERTIES
  SegmentsUnbroken
  TouchMarks
  ExitEnds
