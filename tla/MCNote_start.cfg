\* Does Ctrl-C always turn the overlay off?
SPECIFICATION NoteSpec
CONSTANTS
  me = me
  you = you
  ebc = ebc
  e2 = e2
  e3 = e3
  mine = mine
  Procs = {me}
  Ebcs = {ebc}
  owner <- Alone
  Surfaces = {mine}
  None = None
  NFILE = 1
  Tools = {"None", "Pen", "Eraser"}
  KEYS = 1
CHECK_DEADLOCK FALSE
INVARIANT
  CtrlCTurnsOff
