\* Does a surface keep its path enabled while it lives?
SPECIFICATION Spec
CONSTANTS
  p1 = p1
  p2 = p2
  e1 = e1
  e2 = e2
  e3 = e3
  Procs <- TwoProcs
  Ebcs <- ThreeEbcs
  owner <- OwnerOf
  Surfaces = {s1, s2, s3}
  None = None
  NFILE = 3
SYMMETRY Same
INVARIANT
  PathHeld
