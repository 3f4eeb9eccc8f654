SPECIFICATION Spec
CONSTANTS
  Procs = {p1, p2, p3}
  Syncers = {}
  Blocks = {b1, b2, b3}
  Vals = {v1, v2}
  MAXOPBLOCKS = 2
  LOGSIZE = 4
  NLOG = 4
  OpBlocks = 2
SYMMETRY Symmetry
PROPERTIES Atomicity
