SPECIFICATION Spec
CONSTANTS
  Procs = {p1, p2}
  Syncers = {p1}
  Blocks = {b1, b2, b3, b4, b5}
  Vals = {v1}
  MAXOPBLOCKS = 3
  LOGSIZE = 6
  NLOG = 6
  OpBlocks = 1
SYMMETRY BlockSymmetry
INVARIANTS NoPanic
