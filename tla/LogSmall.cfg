SPECIFICATION FairSpec
CONSTANTS
  Procs = {p1, p2}
  Syncers = {p1}
  Blocks = {b1, b2}
  Vals = {v1, v2}
  MAXOPBLOCKS = 2
  LOGSIZE = 4
  NLOG = 4
  OpBlocks = 2
PROPERTIES SyncDurable SyncReturns SleeperWoken
