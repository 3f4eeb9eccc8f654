SPECIFICATION FairSpec
CONSTANTS
  p1 = p1
  p2 = p2
  Procs = {p1, p2}
  Bytes = {0, 1}
  PIPESIZE = 2
  WORD = 4
  NOFILE = 2
  NFILE = 2
  NPAGE = 1
  Payloads <- MCPayloads
  MaxLen = 2
  Opens = {"pipe", "inode"}
  KillRaces = FALSE
CHECK_DEADLOCK FALSE
INVARIANTS LifetimesExact SleepersRight FifoOrder
PROPERTIES OtherEndGone 
