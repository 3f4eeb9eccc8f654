SPECIFICATION EitherSpec
CONSTANTS
  Threads <- Threaded
  NCPU = 1
  NNODE = 4
  Unit = 252
  Allot <- ShortAllot
  Slice <- ShortSlice
  Shares = {0, 10, 20}
  MaxTicks = 7
  Calls = {"fork", "exit", "sleep", "mlfq"}
INVARIANTS MlfqListRight  ShareFair ShareHighpr
\* MaxTicks ends every behaviour.
CHECK_DEADLOCK FALSE
