SPECIFICATION FairSpec
CONSTANTS
  NPROC = 3
  NCPU = 1
  MaxPid = 3
  MaxTid = 1
  MainCalls = {"sleep"}
  WorkerCalls = {"sleep"}
PROPERTIES KilledEnds OrphanReaped
