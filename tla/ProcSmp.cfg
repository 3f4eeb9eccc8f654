SPECIFICATION Spec
CONSTANTS
  NPROC = 4
  NCPU = 2
  MaxPid = 3
  MaxTid = 2
  MainCalls = {"sleep"}
  WorkerCalls = {"sleep"}
INVARIANTS  ThreadList ParentAlive NoLostWakeup
