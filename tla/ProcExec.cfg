SPECIFICATION Spec
CONSTANTS
  NPROC = 4
  NCPU = 1
  MaxPid = 3
  MaxTid = 2
  MainCalls = {"exec"}
  WorkerCalls = {"exec", "sleep"}
INVARIANTS  ThreadList
