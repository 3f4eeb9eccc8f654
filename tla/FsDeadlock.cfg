SPECIFICATION Spec
CONSTANTS
  p1 = p1
  p2 = p2
  NoProc = NoProc
  Procs = {p1, p2}
  NINODES = 3
  NINODE = 3
  Names = {"a", "b"}
  SysCalls <- MCSysCalls
CHECK_DEADLOCK FALSE
INVARIANT NoLockCycle
