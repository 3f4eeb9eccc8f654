SPECIFICATION Spec
CONSTANTS
  Files = {1, 2}
  NDIRECT = 1
  BSIZE = 2
  nmeta = 2
  FSSIZE = 28
  BPB = 16
  MAXOPBLOCKS = 10
  MkfsSize <- MCMkfsSize
  MaxSize <- MCMaxSize
  Lens = {3}
  MaxRemoves = 1
  Users = {1, 2}
  DiskBlocks = {1, 2, 3, 4}
  NoBlock = 0
  NBUF = 3
  MaxLogged = 1
  Slots = {1, 2, 3}
  NPAGES = 14
  PGSIZE = 2
  KERNBASE = 16
  NPTENTRIES = 8
  ImageSize = 2
  SbrkSizes <- MCSbrkSizes
  Readers = {1, 2}
  INPUT_BUF = 3
  CWORD = 6
  Lengths = {1, 4}
  Cpus = {1, 2}
  Locks = {1, 2}
  NoCpu = 0
  Lines <- MCLines
  MAXARGS = 3
  NOFILES = 6
  HEADER = 8
  MinUnits = 4
  Requests = {0, 8, 32}
  HeapEnd = 12
  Inputs <- MCInputs
  Patterns <- MCPatterns
  Texts <- MCTexts
  Strings <- MCStrings
  BufSize = 4
INVARIANTS ContentExact 
INVARIANTS OneVersion NothingLost 
  
INVARIANTS TypedGetsThrough
INVARIANTS LockExclusive HandlersKeptOut
INVARIANTS ParsesGrammar LineRuns
INVARIANTS HeapWhole  
PROPERTY EofAlone
CHECK_DEADLOCK FALSE
