SPECIFICATION StorageSpec
CONSTANTS
  Proc = {p1, p2, p3}
  Block = {b1, b2}
  Value = {v0, v1}
  Torn = torn
  MAXOPBLOCKS = 4
  LOGSIZE = 12
  NLOG = 12
  OpBlocks = 2
  Caller = {c1, c2}
  File = {b1, b2}
  Byte = {1, 2}
  NBLOCKS = 3
  BSIZE = 2
  NDIRECT = 1
  MaxWrite = 3
  Lengths = {4}
  NPAGES = 14
  PGSIZE = 4
  LEAF = 2
  MAXARG = 3
  Program <- MCProgram
  Nobody = nobody
  ArgSizes = {2, 4}
  NUNITS = 4
  Start = 2
  Limit = 13
  Sizes = {2, 3, 5}
  Process = {c1, c2}
  Cpu = {h0, h1}
  Cpu0 = h0
  Shared = tickslock
  Word = {"echo"}
  MAXARGS = 3
  MaxLine = 5
  None = none
SYMMETRY Alike
VIEW Shape
CHECK_DEADLOCK FALSE
INVARIANTS Reserved SleepersWoken ExecExact HeapExact LocksNest ParserExact
PROPERTIES AtomicSpec IsFileStore
