SPECIFICATION Spec
CONSTANTS
  Proc = {initproc, p1}
  InitProc = initproc
  NumFrames = 12
  Frame <- MCFrame
  Heads <- MCHeads
  MaxPage = 2
  Root = {root}
  Leaf = {leaf0}
  root = root
  leaf0 = leaf0
  LeafOf <- OneLeaf
  Trapframe = trapframe
  Mem = mem_local
  InitSz = 1
  InitFlags <- TextFirst
  InitPa <- MCInitPa
  InitFree <- SomeFree
  Zero = 0
  Junk = junk
  Client = {c1, c2}
  None = none
  Byte = {0, 1}
  NOFILE = 2
  NFILE = 2
  PIPESIZE = 2
  Wrap = 4
  MaxN = 3
  Nil = nil
  Block = {k1, k2, k3}
  Caller = {c1, c2, c3}
  Third = c3
  Value = {0, 1}
  Content = {0, 1}
  Nothing = nothing
  NBUF = 2
  NUM = 4
  INPUT_BUF_SIZE = 2
  UART_TX_BUF_SIZE = 1
  ConsoleWrap = 4
  ConsoleN = 2
SYMMETRY Alike
VIEW Shape
CHECK_DEADLOCK FALSE
INVARIANTS OwnedOnce FilesExact NoneOversleeps IoExact
PROPERTIES EagerPrivate IsChannel StoresBlocks ConsoleServes
