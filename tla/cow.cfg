SPECIFICATION MemorySpec
CONSTANTS
  Proc = {initproc, p1}
  InitProc = initproc
  NumFrames = 13
  Frame <- MCFrame
  Heads <- MCHeads
  MaxPage = 2
  Root = {root}
  Leaf = {leaf0, leaf1}
  root = root
  leaf0 = leaf0
  leaf1 = leaf1
  LeafOf <- TwoLeaves
  Trapframe = trapframe
  Mem = mem_local
  Pa = pa_local
  InitSz = 1
  InitFlags <- AllWritable
  InitPa <- MCInitPa
  InitFree <- SomeFree
  Value = {0}
  Zero = 0
  Junk = junk
  None = none
  Null = null
  Process = {t0, t1}
  Hart = {h0, h1}
  NINSN = 2
SYMMETRY Alike
VIEW AllShape
CONSTRAINT CountBound
CHECK_DEADLOCK FALSE
INVARIANTS SharedReadOnly NoUseAfterFree RefCount MappedExactly TrapsExact
