SPECIFICATION Spec
CONSTANTS
  Proc = {initproc, p1}
  InitProc = initproc
  NumFrames = 6
  Frame <- MCFrame
  Heads <- MCHeads
  MaxPage = 1
  Root = {root}
  Leaf = {leaf0}
  root = root
  leaf0 = leaf0
  leaf1 = leaf1
  LeafOf <- OneLeaf
  Trapframe = trapframe
  Mem = mem_local
  Pa = pa_local
  InitSz = 1
  InitFlags <- AllWritable
  InitPa <- MCInitPa
  InitFree <- AllFree
  Value = {0}
  Zero = 0
  Junk = junk
  None = none
VIEW Shape
CONSTRAINT CountBound
CHECK_DEADLOCK FALSE
INVARIANT RefExact
