SPECIFICATION TablesSpec
CONSTANTS
  NPROC = 3
  Cpu = {c0, c1}
  Cpu0 = c0
  Sleeps <- AnySleeps
  Clock = clock
  Ticks = ticks
  None = none
  Process = {u1, u2}
  Nobody = nobody
  NINODES = 3
  NBLOCKS = 2
  DPB = 3
  Name = {x, y}
  Path <- MCPath
  Call = {"open", "create", "mkdir", "unlink", "link", "chdir"}
SYMMETRY Alike
INVARIANTS OneStack WaitersWoken SleepersWoken ScanComplete ParentAlive SchedLocks
INVARIANTS InodesExact NoDeadlock
