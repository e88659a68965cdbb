SPECIFICATION InodesSpec
CONSTANTS
  Process = {p1, p2}
  NINODES = 2
  NBLOCKS = 2
  DPB = 3
  Name = {"x"}
  Path <- MCPath
  Call = {"open", "create", "mkdir", "unlink", "link", "chdir"}
  Nobody = nobody
CHECK_DEADLOCK FALSE
INVARIANT LastPutFrees
