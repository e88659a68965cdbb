SPECIFICATION InodesSpec
CONSTANTS
  Process = {p1, p2}
  NINODES = 3
  NBLOCKS = 3
  DPB = 3
  Name = {"x"}
  Path <- MCPathUp
  Call = {"mkdir", "unlink", "chdir"}
  Nobody = nobody
CHECK_DEADLOCK FALSE
INVARIANT NeverUntyped
